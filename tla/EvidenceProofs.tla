--------------------------- MODULE EvidenceProofs ---------------------------
(***************************************************************************)
(* Proofs about the ledger in the hands of its readers (LedgerReaders), as *)
(* a part of Evidence: for any requests, any foreign edits and any bounds. *)
(*                                                                         *)
(* A digest holds, place by place, the records it commits to (ChainDigest, *)
(* by induction along the chain).  From it follow how long the beginning   *)
(* is that a reported head covers, and that two files with one head hold   *)
(* the same records.                                                       *)
(*                                                                         *)
(* The second half is about the tools that answer for a document           *)
(* (DocumentChecks): an invariant of a run through any table of gates, and *)
(* then, table by table, that what GREEN stands for was looked at.         *)
(***************************************************************************)
EXTENDS Evidence, SequenceLemmas

Commits == [seq : Nat, body : Shape]
Lines   == SignedRecord \cup {Torn, Junk}
Signed  == {"none", "good"}

LedgerTypes ==
  /\ ledger \in Seq(Lines)
  /\ open \in BOOLEAN /\ (open => ledger # << >>)
  /\ reader \in [pc : {"idle", "gates", "count", "copy"}, head : Commitment, calm : BOOLEAN]
  /\ clean \in BOOLEAN

\* A record as the program appends it.
Lawful(rec) ==
  /\ rec.sig \in Signed /\ Gated(rec)
  /\ rec.body.number # "exact" => rec.body.op = "compute-anchor"

\* What only the program wrote is a chain of records that every gate passes.
CleanInv ==
  clean => ~open /\ Chained(ledger) /\ \A i \in DOMAIN ledger : Lawful(ledger[i])

TipAt(log, k) == IF k = 0 THEN Genesis ELSE log[k].h

\* The records that head commits to are the first ones of log.
Beginning(log, head) ==
  /\ head \in Commitment /\ Len(head) <= Len(log)
  /\ \A i \in 1..Len(head) : Links(log, i) /\ log[i].body.number = "exact"
  /\ head = TipAt(log, Len(head))

ReaderInv ==
  reader.pc # "idle" /\ reader.calm =>
    /\ ~open /\ AllRecords(ledger)
    /\ Beginning(ledger, reader.head)
    /\ \A i \in 1..Len(reader.head) :
         /\ ledger[i].body.fits
         /\ reader.pc # "copy" => ledger[i].sig # "bad"
         /\ reader.pc = "count" => Gated(ledger[i])

HeldInv ==
  held # None /\ held.calm =>
    /\ held.log \in Seq(Lines) /\ held.lines = Len(held.log)
    /\ Beginning(held.log, held.head)
    /\ held.by = "report" =>
         \A i \in 1..Len(held.head) :
           held.log[i].body.fits /\ held.log[i].sig # "bad" /\ Gated(held.log[i])
    /\ held.by = "bundle" =>
         /\ held.records \in Seq(Lines) /\ Len(held.head) <= Len(held.records)
         /\ \A i \in 1..Len(held.head) : held.records[i] = held.log[i]

IInv == LedgerTypes /\ CleanInv /\ ReaderInv /\ HeldInv
-----------------------------------------------------------------------------
(* A line that parses is a record, in a file and in a part of it.          *)
LEMMA RecordType ==
  ASSUME NEW log \in Seq(Lines), NEW i \in 1..Len(log), IsRecord(log[i])
  PROVE  log[i] \in SignedRecord
BY ElementOfSeq DEF Lines, IsRecord

LEMMA SealedIsRecord ==
  ASSUME NEW r \in SignedRecord
  PROVE  IsRecord(r) /\ r \in Lines
BY ReadersAssumption DEF ReadersAssumption, IsRecord, Lines

(* What the h of a linked record is: the records up to it, place by place. *)
LEMMA ChainDigest ==
  ASSUME NEW log \in Seq(Lines), NEW k \in Nat, k <= Len(log),
         \A i \in 1..k : Links(log, i)
  PROVE  \A i \in 1..k :
           /\ log[i].h \in Commitment
           /\ log[i].h = [j \in 1..i |-> [seq |-> j, body |-> log[j].body]]
<1> DEFINE e == [i \in 1..k |-> [seq |-> i, body |-> log[i].body]]
           h == [i \in 1..k |-> log[i].h]
<1>1. \A i \in 1..k : log[i] \in SignedRecord
  <2>1. Len(log) \in Nat
    BY LenProperties
  <2>2. \A i \in 1..k : i \in 1..Len(log) /\ IsRecord(log[i])
    BY <2>1 DEF Links
  <2> QED BY <2>2, RecordType
<1>2. e \in [1..k -> Commits]
  <2>1. \A i \in 1..k : log[i].body \in Shape
    BY <1>1 DEF SignedRecord
  <2> QED BY <2>1 DEF Commits
<1>3. \A i \in 1..k : h[i] = Append(IF i = 1 THEN << >> ELSE h[i - 1], e[i])
  <2> SUFFICES ASSUME NEW i \in 1..k
               PROVE  h[i] = Append(IF i = 1 THEN << >> ELSE h[i - 1], e[i])
    OBVIOUS
  <2>1. /\ log[i].prev = IF i = 1 THEN << >> ELSE log[i - 1].h
        /\ log[i].h = Append(log[i].prev, [seq |-> i, body |-> log[i].body])
    BY DEF Links, Hash, Genesis
  <2>2. i # 1 => i - 1 \in 1..k
    OBVIOUS
  <2>3. h[i] = log[i].h /\ e[i] = [seq |-> i, body |-> log[i].body]
        /\ (i # 1 => h[i - 1] = log[i - 1].h)
    BY <2>2
  <2> DEFINE before == IF i = 1 THEN << >> ELSE h[i - 1]
  <2>4. log[i].prev = before
    BY <2>1, <2>3
  <2> HIDE DEF h, e, before
  <2>5. h[i] = Append(before, e[i])
    BY <2>1, <2>3, <2>4
  <2> QED BY <2>5 DEF before
<1>4. \A i \in 1..k : h[i] \in Seq(Commits) /\ h[i] = Firsts(e, i)
  <2>1. Grows(h, e, k)
    BY <1>3 DEF Grows
  <2> HIDE DEF e, h
  <2> QED BY <1>2, <2>1, DigestsByPlace
<1>5. ASSUME NEW i \in 1..k
      PROVE  Firsts(e, i) = [j \in 1..i |-> [seq |-> j, body |-> log[j].body]]
  <2>1. \A j \in 1..i : j \in 1..k
    OBVIOUS
  <2>2. \A j \in 1..i : e[j] = [seq |-> j, body |-> log[j].body]
    BY <2>1
  <2> HIDE DEF e
  <2> QED BY <2>2, Zenon DEF Firsts
<1>6. \A i \in 1..k : h[i] = log[i].h
  OBVIOUS
<1> HIDE DEF e, h
<1> QED BY <1>4, <1>5, <1>6 DEF Commitment, Commits

(* So the tip of a chain of k records has k entries.                       *)
LEMMA TipLength ==
  ASSUME NEW log \in Seq(Lines), NEW k \in Nat, k <= Len(log),
         \A i \in 1..k : Links(log, i)
  PROVE  TipAt(log, k) \in Commitment /\ Len(TipAt(log, k)) = k
<1>1. CASE k = 0
  BY <1>1, EmptySeq DEF TipAt, Genesis, Commitment
<1>2. CASE k # 0
  <2>1. k \in 1..k
    BY <1>2
  <2>2. log[k].h \in Commitment
        /\ log[k].h = [j \in 1..k |-> [seq |-> j, body |-> log[j].body]]
    BY <2>1, ChainDigest
  <2>3. DOMAIN log[k].h = 1..k
    BY <2>2
  <2>4. Len(log[k].h) \in Nat /\ DOMAIN log[k].h = 1..Len(log[k].h)
    BY <2>2, LenProperties DEF Commitment
  <2>5. Len(log[k].h) = k
    BY <2>3, <2>4
  <2> QED BY <1>2, <2>2, <2>5 DEF TipAt
<1> QED BY <1>1, <1>2

(* A file that any reader accepts is the beginning its tip commits to.     *)
LEMMA TipOfFile ==
  ASSUME NEW log \in Seq(Lines), ChainMath(log)
  PROVE  Beginning(log, ChainTip(log)) /\ Len(ChainTip(log)) = Len(log)
<1>1. Len(log) \in Nat /\ DOMAIN log = 1..Len(log)
  BY LenProperties
<1>2. \A i \in 1..Len(log) : Links(log, i) /\ log[i].body.number = "exact"
  BY <1>1 DEF ChainMath, Chained, Exact, ChainOk
<1>3. ChainTip(log) = TipAt(log, Len(log))
  BY <1>1, EmptySeq DEF ChainTip, TipAt
<1>4. ChainTip(log) \in Commitment /\ Len(ChainTip(log)) = Len(log)
  BY <1>1, <1>2, <1>3, TipLength
<1> QED BY <1>1, <1>2, <1>3, <1>4 DEF Beginning

(* A file that agrees with it up to there has the same beginning.          *)
LEMMA BeginningKept ==
  ASSUME NEW log \in Seq(Lines), NEW more \in Seq(Lines), NEW head, Beginning(log, head),
         Len(head) <= Len(more), \A i \in 1..Len(head) : more[i] = log[i]
  PROVE  Beginning(more, head)
<1> DEFINE k == Len(head)
<1>1. k \in Nat
  BY LenProperties DEF Beginning, Commitment
<1>2. \A i \in 1..k : more[i] = log[i] /\ (i # 1 => more[i - 1] = log[i - 1])
  BY <1>1
<1>3. \A i \in 1..k : Links(more, i) /\ more[i].body.number = "exact"
  <2> TAKE i \in 1..k
  <2>1. Links(log, i) /\ log[i].body.number = "exact"
    BY DEF Beginning
  <2> HIDE DEF k
  <2> QED BY <1>2, <2>1 DEF Links
<1>4. head = TipAt(more, k)
  <2>1. head = TipAt(log, k)
    BY DEF Beginning
  <2>2. k # 0 => k \in 1..k
    BY <1>1
  <2> HIDE DEF k
  <2> QED BY <1>2, <2>1, <2>2 DEF TipAt
<1> QED BY <1>3, <1>4 DEF Beginning

(* The lines of a beginning are a file of their own, with that head.       *)
LEMMA FirstLines ==
  ASSUME NEW log \in Seq(Lines), NEW k \in Nat, k <= Len(log)
  PROVE  /\ SubSeq(log, 1, k) \in Seq(Lines)
         /\ Len(SubSeq(log, 1, k)) = k /\ DOMAIN SubSeq(log, 1, k) = 1..k
         /\ \A i \in 1..k : SubSeq(log, 1, k)[i] = log[i]
<1> DEFINE m == SubSeq(log, 1, k)
<1>1. Len(log) \in Nat
  BY LenProperties
<1>2. \A i \in 1..k : log[i] \in Lines
  BY <1>1, ElementOfSeq
<1>3. /\ m \in Seq(Lines)
      /\ Len(m) = IF 1 <= k THEN k - 1 + 1 ELSE 0
      /\ \A i \in 1..(k - 1 + 1) : m[i] = log[1 + i - 1]
  BY <1>2, SubSeqProperties
<1> HIDE DEF m
<1>4. Len(m) = k /\ DOMAIN m = 1..k
  BY <1>3, LenProperties
<1>5. \A i \in 1..k : m[i] = log[i]
  BY <1>3
<1> QED BY <1>3, <1>4, <1>5 DEF m

LEMMA BeginningIsFile ==
  ASSUME NEW log \in Seq(Lines), NEW head, Beginning(log, head)
  PROVE  /\ ChainMath(SubSeq(log, 1, Len(head)))
         /\ ChainTip(SubSeq(log, 1, Len(head))) = head
<1> DEFINE k == Len(head)
           m == SubSeq(log, 1, k)
<1>1. k \in Nat /\ k <= Len(log)
  BY LenProperties DEF Beginning, Commitment
<1>2. m \in Seq(Lines) /\ Len(m) = k /\ DOMAIN m = 1..k /\ \A i \in 1..k : m[i] = log[i]
  BY <1>1, FirstLines
<1> HIDE DEF m
<1>3. Beginning(m, head)
  BY <1>1, <1>2, BeginningKept
<1>4. \A i \in 1..k : Links(m, i) /\ m[i].body.number = "exact" /\ IsRecord(m[i])
  BY <1>3 DEF Beginning, Links
<1>5. ChainMath(m)
  BY <1>2, <1>4 DEF ChainMath, Chained, Exact, ChainOk, AllRecords
<1>6. ChainTip(m) = head
  <2>1. head = TipAt(m, k)
    BY <1>3 DEF Beginning
  <2>2. m = << >> <=> k = 0
    BY <1>2, EmptySeq
  <2> QED BY <1>2, <2>1, <2>2 DEF TipAt, ChainTip
<1> QED BY <1>5, <1>6 DEF m

(* Two files that begin with one head begin with the same records.         *)
LEMMA OneHeadOnePast ==
  ASSUME NEW log \in Seq(Lines), NEW other \in Seq(Lines), NEW head,
         Beginning(log, head), Beginning(other, head)
  PROVE  \A i \in 1..Len(head) : SameEntry(log[i], other[i])
<1> DEFINE k == Len(head)
           said(l, i) == [j \in 1..i |-> [seq |-> j, body |-> l[j].body]]
<1>1. k \in Nat /\ k <= Len(log) /\ k <= Len(other)
  BY LenProperties DEF Beginning, Commitment
<1>2. \A i \in 1..k : Links(log, i) /\ Links(other, i)
  BY DEF Beginning
<1>3. \A i \in 1..k : log[i].h = said(log, i) /\ other[i].h = said(other, i)
  BY <1>1, <1>2, ChainDigest
<1>4. k # 0 => said(log, k) = said(other, k)
  <2>1. head = TipAt(log, k) /\ head = TipAt(other, k)
    BY DEF Beginning
  <2>2. k # 0 => k \in 1..k
    BY <1>1
  <2> HIDE DEF k, said
  <2> QED BY <1>3, <2>1, <2>2 DEF TipAt
<1>5. \A j \in 1..k : log[j].body = other[j].body
  <2> TAKE j \in 1..k
  <2>1. said(log, k) = said(other, k)
    BY <1>1, <1>4
  <2>2. said(log, k)[j] = said(other, k)[j]
    BY <2>1
  <2>3. said(log, k)[j] = [seq |-> j, body |-> log[j].body]
        /\ said(other, k)[j] = [seq |-> j, body |-> other[j].body]
    <3> HIDE DEF k
    <3> QED OBVIOUS
  <2> QED BY <2>2, <2>3
<1>6. ASSUME NEW i \in 1..k PROVE log[i].h = other[i].h
  <2>1. \A j \in 1..i : log[j].body = other[j].body
    BY <1>1, <1>5
  <2>2. said(log, i) = said(other, i)
    BY <2>1
  <2> HIDE DEF said
  <2> QED BY <1>3, <2>2
<1>7. \A i \in 1..k : i # 1 => i - 1 \in 1..k
  BY <1>1
<1> HIDE DEF k
<1>8. \A i \in 1..k : SameEntry(log[i], other[i])
  BY <1>2, <1>5, <1>6, <1>7 DEF Links, SameEntry
<1> QED BY <1>8 DEF k

(* Records that fit are copied by the bundle, the first ones first.        *)
LEMMA CopyKeepsBeginning ==
  ASSUME NEW log \in Seq(Lines), NEW k \in Nat, k <= Len(log),
         \A i \in 1..k : IsRecord(log[i]) /\ log[i].body.fits
  PROVE  /\ Copied(log) \in Seq(Lines) /\ k <= Len(Copied(log))
         /\ \A i \in 1..k : Copied(log)[i] = log[i]
<1> DEFINE T == {i \in RecordsIn(log) : log[i].body.fits}
           f == CHOOSE g : Selects(g, log, T)
<1>1. Copied(log) = f[Len(log)]
  BY Zenon DEF Copied, Selects
<1>2. Selects(f, log, T)
  <2> HIDE DEF T
  <2>1. \E g : Selects(g, log, T)
    BY SelectionExists
  <2> QED BY <2>1, Zenon
<1>3. 1..k \subseteq T
  <2>1. Len(log) \in Nat
    BY LenProperties
  <2> QED BY <2>1 DEF RecordsIn
<1> HIDE DEF T, f
<1> QED BY <1>1, <1>2, <1>3, SelectionKeeps
-----------------------------------------------------------------------------
(* What an append seals is a record of this file.                          *)
LEMMA SealedType ==
  ASSUME LedgerTypes, CanAppend(ledger), NEW body \in Shape, NEW sig \in Signed \cup {"bad"}
  PROVE  /\ Sealed(body, sig) \in SignedRecord
         /\ Sealed(body, sig).body = body /\ Sealed(body, sig).sig = sig
         /\ Sealed(body, sig).seq = Len(ledger) + 1
         /\ Sealed(body, sig).prev = PredecessorHash(ledger)
         /\ Sealed(body, sig).h = Hash(PredecessorHash(ledger), Len(ledger) + 1, body)
<1>1. ledger \in Seq(Lines) /\ Len(ledger) \in Nat
  BY LenProperties DEF LedgerTypes
<1>2. PredecessorHash(ledger) \in Commitment
  <2>1. CASE ledger = << >>
    BY <2>1, EmptySeq DEF PredecessorHash, Genesis, Commitment
  <2>2. CASE ledger # << >>
    <3> DEFINE k == CHOOSE i \in RecordsIn(ledger) : \A j \in RecordsIn(ledger) : j <= i
    <3>1. RecordsIn(ledger) \in SUBSET (1..Len(ledger)) /\ RecordsIn(ledger) # {}
      BY <2>2 DEF CanAppend, RecordsIn
    <3>2. k \in RecordsIn(ledger)
      BY <1>1, <3>1, LastExists
    <3>3. ledger[k] \in SignedRecord
      BY <1>1, <3>2, RecordType DEF RecordsIn
    <3> QED BY <2>2, <3>3 DEF PredecessorHash, SignedRecord
  <2> QED BY <2>1, <2>2
<1>3. Hash(PredecessorHash(ledger), Len(ledger) + 1, body) \in Commitment
  <2>1. [seq |-> Len(ledger) + 1, body |-> body] \in Commits
    BY <1>1 DEF Commits
  <2> QED BY <1>2, <2>1, AppendProperties DEF Hash, Commitment, Commits
<1> QED BY <1>1, <1>2, <1>3 DEF Sealed, NextRecord, SignedRecord, Signed

(* It continues a chain of records.                                        *)
LEMMA SealedExtends ==
  ASSUME LedgerTypes, Chained(ledger),
         NEW body \in Shape, NEW sig \in Signed \cup {"bad"}
  PROVE  Chained(Append(ledger, Sealed(body, sig)))
<1> DEFINE r == Sealed(body, sig)
           m == Append(ledger, r)
<1>1. ledger \in Seq(Lines) /\ Len(ledger) \in Nat /\ DOMAIN ledger = 1..Len(ledger)
  BY LenProperties DEF LedgerTypes
<1>2. RecordsIn(ledger) = 1..Len(ledger)
  BY DEF RecordsIn, Chained, AllRecords
<1>3. CanAppend(ledger)
  <2>1. ledger # << >> => Len(ledger) \in 1..Len(ledger)
    BY <1>1, EmptySeq
  <2> QED BY <1>2, <2>1 DEF CanAppend
<1>4. /\ r \in SignedRecord /\ r.body = body /\ r.seq = Len(ledger) + 1
      /\ r.prev = PredecessorHash(ledger) /\ r.h = Hash(r.prev, r.seq, r.body)
  <2>1. /\ r \in SignedRecord /\ r.body = body /\ r.seq = Len(ledger) + 1
        /\ r.prev = PredecessorHash(ledger)
        /\ r.h = Hash(PredecessorHash(ledger), Len(ledger) + 1, body)
    BY <1>3, SealedType
  <2> HIDE DEF r
  <2> QED BY <2>1
<1>5. r.prev = IF ledger = << >> THEN Genesis ELSE ledger[Len(ledger)].h
  <2> HIDE DEF r
  <2>1. CASE ledger # << >>
    <3>1. Len(ledger) \in 1..Len(ledger)
      BY <1>1, <2>1, EmptySeq
    <3>2. (CHOOSE i \in 1..Len(ledger) : \A j \in 1..Len(ledger) : j <= i) = Len(ledger)
      BY <1>1, <3>1
    <3> QED BY <1>2, <1>4, <2>1, <3>2 DEF PredecessorHash
  <2> QED BY <1>4, <2>1 DEF PredecessorHash
<1>6. IsRecord(r) /\ r \in Lines
  BY <1>4, SealedIsRecord
<1> HIDE DEF r
<1>7. /\ m \in Seq(Lines) /\ Len(m) = Len(ledger) + 1
      /\ \A i \in 1..Len(ledger) : m[i] = ledger[i]
      /\ m[Len(ledger) + 1] = r
  BY <1>1, <1>6, AppendProperties
<1> HIDE DEF m
<1>8. \A i \in 1..Len(ledger) : Links(m, i)
  <2> TAKE i \in 1..Len(ledger)
  <2>1. Links(ledger, i)
    BY <1>1 DEF Chained, ChainOk
  <2>2. m[i] = ledger[i] /\ (i # 1 => m[i - 1] = ledger[i - 1])
    BY <1>1, <1>7
  <2> QED BY <2>1, <2>2 DEF Links
<1>9. Links(m, Len(ledger) + 1)
  <2>1. CASE ledger = << >>
    <3>1. Len(ledger) = 0
      BY <2>1, EmptySeq
    <3> QED BY <1>4, <1>5, <1>6, <1>7, <2>1, <3>1 DEF Links
  <2>2. CASE ledger # << >>
    <3>1. Len(ledger) \in 1..Len(ledger)
      BY <1>1, <2>2, EmptySeq
    <3>2. m[(Len(ledger) + 1) - 1] = ledger[Len(ledger)] /\ Len(ledger) + 1 # 1
      BY <1>1, <1>7, <3>1
    <3> QED BY <1>4, <1>5, <1>6, <1>7, <2>2, <3>2 DEF Links
  <2> QED BY <2>1, <2>2
<1>10. \A i \in 1..Len(m) : Links(m, i)
  <2>1. \A i \in 1..Len(m) : i \in 1..Len(ledger) \/ i = Len(ledger) + 1
    BY <1>1, <1>7
  <2> QED BY <1>8, <1>9, <2>1
<1>11. DOMAIN m = 1..Len(m)
  BY <1>7, LenProperties
<1>12. Chained(m)
  <2>1. \A i \in 1..Len(m) : IsRecord(m[i])
    BY <1>10 DEF Links
  <2> QED BY <1>10, <1>11, <2>1 DEF Chained, ChainOk, AllRecords
<1> QED BY <1>12 DEF m, r

(* The two things an append does to the file.                              *)
Extends(r) ==
  /\ ~open /\ ~EndsTorn(ledger)
  /\ ledger' = Append(ledger, r)

Spoils ==
  /\ open \/ EndsTorn(ledger)
  /\ ledger' = [ledger EXCEPT ![Len(ledger)] = Junk]

LEMMA AppendEffect ==
  ASSUME LedgerTypes, NEW body \in Asked, NEW sig \in Signed, AppendRecord(body, sig)
  PROVE  /\ LedgerTypes'
         /\ body \in Shape /\ body.number # "unwritable"
         /\ Sealed(body, sig) \in SignedRecord
         /\ Sealed(body, sig).body = body /\ Sealed(body, sig).sig = sig
         /\ Extends(Sealed(body, sig)) \/ Spoils
         /\ open' = FALSE /\ UNCHANGED <<reader, held, clean, edits>>
<1> DEFINE r == Sealed(body, sig)
<1>1. body \in Shape /\ CanAppend(ledger) /\ body.number # "unwritable"
  BY ReadersAssumption DEF ReadersAssumption, AppendRecord
<1>2. r \in SignedRecord /\ r.body = body /\ r.sig = sig
  BY <1>1, SealedType
<1>3. ledger' = WithLine(ledger, open, r) /\ open' = FALSE /\ UNCHANGED <<reader, held, clean, edits>>
  BY DEF AppendRecord
<1>4. IsRecord(r) /\ r \in Lines
  BY <1>2, SealedIsRecord
<1>5. ledger \in Seq(Lines) /\ Len(ledger) \in Nat
  BY LenProperties DEF LedgerTypes
<1>6. Extends(r) \/ Spoils
  <2> HIDE DEF r
  <2> QED BY <1>3 DEF WithLine, Ended, Extends, Spoils
<1>7. ledger' \in Seq(Lines)
  <2> HIDE DEF r
  <2>1. CASE Extends(r)
    BY <1>4, <1>5, <2>1, AppendProperties DEF Extends
  <2>2. CASE Spoils
    <3>1. Len(ledger) \in 1..Len(ledger) /\ Junk \in Lines
      BY <1>5, <2>2, EmptySeq DEF Spoils, EndsTorn, LedgerTypes, Lines
    <3> QED BY <1>5, <2>2, <3>1, ExceptSeq DEF Spoils
  <2> QED BY <1>6, <2>1, <2>2
<1>8. LedgerTypes'
  BY <1>3, <1>7 DEF LedgerTypes
<1> QED BY <1>1, <1>2, <1>3, <1>6, <1>8

(* No reader takes a file that an append spoiled.                          *)
LEMMA SpoiledIsRejected ==
  ASSUME LedgerTypes, Spoils
  PROVE  ~AllRecords(ledger')
<1>1. ledger \in Seq(Lines) /\ Len(ledger) \in Nat
  BY LenProperties DEF LedgerTypes
<1>2. Len(ledger) \in 1..Len(ledger) /\ Junk \in Lines
  BY <1>1, EmptySeq DEF Spoils, EndsTorn, LedgerTypes, Lines
<1>3. Len(ledger') = Len(ledger) /\ ledger'[Len(ledger)] = Junk
  BY <1>1, <1>2, ExceptSeq DEF Spoils
<1> QED BY <1>2, <1>3 DEF AllRecords, IsRecord

(* What the program appends has passed the gate that reads it later.       *)
LEMMA ProgramIsAppend ==
  ASSUME ProgramAppends
  PROVE  \E body \in Asked, sig \in Signed :
           /\ body.op \in {"charge", "grant", "anchor"} => body.shaped
           /\ body.number = "wide" => body.op = "compute-anchor"
           /\ AppendRecord(body, sig)
<1>0. \A body \in Asked : body.number = "wide" => body.op = "compute-anchor"
  BY ReadersAssumption DEF ReadersAssumption
<1>1. CASE Grant
  BY <1>0, <1>1, Zenon DEF Grant, Requests, Signed
<1>2. CASE Charge
  BY <1>0, <1>2, ReadersAssumption, Zenon DEF Charge, Requests, Signed, ReadersAssumption
<1>3. CASE Anchor
  BY <1>0, <1>3, Zenon DEF Anchor, Requests, Signed
<1>4. CASE ComputeAnchor
  BY <1>0, <1>4, Zenon DEF ComputeAnchor, Requests, Signed
<1>5. CASE MigrateNet
  <2>1. PICK body \in Asked : body.op = "migrate-net" /\ AppendRecord(body, "none")
    BY <1>5 DEF MigrateNet, Requests
  <2>2. ~(body.op \in {"charge", "grant", "anchor"})
    BY <2>1
  <2> QED BY <1>0, <2>1, <2>2, Zenon DEF Signed
<1> QED BY <1>1, <1>2, <1>3, <1>4, <1>5 DEF ProgramAppends
-----------------------------------------------------------------------------
(* The steps of the program and of other hands keep the types.             *)
LEMMA TearTypes ==
  ASSUME LedgerTypes, Tear
  PROVE  ledger' \in Seq(Lines) /\ open' \in BOOLEAN /\ (open' => ledger' # << >>)
<1>1. ledger \in Seq(Lines) /\ Len(ledger) \in Nat /\ Torn \in Lines /\ CanAppend(ledger)
  BY LenProperties DEF LedgerTypes, Lines, Tear
<1>2. CASE ledger' = WithTornLine(ledger, open) /\ open' = FALSE
  <2>1. CASE Ended(ledger, open)
    BY <1>1, <1>2, <2>1, AppendProperties DEF WithTornLine
  <2>2. CASE ~Ended(ledger, open)
    <3>1. ledger # << >>
      BY <2>2 DEF Ended, EndsTorn, LedgerTypes
    <3>2. Len(ledger) \in 1..Len(ledger)
      BY <1>1, <3>1, EmptySeq
    <3> QED BY <1>1, <1>2, <2>2, <3>2, ExceptSeq DEF WithTornLine
  <2> QED BY <2>1, <2>2
<1>3. ASSUME NEW body \in Requests("charge"),
             ledger' = Append(ledger, Sealed(body, "none")), open' = TRUE
      PROVE  ledger' \in Seq(Lines) /\ open' \in BOOLEAN /\ (open' => ledger' # << >>)
  <2> DEFINE r == Sealed(body, "none")
  <2>1. r \in Lines
    <3>1. body \in Shape /\ "none" \in Signed \cup {"bad"}
      BY ReadersAssumption DEF ReadersAssumption, Requests, Signed
    <3> QED BY <1>1, <3>1, SealedType, SealedIsRecord
  <2> HIDE DEF r
  <2>2. Append(ledger, r) \in Seq(Lines) /\ Len(Append(ledger, r)) = Len(ledger) + 1
    BY <1>1, <2>1, AppendProperties
  <2>3. Append(ledger, r) # << >>
    BY <1>1, <2>2, EmptySeq
  <2> QED BY <1>3, <2>2, <2>3 DEF r
<1> QED BY <1>2, <1>3 DEF Tear

LEMMA EditTypes ==
  ASSUME LedgerTypes, Edit
  PROVE  ledger' \in Seq(Lines)
<1>1. ledger \in Seq(Lines) /\ Len(ledger) \in Nat
  BY LenProperties DEF LedgerTypes
<1>2. ASSUME NEW i \in RecordsIn(ledger)
      PROVE  i \in 1..Len(ledger) /\ ledger[i] \in SignedRecord
  BY <1>1, RecordType DEF RecordsIn
<1>3. ASSUME NEW i \in RecordsIn(ledger), ledger' = [ledger EXCEPT ![i] = Junk]
      PROVE  ledger' \in Seq(Lines)
  <2>1. Junk \in Lines
    BY DEF Lines
  <2> QED BY <1>1, <1>2, <1>3, <2>1, ExceptSeq
<1>4. ASSUME NEW i \in RecordsIn(ledger),
             ledger' = [j \in 1..(Len(ledger) - 1) |-> ledger[IF j < i THEN j ELSE j + 1]]
      PROVE  ledger' \in Seq(Lines)
  <2>1. \A j \in 1..(Len(ledger) - 1) : (IF j < i THEN j ELSE j + 1) \in 1..Len(ledger)
    BY <1>1, <1>2
  <2>2. \A j \in 1..Len(ledger) : ledger[j] \in Lines
    BY <1>1, ElementOfSeq
  <2>3. Len(ledger) - 1 \in Nat
    BY <1>1, <1>2
  <2>4. ledger' \in [1..(Len(ledger) - 1) -> Lines]
    BY <1>4, <2>1, <2>2
  <2> QED BY <2>3, <2>4, SeqDef
<1>5. ASSUME NEW i \in RecordsIn(ledger), NEW body \in Foreign,
             ledger' = [ledger EXCEPT ![i].body = body]
      PROVE  ledger' \in Seq(Lines)
  <2>1. [ledger[i] EXCEPT !.body = body] \in Lines
    BY <1>2, ReadersAssumption DEF ReadersAssumption, SignedRecord, Lines
  <2> DEFINE r == [ledger[i] EXCEPT !.body = body]
  <2>2. ledger' = [ledger EXCEPT ![i] = r]
    BY <1>5
  <2> HIDE DEF r
  <2> QED BY <1>1, <1>2, <2>1, <2>2, ExceptSeq DEF r
<1>6. ASSUME NEW i \in RecordsIn(ledger), NEW sig \in {"none", "bad"},
             ledger' = [ledger EXCEPT ![i].sig = sig]
      PROVE  ledger' \in Seq(Lines)
  <2>1. [ledger[i] EXCEPT !.sig = sig] \in Lines
    BY <1>2 DEF SignedRecord, Lines
  <2> DEFINE r == [ledger[i] EXCEPT !.sig = sig]
  <2>2. ledger' = [ledger EXCEPT ![i] = r]
    BY <1>6
  <2> HIDE DEF r
  <2> QED BY <1>1, <1>2, <2>1, <2>2, ExceptSeq DEF r
<1>7. ASSUME NEW body \in Foreign, CanAppend(ledger), ledger' = Append(ledger, Sealed(body, "none"))
      PROVE  ledger' \in Seq(Lines)
  <2> DEFINE r == Sealed(body, "none")
  <2>1. r \in Lines
    <3>1. body \in Shape /\ "none" \in Signed \cup {"bad"}
      BY ReadersAssumption DEF ReadersAssumption, Signed
    <3> QED BY <1>7, <3>1, SealedType, SealedIsRecord
  <2> HIDE DEF r
  <2> QED BY <1>1, <1>7, <2>1, AppendProperties DEF r
<1> QED BY <1>3, <1>4, <1>5, <1>6, <1>7 DEF Edit

LEMMA TypesStep ==
  ASSUME LedgerTypes, [LedgerNext]_ledgerVars
  PROVE  LedgerTypes'
<1>1. CASE ProgramAppends
  <2>1. PICK body \in Asked, sig \in Signed : AppendRecord(body, sig)
    BY <1>1, ProgramIsAppend
  <2> QED BY <2>1, AppendEffect
<1>2. CASE Tear
  BY <1>2, TearTypes DEF Tear, Disturbed, LedgerTypes
<1>3. CASE Edit
  BY <1>3, EditTypes DEF Edit, Disturbed, LedgerTypes
<1>4. CASE TakeHead
  BY <1>4 DEF TakeHead, LedgerTypes
<1>5. ASSUME ChainMath(ledger), NEW pc \in {"gates", "copy"}, Begin(pc),
             UNCHANGED <<ledger, open, held, clean, edits>>
      PROVE  LedgerTypes'
  <2>1. ChainTip(ledger) \in Commitment
    BY <1>5, TipOfFile DEF LedgerTypes, Beginning
  <2> QED BY <1>5, <2>1 DEF Begin, LedgerTypes
<1>6. CASE VerifyStart
  BY <1>5, <1>6 DEF VerifyStart, VerifyChain
<1>7. CASE BundleStart
  BY <1>5, <1>7 DEF BundleStart, BundleHead
<1>8. Idle \in [pc : {"idle", "gates", "count", "copy"}, head : Commitment, calm : BOOLEAN]
  BY EmptySeq DEF Idle, Genesis, Commitment
<1>9. CASE VerifyGates
  BY <1>8, <1>9 DEF VerifyGates, End, LedgerTypes
<1>10. CASE VerifyCount
  BY <1>8, <1>10 DEF VerifyCount, End, LedgerTypes
<1>11. CASE BundleCopy
  BY <1>8, <1>11 DEF BundleCopy, End, LedgerTypes
<1>12. CASE UNCHANGED ledgerVars
  BY <1>12 DEF ledgerVars, LedgerTypes
<1> QED BY <1>1, <1>2, <1>3, <1>4, <1>6, <1>7, <1>9, <1>10, <1>11, <1>12
        DEF LedgerNext, ProgramAppends
(* A file that only the program wrote passes the chain and the gates.      *)
LEMMA CleanStep ==
  ASSUME LedgerTypes, CleanInv, [LedgerNext]_ledgerVars
  PROVE  CleanInv'
<1> SUFFICES ASSUME clean'
             PROVE  /\ ~open' /\ Chained(ledger')
                    /\ \A i \in DOMAIN ledger' : Lawful(ledger'[i])
  BY DEF CleanInv
<1>1. CASE ProgramAppends
  <2>1. PICK body \in Asked, sig \in Signed :
           /\ body.op \in {"charge", "grant", "anchor"} => body.shaped
           /\ body.number = "wide" => body.op = "compute-anchor"
           /\ AppendRecord(body, sig)
    BY <1>1, ProgramIsAppend
  <2> DEFINE r == Sealed(body, sig)
  <2>2. /\ body \in Shape /\ body.number # "unwritable"
        /\ r \in SignedRecord /\ r.body = body /\ r.sig = sig
        /\ Extends(r) \/ Spoils
        /\ open' = FALSE /\ clean' = clean
    BY <2>1, AppendEffect
  <2>3. /\ ~open /\ Chained(ledger)
        /\ \A i \in DOMAIN ledger : Lawful(ledger[i])
    BY <2>2 DEF CleanInv
  <2>4. ledger \in Seq(Lines) /\ Len(ledger) \in Nat /\ DOMAIN ledger = 1..Len(ledger)
    BY LenProperties DEF LedgerTypes
  <2>5. ~EndsTorn(ledger)
    <3>1. ledger # << >> => Len(ledger) \in 1..Len(ledger)
      BY <2>4, EmptySeq
    <3> QED BY <2>3, <3>1 DEF Chained, AllRecords, EndsTorn, IsRecord
  <2>6. ledger' = Append(ledger, r)
    BY <2>2, <2>3, <2>5 DEF Extends, Spoils
  <2>7. Chained(ledger')
    BY <2>2, <2>3, <2>6, SealedExtends DEF Signed
  <2>8. r \in Lines /\ Lawful(r)
    <3>1. r \in Lines
      BY <2>2, SealedIsRecord
    <3>2. Gated(r)
      BY <2>1, <2>2 DEF Gated
    <3>3. body.number \in {"exact", "wide", "unwritable"}
      BY <2>2 DEF Shape
    <3>4. r.sig \in Signed /\ (r.body.number # "exact" => r.body.op = "compute-anchor")
      BY <2>1, <2>2, <3>3
    <3> QED BY <3>1, <3>2, <3>4 DEF Lawful
  <2> HIDE DEF r
  <2>9. /\ DOMAIN ledger' = 1..(Len(ledger) + 1)
        /\ \A i \in 1..Len(ledger) : ledger'[i] = ledger[i]
        /\ ledger'[Len(ledger) + 1] = r
    BY <2>4, <2>6, <2>8, AppendProperties, LenProperties
  <2>10. \A i \in DOMAIN ledger' : i \in DOMAIN ledger \/ i = Len(ledger) + 1
    BY <2>4, <2>9
  <2>11. \A i \in DOMAIN ledger' : Lawful(ledger'[i])
    BY <2>3, <2>4, <2>8, <2>9, <2>10
  <2> QED BY <2>2, <2>7, <2>11
<1>2. CASE Tear
  BY <1>2 DEF Tear
<1>3. CASE Edit
  BY <1>3 DEF Edit
<1>4. CASE UNCHANGED <<ledger, open, clean>>
  BY <1>4 DEF CleanInv
<1> QED BY <1>1, <1>2, <1>3, <1>4
        DEF LedgerNext, ledgerVars, ProgramAppends, TakeHead, VerifyStart, VerifyGates,
            VerifyCount, BundleStart, BundleCopy

(* Between its reads a reader that nobody disturbed finds the beginning    *)
(* that it verified.                                                       *)
LEMMA ReaderStep ==
  ASSUME LedgerTypes, ReaderInv, [LedgerNext]_ledgerVars
  PROVE  ReaderInv'
<1>0. ledger \in Seq(Lines) /\ Len(ledger) \in Nat /\ DOMAIN ledger = 1..Len(ledger)
  BY LenProperties DEF LedgerTypes
<1>1. CASE ProgramAppends
  <2> SUFFICES ASSUME reader'.pc # "idle", reader'.calm
               PROVE  /\ ~open' /\ AllRecords(ledger')
                      /\ Beginning(ledger', reader'.head)
                      /\ \A i \in 1..Len(reader'.head) :
                           /\ ledger'[i].body.fits
                           /\ reader'.pc # "copy" => ledger'[i].sig # "bad"
                           /\ reader'.pc = "count" => Gated(ledger'[i])
    BY DEF ReaderInv
  <2>1. PICK body \in Asked, sig \in Signed : AppendRecord(body, sig)
    BY <1>1, ProgramIsAppend
  <2> DEFINE r == Sealed(body, sig)
  <2>2. /\ r \in SignedRecord
        /\ Extends(r) \/ Spoils
        /\ open' = FALSE /\ reader' = reader /\ LedgerTypes'
    BY <2>1, AppendEffect
  <2>3. IsRecord(r) /\ r \in Lines
    BY <2>2, SealedIsRecord
  <2> HIDE DEF r
  <2>4. /\ ~open /\ AllRecords(ledger) /\ Beginning(ledger, reader.head)
        /\ \A i \in 1..Len(reader.head) :
             /\ ledger[i].body.fits
             /\ reader.pc # "copy" => ledger[i].sig # "bad"
             /\ reader.pc = "count" => Gated(ledger[i])
    BY <2>2 DEF ReaderInv
  <2>5. ~EndsTorn(ledger)
    <3>1. ledger # << >> => Len(ledger) \in 1..Len(ledger)
      BY <1>0, EmptySeq
    <3> QED BY <2>4, <3>1 DEF AllRecords, EndsTorn, IsRecord
  <2>6. ledger' = Append(ledger, r)
    BY <2>2, <2>4, <2>5 DEF Extends, Spoils
  <2>7. /\ Len(ledger') = Len(ledger) + 1
        /\ \A i \in 1..Len(ledger) : ledger'[i] = ledger[i]
        /\ ledger'[Len(ledger) + 1] = r
    BY <1>0, <2>3, <2>6, AppendProperties
  <2>8. AllRecords(ledger')
    <3>1. \A i \in 1..Len(ledger') : i \in 1..Len(ledger) \/ i = Len(ledger) + 1
      BY <1>0, <2>7
    <3> QED BY <2>3, <2>4, <2>7, <3>1 DEF AllRecords
  <2>9. /\ Len(reader.head) <= Len(ledger')
        /\ \A i \in 1..Len(reader.head) : ledger'[i] = ledger[i]
    <3>1. Len(reader.head) \in Nat /\ Len(reader.head) <= Len(ledger)
      BY <2>4, LenProperties DEF Beginning, Commitment
    <3> QED BY <1>0, <2>7, <3>1
  <2>10. Beginning(ledger', reader.head)
    BY <1>0, <2>2, <2>4, <2>9, BeginningKept DEF LedgerTypes
  <2> QED BY <2>2, <2>4, <2>8, <2>9, <2>10
<1>2. ASSUME reader' = Disturbed PROVE ReaderInv'
  <2>1. ~reader'.calm
    BY <1>2 DEF Disturbed, LedgerTypes
  <2> QED BY <2>1 DEF ReaderInv
<1>3. CASE Tear
  BY <1>2, <1>3 DEF Tear
<1>4. CASE Edit
  BY <1>2, <1>4 DEF Edit
<1>5. ASSUME NEW pc \in {"gates", "copy"}, Begin(pc), UNCHANGED <<ledger, open>>,
             ChainMath(ledger), Fit(ledger),
             pc = "gates" => \A i \in DOMAIN ledger : ledger[i].sig # "bad"
      PROVE  ReaderInv'
  <2>1. reader'.pc = pc /\ reader'.head = ChainTip(ledger) /\ reader'.calm = ~open
    BY <1>5 DEF Begin
  <2>2. Beginning(ledger, ChainTip(ledger)) /\ Len(ChainTip(ledger)) = Len(ledger)
    BY <1>0, <1>5, TipOfFile
  <2>3. \A i \in 1..Len(ledger) : ledger[i].body.fits /\ (pc # "copy" => ledger[i].sig # "bad")
    BY <1>0, <1>5 DEF Fit
  <2>4. AllRecords(ledger) /\ pc # "count"
    BY <1>5 DEF ChainMath, Chained
  <2>5. ledger' = ledger /\ open' = open
    BY <1>5
  <2> QED BY <2>1, <2>2, <2>3, <2>4, <2>5 DEF ReaderInv
<1>6. CASE VerifyStart
  BY <1>5, <1>6 DEF VerifyStart, VerifyChain
<1>7. CASE BundleStart
  BY <1>5, <1>7 DEF BundleStart, BundleHead
<1>8. ASSUME End PROVE ReaderInv'
  BY <1>8 DEF End, Idle, ReaderInv
<1>9. CASE VerifyGates
  <2>1. CASE End
    BY <1>8, <2>1
  <2>2. CASE /\ \A i \in DOMAIN ledger : Gated(ledger[i])
             /\ reader' = [reader EXCEPT !.pc = "count"]
    <3>1. /\ reader'.pc = "count" /\ reader'.head = reader.head /\ reader'.calm = reader.calm
          /\ reader.pc = "gates" /\ ledger' = ledger /\ open' = open
      BY <1>9, <2>2 DEF VerifyGates, LedgerTypes
    <3>2. Beginning(ledger, reader.head) => 1..Len(reader.head) \subseteq DOMAIN ledger
      BY <1>0, LenProperties DEF Beginning, Commitment
    <3> QED BY <2>2, <3>1, <3>2 DEF ReaderInv
  <2> QED BY <1>9, <2>1, <2>2 DEF VerifyGates
<1>10. CASE VerifyCount
  BY <1>8, <1>10 DEF VerifyCount
<1>11. CASE BundleCopy
  BY <1>8, <1>11 DEF BundleCopy
<1>12. CASE UNCHANGED <<ledger, open, reader>>
  BY <1>12 DEF ReaderInv
<1> QED BY <1>1, <1>3, <1>4, <1>6, <1>7, <1>9, <1>10, <1>11, <1>12
        DEF LedgerNext, ledgerVars, ProgramAppends, TakeHead

(* What is handed out holds what its head covers.                          *)
LEMMA HeldStep ==
  ASSUME LedgerTypes, ReaderInv, HeldInv, [LedgerNext]_ledgerVars
  PROVE  HeldInv'
<1>0. ledger \in Seq(Lines) /\ Len(ledger) \in Nat /\ DOMAIN ledger = 1..Len(ledger)
  BY LenProperties DEF LedgerTypes
<1>1. CASE UNCHANGED held
  BY <1>1 DEF HeldInv
<1>2. CASE TakeHead
  <2>1. PICK who \in Readers \ {"bundle"} : Accepts(who, ledger)
    BY <1>2 DEF TakeHead
  <2>2. ChainMath(ledger)
    BY <2>1 DEF Readers, Accepts, VerifyChain, MiniVerify, ProjectHead, TimeStamp
  <2>3. Beginning(ledger, ChainTip(ledger))
    BY <1>0, <2>2, TipOfFile
  <2>4. Hold("head", ChainTip(ledger), << >>, TRUE)
    BY <1>2 DEF TakeHead
  <2> QED BY <1>0, <2>3, <2>4 DEF Hold, HeldInv
<1>3. CASE VerifyCount
  <2>1. Hold("report", reader.head, << >>, reader.calm) /\ reader.pc = "count"
    BY <1>3 DEF VerifyCount
  <2>2. reader.calm =>
          /\ Beginning(ledger, reader.head)
          /\ \A i \in 1..Len(reader.head) :
               ledger[i].body.fits /\ ledger[i].sig # "bad" /\ Gated(ledger[i])
    BY <2>1 DEF ReaderInv
  <2> QED BY <1>0, <2>1, <2>2 DEF Hold, HeldInv
<1>4. CASE BundleCopy
  <2> DEFINE copy == Copied(ledger)
  <2>1. Hold("bundle", reader.head, copy, reader.calm) /\ reader.pc = "copy"
    BY <1>4 DEF BundleCopy
  <2>2. reader.calm =>
          /\ Beginning(ledger, reader.head) /\ AllRecords(ledger)
          /\ \A i \in 1..Len(reader.head) : ledger[i].body.fits
    BY <2>1 DEF ReaderInv
  <2>3. ASSUME reader.calm
        PROVE  /\ copy \in Seq(Lines) /\ Len(reader.head) <= Len(copy)
               /\ \A i \in 1..Len(reader.head) : copy[i] = ledger[i]
    <3>1. Len(reader.head) \in Nat /\ Len(reader.head) <= Len(ledger)
      BY <2>2, <2>3, LenProperties DEF Beginning, Commitment
    <3>2. \A i \in 1..Len(reader.head) : IsRecord(ledger[i]) /\ ledger[i].body.fits
      BY <1>0, <2>2, <2>3, <3>1 DEF AllRecords
    <3> QED BY <1>0, <3>1, <3>2, CopyKeepsBeginning
  <2> HIDE DEF copy
  <2> QED BY <1>0, <2>1, <2>2, <2>3 DEF Hold, HeldInv
<1>5. ProgramAppends => UNCHANGED held
  BY DEF ProgramAppends, Grant, Charge, Anchor, ComputeAnchor, MigrateNet, AppendRecord
<1> QED BY <1>1, <1>2, <1>3, <1>4, <1>5
        DEF LedgerNext, ledgerVars, ProgramAppends, Tear, Edit, VerifyStart, VerifyGates,
            BundleStart
-----------------------------------------------------------------------------
LEMMA Initially == EvidenceInit => IInv
<1> SUFFICES ASSUME LedgerInit PROVE IInv
  BY DEF EvidenceInit
<1>1. Idle \in [pc : {"idle", "gates", "count", "copy"}, head : Commitment, calm : BOOLEAN]
  BY EmptySeq DEF Idle, Genesis, Commitment
<1>2. LedgerTypes
  BY <1>1, EmptySeq DEF LedgerInit, LedgerTypes
<1>3. CleanInv
  <2>1. DOMAIN ledger = {} /\ Len(ledger) = 0 /\ ~open
    BY EmptySeq DEF LedgerInit
  <2> QED BY <2>1 DEF CleanInv, Chained, ChainOk, AllRecords
<1>4. ReaderInv /\ HeldInv
  BY DEF LedgerInit, Idle, ReaderInv, HeldInv
<1> QED BY <1>2, <1>3, <1>4 DEF IInv

LEMMA Steps == [Package \/ Document]_evidenceVars => [LedgerNext]_ledgerVars
BY DEF Package, Document, evidenceVars

LEMMA Step == IInv /\ [Package \/ Document]_evidenceVars => IInv'
BY Steps, TypesStep, CleanStep, ReaderStep, HeldStep DEF IInv

(* In every reachable state the ledger, its readers and what they handed   *)
(* out stand as IInv says.                                                 *)
THEOREM Invariant == EvidenceSpec => []IInv
BY Initially, Step, PTL DEF EvidenceSpec
-----------------------------------------------------------------------------
LEMMA CleanIsLegal == IInv => LegalWritesVerify
<1> SUFFICES ASSUME IInv, clean
             PROVE  /\ Chained(ledger) /\ \A i \in DOMAIN ledger : Gated(ledger[i])
                    /\ Exact(ledger) /\ Fit(ledger) => VerifyChain(ledger)
                    /\ \A i \in DOMAIN ledger :
                         LET rec == ledger[i] IN
                         IF rec.body.number = "exact"
                         THEN /\ Unsplit(ledger) => Explain(ledger, i)
                              /\ rec.sig = "none" =>
                                   VerifyCharge(rec, ChainTip(SubSeq(ledger, 1, i - 1)))
                         ELSE rec.body.op = "compute-anchor"
  BY Zenon DEF LegalWritesVerify
<1>1. /\ Chained(ledger)
      /\ \A i \in DOMAIN ledger : Lawful(ledger[i])
  BY DEF IInv, CleanInv
<1>2. ledger \in Seq(Lines) /\ Len(ledger) \in Nat /\ DOMAIN ledger = 1..Len(ledger)
  BY LenProperties DEF IInv, LedgerTypes
<1>3. Exact(ledger) /\ Fit(ledger) => VerifyChain(ledger)
  BY <1>1 DEF VerifyChain, ChainMath, Lawful, Signed
<1>4. ASSUME NEW i \in DOMAIN ledger
      PROVE  /\ IsRecord(ledger[i]) /\ Links(ledger, i)
             /\ ledger[i].body.number = "exact" => Rehashes(ledger[i])
  BY <1>1, <1>2 DEF Chained, ChainOk, AllRecords, Links, Rehashes
<1>5. ASSUME NEW i \in DOMAIN ledger, Unsplit(ledger), ledger[i].body.number = "exact"
      PROVE  Explain(ledger, i)
  <2> DEFINE m == SubSeq(ledger, 1, i)
  <2>1. DOMAIN m = 1..i /\ \A j \in 1..i : m[j] = ledger[j]
    <3>1. i \in Nat /\ i <= Len(ledger)
      BY <1>2
    <3> QED BY <1>2, <3>1, FirstLines
  <2>2. \A j \in 1..i : j \in DOMAIN ledger
    BY <1>2
  <2> HIDE DEF m
  <2>3. Unsplit(m)
    BY <1>5, <2>1, <2>2 DEF Unsplit
  <2> QED BY <1>4, <1>5, <2>3 DEF Explain, m
<1>6. ASSUME NEW i \in DOMAIN ledger, ledger[i].sig = "none",
             ledger[i].body.number = "exact"
      PROVE  VerifyCharge(ledger[i], ChainTip(SubSeq(ledger, 1, i - 1)))
  <2> DEFINE m == SubSeq(ledger, 1, i - 1)
  <2>1. i \in 1..Len(ledger) /\ i - 1 \in Nat /\ i - 1 <= Len(ledger)
    BY <1>2
  <2>2. m \in Seq(Lines) /\ Len(m) = i - 1 /\ \A j \in 1..(i - 1) : m[j] = ledger[j]
    BY <1>2, <2>1, FirstLines
  <2> HIDE DEF m
  <2>3. ChainTip(m) = IF i = 1 THEN Genesis ELSE ledger[i - 1].h
    <3>1. CASE i = 1
      BY <2>2, <3>1, EmptySeq DEF ChainTip
    <3>2. CASE i # 1
      <4>1. i - 1 \in 1..(i - 1) /\ m # << >>
        BY <2>1, <2>2, <3>2, EmptySeq
      <4> QED BY <2>2, <3>2, <4>1 DEF ChainTip
    <3> QED BY <3>1, <3>2
  <2>4. ledger[i].prev = ChainTip(m)
    BY <1>4, <2>3 DEF Links
  <2> QED BY <1>4, <1>6, <2>4 DEF VerifyCharge, m
<1>7. ASSUME NEW i \in DOMAIN ledger, ledger[i].body.number # "exact"
      PROVE  ledger[i].body.op = "compute-anchor"
  BY <1>1, <1>7 DEF Lawful
<1>8. \A i \in DOMAIN ledger : Gated(ledger[i])
  BY <1>1 DEF Lawful
<1>9. ASSUME NEW i \in DOMAIN ledger
      PROVE  IF ledger[i].body.number = "exact"
             THEN /\ Unsplit(ledger) => Explain(ledger, i)
                  /\ ledger[i].sig = "none" =>
                       VerifyCharge(ledger[i], ChainTip(SubSeq(ledger, 1, i - 1)))
             ELSE ledger[i].body.op = "compute-anchor"
  BY <1>5, <1>6, <1>7, <1>9, Zenon
<1> QED BY <1>1, <1>3, <1>8, <1>9, Zenon

(* Whatever the program is asked to append, and in whatever order: a file  *)
(* that it alone wrote is a chain that passes the gates, and satisfies the  *)
(* readers but for a number beyond 2^53, a long line or a separator.       *)
THEOREM LegalWrites == EvidenceSpec => []LegalWritesVerify
BY Invariant, CleanIsLegal, PTL

LEMMA HeldCovers == IInv => VerdictCoversPrefix
<1> DEFINE k     == Len(held.head)
           whole == IF held.by = "bundle" THEN held.records ELSE held.log
           first == SubSeq(whole, 1, k)
<1> SUFFICES ASSUME IInv, held # None, held.calm
             PROVE  /\ k <= held.lines /\ k <= Len(whole)
                    /\ ChainMath(first) /\ ChainTip(first) = held.head
                    /\ held.by = "report" => VerifyChain(first) /\ \A i \in 1..k : Gated(first[i])
  BY Zenon DEF VerdictCoversPrefix
<1>1. /\ held.log \in Seq(Lines) /\ held.lines = Len(held.log)
      /\ Beginning(held.log, held.head)
  BY DEF IInv, HeldInv
<1>2. k \in Nat /\ k <= Len(held.log)
  BY <1>1, LenProperties DEF Beginning, Commitment
<1>3. whole \in Seq(Lines) /\ k <= Len(whole) /\ Beginning(whole, held.head)
  <2>1. CASE held.by = "bundle"
    <3>1. /\ held.records \in Seq(Lines) /\ k <= Len(held.records)
          /\ \A i \in 1..k : held.records[i] = held.log[i]
      BY <2>1 DEF IInv, HeldInv
    <3> QED BY <1>1, <2>1, <3>1, BeginningKept
  <2>2. CASE held.by # "bundle"
    BY <1>1, <1>2, <2>2
  <2> QED BY <2>1, <2>2
<1>4. ChainMath(first) /\ ChainTip(first) = held.head
  <2> HIDE DEF whole
  <2> QED BY <1>3, BeginningIsFile
<1>5. ASSUME held.by = "report"
      PROVE  VerifyChain(first) /\ \A i \in 1..k : Gated(first[i])
  <2>1. \A i \in 1..k : /\ held.log[i].body.fits /\ held.log[i].sig # "bad"
                        /\ Gated(held.log[i])
    BY <1>5 DEF IInv, HeldInv
  <2>2. whole = held.log
    BY <1>5
  <2>3. DOMAIN first = 1..k /\ \A i \in 1..k : first[i] = held.log[i]
    <3> HIDE DEF k, whole
    <3> QED BY <1>1, <1>2, <2>2, FirstLines DEF k
  <2> HIDE DEF first
  <2> QED BY <1>4, <2>1, <2>3 DEF VerifyChain, Fit
<1> QED BY <1>1, <1>2, <1>3, <1>4, <1>5

(* What ledger-verify and the bundle report is the tip of a verified       *)
(* beginning, however the file grew between their reads.                   *)
THEOREM VerdictCovers == EvidenceSpec => []VerdictCoversPrefix
BY Invariant, HeldCovers, PTL

LEMMA HeadBinds == IInv => HeldHeadBindsHistory
<1> SUFFICES ASSUME IInv, held # None, held.calm, NEW who \in Readers,
                    Accepts(who, ledger), ChainTip(ledger) = held.head
             PROVE  /\ Len(ledger) <= Len(held.log)
                    /\ \A i \in DOMAIN ledger : SameEntry(ledger[i], held.log[i])
  BY DEF HeldHeadBindsHistory
<1>1. ledger \in Seq(Lines) /\ DOMAIN ledger = 1..Len(ledger)
  BY LenProperties DEF IInv, LedgerTypes
<1>2. ChainMath(ledger)
  BY DEF Readers, Accepts, VerifyChain, MiniVerify, BundleHead, ProjectHead, TimeStamp
<1>3. Beginning(ledger, held.head) /\ Len(held.head) = Len(ledger)
  BY <1>1, <1>2, TipOfFile
<1>4. held.log \in Seq(Lines) /\ Beginning(held.log, held.head)
  BY DEF IInv, HeldInv
<1>5. \A i \in 1..Len(held.head) : SameEntry(ledger[i], held.log[i])
  BY <1>1, <1>3, <1>4, OneHeadOnePast
<1> QED BY <1>1, <1>3, <1>4, <1>5 DEF Beginning

(* A head that a counterparty holds binds the past, whatever other hands   *)
(* do to the file: a reader finds that head on no other records.           *)
THEOREM HeadBindsHistory == EvidenceSpec => []HeldHeadBindsHistory
BY Invariant, HeadBinds, PTL
(* A reader that takes a file took it before the last line was added.      *)
LEMMA AcceptedBefore ==
  ASSUME NEW log \in Seq(Lines), NEW r \in Lines, NEW who \in Readers \ {"bundle", "stamp"},
         Accepts(who, Append(log, r))
  PROVE  Accepts(who, log)
<1> DEFINE m == Append(log, r)
<1>1. Len(log) \in Nat /\ DOMAIN log = 1..Len(log)
  BY LenProperties
<1>2. m \in Seq(Lines) /\ Len(m) = Len(log) + 1 /\ \A i \in 1..Len(log) : m[i] = log[i]
  BY AppendProperties
<1>3. DOMAIN m = 1..(Len(log) + 1)
  BY <1>2, LenProperties
<1>4. \A i \in DOMAIN log : i \in DOMAIN m /\ i \in 1..Len(m) /\ m[i] = log[i]
  BY <1>1, <1>2, <1>3
<1>5. \A i \in DOMAIN log : i # 1 => i - 1 \in DOMAIN log
  BY <1>1
<1> HIDE DEF m
<1>6. ASSUME ChainMath(m) PROVE ChainMath(log)
  <2>1. \A i \in DOMAIN log : IsRecord(log[i]) /\ log[i].body.number = "exact"
    BY <1>4, <1>6 DEF ChainMath, Chained, Exact, AllRecords
  <2>2. \A i \in DOMAIN log : Links(log, i)
    BY <1>4, <1>5, <1>6 DEF ChainMath, Chained, ChainOk, Links
  <2> QED BY <1>1, <2>1, <2>2 DEF ChainMath, Chained, Exact, ChainOk, AllRecords
<1>7. Fit(m) => Fit(log)
  BY <1>4 DEF Fit
<1>8. Unsplit(m) => Unsplit(log)
  BY <1>4 DEF Unsplit
<1>9. (\A i \in DOMAIN m : m[i].sig # "bad") => (\A i \in DOMAIN log : log[i].sig # "bad")
  BY <1>4
<1>10. Accepts(who, m)
  BY DEF m
<1>11. who = "runner" \/ who = "mini" \/ who = "project"
  BY DEF Readers
<1>12. CASE who = "runner"
  BY <1>6, <1>7, <1>9, <1>10, <1>12 DEF Accepts, VerifyChain
<1>13. CASE who = "mini"
  BY <1>6, <1>7, <1>10, <1>13 DEF Accepts, MiniVerify
<1>14. CASE who = "project"
  BY <1>6, <1>8, <1>10, <1>14 DEF Accepts, ProjectHead
<1> QED BY <1>11, <1>12, <1>13, <1>14

(* What the program writes heals no file: one that a reader refused is     *)
(* refused again after the append.                                         *)
THEOREM BrokenStays == EvidenceSpec => BrokenStaysBroken
<1> DEFINE Heals ==
      \A who \in Readers \ {"bundle", "stamp"} :
       ProgramAppends /\ ~Accepts(who, ledger) => ~Accepts(who, ledger')
<1>1. ASSUME LedgerTypes, ProgramAppends, NEW who \in Readers \ {"bundle", "stamp"},
             Accepts(who, ledger')
      PROVE  Accepts(who, ledger)
  <2>1. PICK body \in Asked, sig \in Signed : AppendRecord(body, sig)
    BY <1>1, ProgramIsAppend
  <2> DEFINE r == Sealed(body, sig)
  <2>2. /\ r \in SignedRecord
        /\ Extends(r) \/ Spoils
    BY <1>1, <2>1, AppendEffect
  <2>3. r \in Lines /\ ledger \in Seq(Lines)
    BY <1>1, <2>2, SealedIsRecord DEF LedgerTypes
  <2> HIDE DEF r
  <2>4. CASE Extends(r)
    BY <1>1, <2>3, <2>4, AcceptedBefore DEF Extends
  <2>5. CASE Spoils
    <3>1. ~ChainMath(ledger')
      BY <1>1, <2>5, SpoiledIsRejected DEF ChainMath, Chained
    <3>2. who = "runner" \/ who = "mini" \/ who = "project"
      BY DEF Readers
    <3> QED BY <1>1, <3>1, <3>2 DEF Accepts, VerifyChain, MiniVerify, ProjectHead
  <2> QED BY <2>2, <2>4, <2>5
<1>2. IInv => Heals
  BY <1>1 DEF IInv
<1>3. IInv /\ [Package \/ Document]_evidenceVars => [Heals]_ledgerVars
  BY <1>2
<1> QED BY <1>3, Invariant, PTL DEF EvidenceSpec, BrokenStaysBroken
-----------------------------------------------------------------------------
(***************************************************************************)
(* Documents (DocumentChecks): what GREEN stands for was looked at, for    *)
(* any number of replacements. A gate that was passed has seen its piece   *)
(* in a state it does not speak of (PassedInv), and a piece whose source   *)
(* is not taken up again is still held as it was seen (LastingInv); a run  *)
(* that said GREEN stands behind all its gates or at one that says so      *)
(* (GreenInv); where sources are taken up once, all that was looked at is  *)
(* of the version held (VersionInv).                                       *)
(***************************************************************************)
\* No source is read again behind a gate that depends on it ...
Steady(s) ==
  \A i, j \in DOMAIN s : i < j /\ s[j].kind = "read" => \A c \in s[i].given : c.file # s[j].file

\* ... or behind a gate that looks at it.
Once(s) ==
  \A i, j \in DOMAIN s : i < j /\ s[j].kind = "read" => s[i].file # s[j].file

\* The gate tests a source that is not read again behind it.
Lasting(s, i) ==
  /\ s[i].kind = "test" /\ s[i].given = {}
  /\ \A j \in DOMAIN s : i < j => s[j].kind # "read" \/ s[j].file # s[i].file

\* Every source that a gate depends on is one that the tool takes up.
Closed(s) == \A i \in DOMAIN s : \A c \in s[i].given : \E j \in DOMAIN s : s[j].file = c.file

\* What a tool's table of gates is like.
Sound(t) ==
  /\ DOMAIN Gates(t) = 1..Len(Gates(t)) /\ Len(Gates(t)) \in Nat
  /\ Steady(Gates(t)) /\ Closed(Gates(t))
  /\ t \notin TakesTwice => Once(Gates(t))

PieceOf(g) == <<g.file, g.piece>>

Pieces(f)  == {x \in PiecesIn(tool) : x[1] = f}

Copies(h) ==
  /\ h = [f \in Files(tool) |-> h[f]]
  /\ \A f \in Files(tool) :
      h[f] = [ver |-> h[f].ver, is |-> h[f].is] /\ h[f].is \in [Pieces(f) -> State]

DocTypes == tool \in Tools /\ at \in Nat \ {0} /\ Copies(source) /\ Copies(taken)

Now(g)   == taken[g.file].is[PieceOf(g)]

Holds(g) == \A c \in g.given : taken[c.file].is[<<c.file, c.piece>>] \in c.states

\* The gate let its piece pass, in the state that the tool saw.
Passed(g) ==
  g.kind = "test" /\ Holds(g) => \E l \in looked : l.of = PieceOf(g) /\ l.is \in State \ g.when

Stays(g) == Now(g) \in State \ g.when /\ \E l \in looked : l.of = PieceOf(g) /\ l.is = Now(g)

\* The gate said GREEN, of the piece as the tool holds it.
Cleared(g) ==
  /\ g.kind = "test" /\ g.says = "GREEN" /\ Now(g) \in State \cap g.when
  /\ \E l \in looked : l.of = PieceOf(g) /\ l.is = Now(g)

PassedInv  == \A i \in DOMAIN Gates(tool) : i < at => Passed(Gates(tool)[i])

LastingInv ==
  \A i \in DOMAIN Gates(tool) : i < at /\ Lasting(Gates(tool), i) => Stays(Gates(tool)[i])

GreenInv ==
  /\ verdict = "GREEN" /\ at \in DOMAIN Gates(tool) => Cleared(Gates(tool)[at])
  /\ answer = "GREEN" => verdict = "GREEN"

\* What was looked at in a source is of the version that the tool holds.
VersionInv ==
  tool \notin TakesTwice =>
    \A l \in looked :
      /\ l.ver = taken[l.of[1]].ver
      /\ \E i \in DOMAIN Gates(tool) :
           i <= at /\ Gates(tool)[i].kind = "test" /\ Gates(tool)[i].file = l.of[1]

DocInv == DocTypes /\ PassedInv /\ LastingInv /\ GreenInv /\ VersionInv
-----------------------------------------------------------------------------
(***************************************************************************)
(* DocInv is kept by every step, for any tool whose table is sound.        *)
(***************************************************************************)
(* A gate and its conditions are about pieces of sources that the tool     *)
(* holds.                                                                  *)
LEMMA SourceOfGate ==
  ASSUME Sound(tool), NEW i \in DOMAIN Gates(tool), NEW g, g = Gates(tool)[i]
  PROVE  /\ g.file \in Files(tool)
         /\ g.kind = "test" => PieceOf(g) \in Pieces(g.file)
         /\ \A c \in g.given : c.file \in Files(tool) /\ <<c.file, c.piece>> \in Pieces(c.file)
<1>1. g \in GatesIn(tool)
  BY DEF GatesIn
<1>2. g.file \in Files(tool)
  BY <1>1 DEF Files
<1>3. g.kind = "test" => PieceOf(g) \in PiecesIn(tool)
  BY <1>1 DEF PiecesIn, PieceOf
<1>4. ASSUME NEW c \in g.given
      PROVE  c.file \in Files(tool) /\ <<c.file, c.piece>> \in PiecesIn(tool)
  <2>1. \E j \in DOMAIN Gates(tool) : Gates(tool)[j].file = c.file
    BY DEF Sound, Closed
  <2>2. c.file \in Files(tool)
    BY <2>1 DEF Files, GatesIn
  <2>3. c \in UNION {h.given : h \in GatesIn(tool)}
    BY <1>1
  <2>4. <<c.file, c.piece>> \in PiecesIn(tool)
    BY <2>3 DEF PiecesIn
  <2> QED BY <2>2, <2>4
<1> QED BY <1>2, <1>3, <1>4 DEF Pieces, PieceOf

(* What a tool holds of the piece of a test is one of the states.          *)
LEMMA NowTyped ==
  ASSUME Sound(tool), DocTypes, NEW i \in DOMAIN Gates(tool), Gates(tool)[i].kind = "test"
  PROVE  Now(Gates(tool)[i]) \in State
<1>1. PICK g : g = Gates(tool)[i]
  OBVIOUS
<1>2. g.file \in Files(tool) /\ PieceOf(g) \in Pieces(g.file)
  BY <1>1, SourceOfGate
<1>3. taken[g.file].is \in [Pieces(g.file) -> State]
  BY <1>2 DEF DocTypes, Copies
<1>4. Now(g) \in State
  BY <1>2, <1>3 DEF Now
<1> QED BY <1>1, <1>4

(* Every step keeps the types: sources and copies keep their pieces.       *)
LEMMA TypesKept ==
  ASSUME \A t \in Tools : Sound(t), DocTypes, DocNext
  PROVE  DocTypes'
<1> Sound(tool) /\ at \in Nat \ {0} /\ tool \in Tools /\ Copies(source) /\ Copies(taken)
  BY DEF DocTypes
<1>1. CASE Replace
  <2>1. PICK x \in PiecesIn(tool), s \in State :
          source' = [source EXCEPT ![x[1]] = [ver |-> @.ver + 1, is |-> [@.is EXCEPT ![x] = s]]]
    BY <1>1 DEF Replace
  <2>2. x[1] \in Files(tool) /\ x \in Pieces(x[1])
    <3>1. \/ \E h \in GatesIn(tool) : h.kind = "test" /\ x = <<h.file, h.piece>>
          \/ \E h \in GatesIn(tool) : \E c \in h.given : x = <<c.file, c.piece>>
      BY DEF PiecesIn
    <3>2. \/ \E i \in DOMAIN Gates(tool) : x[1] = Gates(tool)[i].file
          \/ \E i \in DOMAIN Gates(tool) : \E c \in Gates(tool)[i].given : x[1] = c.file
      BY <3>1 DEF GatesIn
    <3>3. x[1] \in Files(tool)
      BY <3>2, SourceOfGate
    <3> QED BY <3>3 DEF Pieces
  <2>3. PICK f, r : f = x[1] /\ r = source[f]
    OBVIOUS
  <2>4. f \in Files(tool) /\ x \in Pieces(f) /\ r.is \in [Pieces(f) -> State]
    BY <2>2, <2>3 DEF Copies
  <2>5. source' = [source EXCEPT ![f] = [ver |-> r.ver + 1, is |-> [r.is EXCEPT ![x] = s]]]
    BY <2>1, <2>3
  <2>6. [r.is EXCEPT ![x] = s] \in [Pieces(f) -> State]
    BY <2>4
  <2>7. PICK q : q = [ver |-> r.ver + 1, is |-> [r.is EXCEPT ![x] = s]]
    OBVIOUS
  <2>8. q = [ver |-> q.ver, is |-> q.is] /\ q.is \in [Pieces(f) -> State]
    BY <2>6, <2>7
  <2>9. source' = [source EXCEPT ![f] = q] /\ UNCHANGED <<tool, at, taken>>
    BY <1>1, <2>5, <2>7 DEF Replace
  <2>10. Copies(source)'
    BY <2>4, <2>8, <2>9 DEF Copies, Pieces
  <2>11. Copies(taken)'
    BY <2>9 DEF Copies, Pieces
  <2> QED BY <2>9, <2>10, <2>11 DEF DocTypes
<1>2. CASE TakeUp
  <2>1. PICK f : /\ f \in Files(tool) /\ taken' = [taken EXCEPT ![f] = source[f]]
                 /\ at' = at + 1 /\ UNCHANGED <<tool, source>>
    <3>1. at \in DOMAIN Gates(tool)
      BY <1>2 DEF TakeUp, Sound
    <3> QED BY <1>2, <3>1, SourceOfGate DEF TakeUp
  <2>2. Copies(taken)'
    BY <2>1 DEF Copies, Pieces
  <2>3. Copies(source)'
    BY <2>1 DEF Copies, Pieces
  <2> QED BY <2>1, <2>2, <2>3 DEF DocTypes
<1>3. CASE UNCHANGED <<tool, source, taken>> /\ at' \in {at, at + 1}
  <2>1. Copies(source)' /\ Copies(taken)'
    BY <1>3 DEF Copies, Pieces
  <2> QED BY <1>3, <2>1 DEF DocTypes
<1>4. Skip \/ Test \/ Pass \/ Answer \/ TimeOut
        => UNCHANGED <<tool, source, taken>> /\ at' \in {at, at + 1}
  <2>1. Skip \/ Test \/ Pass => UNCHANGED <<tool, source, taken>> /\ at' \in {at, at + 1}
    BY DEF Skip, Test, Pass
  <2>2. Answer => UNCHANGED <<tool, source, taken, at>>
    BY Zenon DEF Answer
  <2>3. TimeOut => UNCHANGED <<tool, source, taken, at>>
    BY Zenon DEF TimeOut
  <2> QED BY <2>1, <2>2, <2>3
<1> QED BY <1>1, <1>2, <1>3, <1>4 DEF DocNext

(* A source that is not read again keeps what the tool holds of it.        *)
LEMMA TakeUpKeeps ==
  ASSUME Sound(tool), DocTypes, TakeUp
  PROVE  /\ at \in DOMAIN Gates(tool) /\ Gates(tool)[at].kind = "read"
         /\ \A f \in Files(tool) : f # Gates(tool)[at].file => taken'[f] = taken[f]
         /\ at' = at + 1 /\ UNCHANGED <<tool, looked, verdict, answer>>
<1>1. at \in DOMAIN Gates(tool)
  BY DEF TakeUp, Sound, DocTypes
<1>2. PICK g : /\ g = Gates(tool)[at] /\ g.kind = "read"
               /\ taken' = [taken EXCEPT ![g.file] = source[g.file]]
  BY DEF TakeUp
<1>3. \A f \in Files(tool) : f # g.file => taken'[f] = taken[f]
  BY <1>2 DEF DocTypes, Copies
<1> QED BY <1>1, <1>2, <1>3 DEF TakeUp

(* What a gate looks at, and the gate lets it pass or speaks.              *)
LEMMA TestLooks ==
  ASSUME Sound(tool), DocTypes, Test
  PROVE  \E g, v : 
           /\ at \in DOMAIN Gates(tool) /\ g = Gates(tool)[at] /\ g.kind = "test" /\ Now(g) \in State
           /\ v.of = PieceOf(g) /\ v.ver = taken[g.file].ver /\ v.is = Now(g)
           /\ looked' = looked \cup {v} /\ verdict = "none"
           /\ \/ Now(g) \in g.when /\ verdict' = g.says /\ at' = at
              \/ Now(g) \notin g.when /\ verdict' = verdict /\ at' = at + 1
           /\ UNCHANGED <<tool, taken, answer>>
<1>1. at \in DOMAIN Gates(tool)
  BY DEF Test, Sound, DocTypes
<1>2. PICK g : g = Gates(tool)[at] /\ g.kind = "test"
  BY DEF Test
<1>3. Now(g) \in State
  BY <1>1, <1>2, NowTyped
<1>4. PICK v : v = [of |-> PieceOf(g), ver |-> taken[g.file].ver, is |-> Now(g)]
  OBVIOUS
<1>5. /\ looked' = looked \cup {v} /\ verdict = "none"
      /\ IF Now(g) \in g.when THEN verdict' = g.says /\ UNCHANGED at
                              ELSE at' = at + 1 /\ UNCHANGED verdict
      /\ UNCHANGED <<tool, taken, answer>>
  BY <1>2, <1>4 DEF Test, Now, PieceOf
<1>6. \/ Now(g) \in g.when /\ verdict' = g.says /\ at' = at
      \/ Now(g) \notin g.when /\ verdict' = verdict /\ at' = at + 1
  BY <1>5, Zenon
<1> QED BY <1>1, <1>2, <1>3, <1>4, <1>5, <1>6

(* The steps that touch neither what is held nor what was looked at, and   *)
(* when they say GREEN.                                                    *)
LEMMA QuietSteps ==
  ASSUME Replace \/ Pass \/ Answer \/ TimeOut
  PROVE  /\ UNCHANGED <<tool, taken, looked, at>>
         /\ \/ verdict' = verdict /\ (answer' = "GREEN" => answer = "GREEN" \/ verdict = "GREEN")
            \/ verdict' = "GREEN" /\ at > Len(Gates(tool))
<1>1. CASE Replace
  BY <1>1 DEF Replace
<1>2. CASE Pass
  BY <1>2 DEF Pass
<1>3. CASE Answer
  <2>1. UNCHANGED <<tool, taken, looked, at, verdict>>
    BY <1>3, Zenon DEF Answer
  <2>2. answer' = "GREEN" => verdict = "GREEN"
    BY <1>3, Zenon DEF Answer
  <2> QED BY <2>1, <2>2
<1>4. CASE TimeOut
  <2>1. UNCHANGED <<tool, taken, looked, at, verdict>>
    BY <1>4, Zenon DEF TimeOut
  <2>2. answer' # "GREEN"
    BY <1>4, Zenon DEF TimeOut
  <2> QED BY <2>1, <2>2
<1> QED BY <1>1, <1>2, <1>3, <1>4

(* Every step keeps that the gates behind were passed: a source is not     *)
(* taken up again behind a gate that depends on it.                        *)
LEMMA PassedKept ==
  ASSUME Sound(tool), DocTypes, PassedInv, DocNext
  PROVE  PassedInv'
<1> PICK G : G = Gates(tool)
  OBVIOUS
<1> at \in Nat /\ DOMAIN G \in SUBSET Nat
  BY DEF DocTypes, Sound
<1>1. \A i \in DOMAIN G : i < at => Passed(G[i])
  BY DEF PassedInv
<1>2. CASE TakeUp
  <2>1. /\ at \in DOMAIN G /\ G[at].kind = "read" /\ at' = at + 1
        /\ \A f \in Files(tool) : f # G[at].file => taken'[f] = taken[f]
        /\ UNCHANGED <<tool, looked>>
    BY <1>2, TakeUpKeeps
  <2>2. ASSUME NEW i \in DOMAIN G, i < at'
        PROVE  Passed(G[i])'
    <3>1. i < at \/ i = at
      BY <2>1, <2>2
    <3>2. CASE i = at
      BY <2>1, <3>2 DEF Passed
    <3>3. CASE i < at
      <4>1. \A c \in G[i].given : taken'[c.file] = taken[c.file]
        BY <2>1, <3>3, SourceOfGate DEF Sound, Steady
      <4>2. Holds(G[i])' => Holds(G[i])
        BY <4>1 DEF Holds
      <4> QED BY <1>1, <2>1, <3>3, <4>2 DEF Passed
    <3> QED BY <3>1, <3>2, <3>3
  <2> QED BY <2>1, <2>2 DEF PassedInv
<1>3. CASE Test
  <2>1. PICK g, v :
           /\ at \in DOMAIN G /\ g = G[at] /\ Now(g) \in State
           /\ v.of = PieceOf(g) /\ v.is = Now(g) /\ looked' = looked \cup {v}
           /\ \/ Now(g) \in g.when /\ at' = at
              \/ Now(g) \notin g.when /\ at' = at + 1
           /\ UNCHANGED <<tool, taken>>
    BY <1>3, TestLooks
  <2>2. ASSUME NEW i \in DOMAIN G, i < at'
        PROVE  Passed(G[i])'
    <3>1. i < at \/ (i = at /\ Now(g) \notin g.when)
      BY <2>1, <2>2
    <3>2. CASE i = at /\ Now(g) \notin g.when
      BY <2>1, <3>2 DEF Passed
    <3>3. CASE i < at
      <4>1. Holds(G[i])' => Holds(G[i])
        BY <2>1 DEF Holds
      <4> QED BY <1>1, <2>1, <3>3, <4>1 DEF Passed
    <3> QED BY <3>1, <3>2, <3>3
  <2> QED BY <2>1, <2>2 DEF PassedInv
<1>4. CASE Skip
  <2>1. /\ at' = at + 1 /\ UNCHANGED <<tool, taken, looked>> /\ ~Holds(G[at])
    BY <1>4 DEF Skip, Applies, Holds
  <2>2. ASSUME NEW i \in DOMAIN G, i < at'
        PROVE  Passed(G[i])'
    <3>1. i < at \/ i = at
      BY <2>1, <2>2
    <3>2. Holds(G[i])' => Holds(G[i])
      BY <2>1 DEF Holds
    <3> QED BY <1>1, <2>1, <3>1, <3>2 DEF Passed
  <2> QED BY <2>1, <2>2 DEF PassedInv
<1>5. CASE Replace \/ Pass \/ Answer \/ TimeOut
  <2>1. UNCHANGED <<tool, taken, looked, at>>
    BY <1>5, QuietSteps
  <2> QED BY <2>1 DEF PassedInv, Passed, Holds
<1> QED BY <1>2, <1>3, <1>4, <1>5 DEF DocNext

(* Every step keeps what was seen of a source that is not taken up again.  *)
LEMMA LastingKept ==
  ASSUME Sound(tool), DocTypes, LastingInv, DocNext
  PROVE  LastingInv'
<1> PICK G : G = Gates(tool)
  OBVIOUS
<1> at \in Nat /\ DOMAIN G \in SUBSET Nat
  BY DEF DocTypes, Sound
<1>1. \A i \in DOMAIN G : i < at /\ Lasting(G, i) => Stays(G[i])
  BY DEF LastingInv
<1>2. CASE TakeUp
  <2>1. /\ at \in DOMAIN G /\ G[at].kind = "read" /\ at' = at + 1
        /\ \A f \in Files(tool) : f # G[at].file => taken'[f] = taken[f]
        /\ UNCHANGED <<tool, looked>>
    BY <1>2, TakeUpKeeps
  <2>2. ASSUME NEW i \in DOMAIN G, i < at', Lasting(G, i)
        PROVE  Stays(G[i])'
    <3>1. i < at
      BY <2>1, <2>2 DEF Lasting
    <3>2. taken'[G[i].file] = taken[G[i].file]
      BY <2>1, <2>2, <3>1, SourceOfGate DEF Lasting
    <3> QED BY <1>1, <2>1, <2>2, <3>1, <3>2 DEF Stays, Now
  <2> QED BY <2>1, <2>2 DEF LastingInv
<1>3. CASE Test
  <2>1. PICK g, v :
           /\ at \in DOMAIN G /\ g = G[at] /\ Now(g) \in State
           /\ v.of = PieceOf(g) /\ v.is = Now(g) /\ looked' = looked \cup {v}
           /\ \/ Now(g) \in g.when /\ at' = at
              \/ Now(g) \notin g.when /\ at' = at + 1
           /\ UNCHANGED <<tool, taken>>
    BY <1>3, TestLooks
  <2>2. ASSUME NEW i \in DOMAIN G, i < at', Lasting(G, i)
        PROVE  Stays(G[i])'
    <3>1. i < at \/ (i = at /\ Now(g) \notin g.when)
      BY <2>1, <2>2
    <3>2. Now(G[i])' = Now(G[i])
      BY <2>1 DEF Now
    <3>3. CASE i = at /\ Now(g) \notin g.when
      BY <2>1, <3>2, <3>3 DEF Stays
    <3>4. CASE i < at
      BY <1>1, <2>1, <2>2, <3>2, <3>4 DEF Stays
    <3> QED BY <3>1, <3>3, <3>4
  <2> QED BY <2>1, <2>2 DEF LastingInv
<1>4. CASE Skip
  <2>1. /\ at' = at + 1 /\ UNCHANGED <<tool, taken, looked>> /\ ~Holds(G[at])
    BY <1>4 DEF Skip, Applies, Holds
  <2>2. ASSUME NEW i \in DOMAIN G, i < at', Lasting(G, i)
        PROVE  Stays(G[i])'
    <3>1. i < at
      BY <2>1, <2>2 DEF Lasting, Holds
    <3> QED BY <1>1, <2>1, <2>2, <3>1 DEF Stays, Now
  <2> QED BY <2>1, <2>2 DEF LastingInv
<1>5. CASE Replace \/ Pass \/ Answer \/ TimeOut
  <2>1. UNCHANGED <<tool, taken, looked, at>>
    BY <1>5, QuietSteps
  <2> QED BY <2>1 DEF LastingInv, Stays, Now
<1> QED BY <1>2, <1>3, <1>4, <1>5 DEF DocNext

(* Every step keeps that GREEN comes from a gate that says so or from the  *)
(* end of the table.                                                       *)
LEMMA GreenKept ==
  ASSUME Sound(tool), DocTypes, GreenInv, DocNext
  PROVE  GreenInv'
<1> PICK G : G = Gates(tool)
  OBVIOUS
<1>1. /\ verdict = "GREEN" /\ at \in DOMAIN G => Cleared(G[at])
      /\ answer = "GREEN" => verdict = "GREEN"
  BY DEF GreenInv
<1>2. CASE TakeUp
  <2>1. UNCHANGED <<tool, verdict, answer>> /\ verdict = "none"
    BY <1>2 DEF TakeUp
  <2> QED BY <1>1, <2>1 DEF GreenInv
<1>3. CASE Test
  <2>1. PICK g, v :
           /\ at \in DOMAIN G /\ g = G[at] /\ g.kind = "test" /\ Now(g) \in State
           /\ v.of = PieceOf(g) /\ v.is = Now(g) /\ looked' = looked \cup {v} /\ verdict = "none"
           /\ \/ Now(g) \in g.when /\ verdict' = g.says /\ at' = at
              \/ Now(g) \notin g.when /\ verdict' = verdict /\ at' = at + 1
           /\ UNCHANGED <<tool, taken, answer>>
    BY <1>3, TestLooks
  <2>2. answer' # "GREEN"
    BY <1>1, <2>1
  <2>3. ASSUME verdict' = "GREEN"
        PROVE  at' = at /\ Cleared(g)'
    <3>1. Now(g) \in g.when /\ g.says = "GREEN" /\ at' = at
      BY <2>1, <2>3
    <3>2. Now(g)' = Now(g)
      BY <2>1 DEF Now
    <3>3. Cleared(g)'
      BY <2>1, <3>1, <3>2 DEF Cleared
    <3> QED BY <3>1, <3>3
  <2>4. verdict' = "GREEN" => Cleared(Gates(tool)[at])'
    BY <2>1, <2>3
  <2> QED BY <2>2, <2>4 DEF GreenInv
<1>4. CASE Skip
  <2>1. UNCHANGED <<tool, verdict, answer>> /\ verdict = "none"
    BY <1>4 DEF Skip
  <2> QED BY <1>1, <2>1 DEF GreenInv
<1>5. CASE Replace \/ Pass \/ Answer \/ TimeOut
  <2>1. /\ UNCHANGED <<tool, taken, looked, at>>
        /\ \/ verdict' = verdict /\ (answer' = "GREEN" => answer = "GREEN" \/ verdict = "GREEN")
           \/ verdict' = "GREEN" /\ at > Len(Gates(tool))
    BY <1>5, QuietSteps
  <2>2. CASE verdict' = verdict /\ (answer' = "GREEN" => answer = "GREEN" \/ verdict = "GREEN")
    BY <1>1, <2>1, <2>2 DEF GreenInv, Cleared, Now
  <2>3. CASE verdict' = "GREEN" /\ at > Len(Gates(tool))
    <3>1. at \notin DOMAIN G
      BY <2>3 DEF Sound, DocTypes
    <3> QED BY <2>1, <2>3, <3>1 DEF GreenInv
  <2> QED BY <2>1, <2>2, <2>3
<1> QED BY <1>2, <1>3, <1>4, <1>5 DEF DocNext

(* Every step keeps that what was looked at is of the version held.        *)
LEMMA VersionKept ==
  ASSUME Sound(tool), DocTypes, VersionInv, DocNext
  PROVE  VersionInv'
<1> PICK G : G = Gates(tool)
  OBVIOUS
<1> at \in Nat /\ DOMAIN G \in SUBSET Nat
  BY DEF DocTypes, Sound
<1> SUFFICES ASSUME tool \notin TakesTwice
             PROVE  VersionInv'
  <2>1. Replace \/ Skip \/ TakeUp \/ Test \/ Pass => tool' = tool
    BY DEF Replace, Skip, TakeUp, Test, Pass
  <2>2. Answer \/ TimeOut => tool' = tool
    BY QuietSteps
  <2>3. tool' = tool
    BY <2>1, <2>2 DEF DocNext
  <2>4. tool \in TakesTwice => VersionInv'
    BY <2>3 DEF VersionInv
  <2> QED BY <2>4
<1>1. \A l \in looked :
        /\ l.ver = taken[l.of[1]].ver
        /\ \E i \in DOMAIN G : i <= at /\ G[i].kind = "test" /\ G[i].file = l.of[1]
  BY DEF VersionInv
<1>2. CASE TakeUp
  <2>1. /\ at \in DOMAIN G /\ G[at].kind = "read" /\ at' = at + 1
        /\ \A f \in Files(tool) : f # G[at].file => taken'[f] = taken[f]
        /\ UNCHANGED <<tool, looked>>
    BY <1>2, TakeUpKeeps
  <2>2. ASSUME NEW l \in looked
        PROVE  /\ l.ver = taken'[l.of[1]].ver
               /\ \E i \in DOMAIN G : i <= at' /\ G[i].kind = "test" /\ G[i].file = l.of[1]
    <3>1. PICK i \in DOMAIN G : i <= at /\ G[i].kind = "test" /\ G[i].file = l.of[1]
      BY <1>1
    <3>2. i < at
      BY <2>1, <3>1
    <3>3. G[i].file # G[at].file
      BY <2>1, <3>2 DEF Sound, Once
    <3>4. G[i].file \in Files(tool)
      BY SourceOfGate
    <3> QED BY <1>1, <2>1, <3>1, <3>2, <3>3, <3>4
  <2> QED BY <2>1, <2>2 DEF VersionInv
<1>3. CASE Test
  <2>1. PICK g, v :
           /\ at \in DOMAIN G /\ g = G[at] /\ g.kind = "test"
           /\ v.of = PieceOf(g) /\ v.ver = taken[g.file].ver /\ looked' = looked \cup {v}
           /\ at' = at \/ at' = at + 1
           /\ UNCHANGED <<tool, taken>>
    BY <1>3, TestLooks
  <2>2. ASSUME NEW l \in looked'
        PROVE  /\ l.ver = taken[l.of[1]].ver
               /\ \E i \in DOMAIN G : i <= at' /\ G[i].kind = "test" /\ G[i].file = l.of[1]
    <3>1. CASE l = v
      <4>1. v.of[1] = g.file
        BY <2>1 DEF PieceOf
      <4> QED BY <2>1, <3>1, <4>1
    <3>2. CASE l \in looked
      BY <1>1, <2>1, <3>2
    <3> QED BY <2>1, <2>2, <3>1, <3>2
  <2> QED BY <2>1, <2>2 DEF VersionInv
<1>4. CASE Skip
  <2>1. /\ at' = at + 1 /\ UNCHANGED <<tool, taken, looked>>
    BY <1>4 DEF Skip
  <2> QED BY <1>1, <2>1 DEF VersionInv
<1>5. CASE Replace \/ Pass \/ Answer \/ TimeOut
  <2>1. UNCHANGED <<tool, taken, looked, at>>
    BY <1>5, QuietSteps
  <2> QED BY <1>1, <2>1 DEF VersionInv
<1> QED BY <1>2, <1>3, <1>4, <1>5 DEF DocNext

(* The invariant holds when a tool starts.                                 *)
LEMMA DocStarts ==
  ASSUME \A t \in Tools : Sound(t), DocInit
  PROVE  DocInv
<1>1. tool \in Tools /\ at = 1 /\ source = Pristine(tool) /\ taken = Pristine(tool)
      /\ looked = {} /\ verdict = "none" /\ answer = "none"
  BY DEF DocInit
<1>2. ASSUME NEW h, h = Pristine(tool)
      PROVE  Copies(h)
  BY <1>2 DEF Copies, Pristine, Pieces, State
<1>3. DocTypes
  BY <1>1, <1>2 DEF DocTypes
<1>4. DOMAIN Gates(tool) \in SUBSET (Nat \ {0})
  BY <1>1 DEF Sound
<1>5. PassedInv /\ LastingInv
  BY <1>1, <1>4 DEF PassedInv, LastingInv
<1>6. GreenInv /\ VersionInv
  BY <1>1 DEF GreenInv, VersionInv
<1> QED BY <1>3, <1>5, <1>6 DEF DocInv
-----------------------------------------------------------------------------
(***************************************************************************)
(* The gates of a table, and how a table is put together.                  *)
(***************************************************************************)
(* Two steady rows make a steady one when the second takes up no source    *)
(* that a gate of the first depends on.                                    *)
LEMMA CatSteady ==
  ASSUME NEW s, NEW E, Row(s, E), Steady(s), NEW t, NEW D, Row(t, D), Steady(t),
         \A g \in E, h \in D : h.kind = "read" => \A c \in g.given : c.file # h.file
  PROVE  Steady(s \o t)
<1>1. PICK u : u = s \o t
  OBVIOUS
<1>2. Joined(s, t, u)
  BY <1>1, CatIndex DEF Row
<1>3. ASSUME NEW i \in DOMAIN u, NEW j \in DOMAIN u, i < j, u[j].kind = "read"
      PROVE  \A c \in u[i].given : c.file # u[j].file
  <2>1. i \in Nat /\ j \in Nat /\ Len(s) \in Nat /\ DOMAIN s = 1..Len(s)
    BY <1>2 DEF Joined
  <2>2. CASE j \in DOMAIN s /\ u[j] = s[j] /\ j <= Len(s)
    <3>1. i \in DOMAIN s /\ u[i] = s[i]
      BY <1>2, <1>3, <2>1, <2>2 DEF Joined
    <3> QED BY <1>3, <2>2, <3>1 DEF Steady
  <2>3. CASE j - Len(s) \in DOMAIN t /\ u[j] = t[j - Len(s)] /\ j > Len(s)
    <3>1. u[j] \in D
      BY <2>3 DEF Row
    <3>2. CASE i \in DOMAIN s /\ u[i] = s[i]
      <4>1. u[i] \in E
        BY <3>2 DEF Row
      <4> QED BY <1>3, <3>1, <4>1
    <3>3. CASE i - Len(s) \in DOMAIN t /\ u[i] = t[i - Len(s)]
      <4>1. i - Len(s) < j - Len(s)
        BY <1>3, <2>1
      <4> QED BY <1>3, <2>3, <3>3, <4>1 DEF Steady
    <3> QED BY <1>2, <3>2, <3>3 DEF Joined
  <2> QED BY <1>2, <2>2, <2>3 DEF Joined
<1> QED BY <1>1, <1>3 DEF Steady

(* Two rows that take their sources up once make such a row when the       *)
(* second takes up no source that a gate of the first looks at.            *)
LEMMA CatOnce ==
  ASSUME NEW s, NEW E, Row(s, E), Once(s), NEW t, NEW D, Row(t, D), Once(t),
         \A g \in E, h \in D : h.kind = "read" => g.file # h.file
  PROVE  Once(s \o t)
<1>1. PICK u : u = s \o t
  OBVIOUS
<1>2. Joined(s, t, u)
  BY <1>1, CatIndex DEF Row
<1>3. ASSUME NEW i \in DOMAIN u, NEW j \in DOMAIN u, i < j, u[j].kind = "read"
      PROVE  u[i].file # u[j].file
  <2>1. i \in Nat /\ j \in Nat /\ Len(s) \in Nat /\ DOMAIN s = 1..Len(s)
    BY <1>2 DEF Joined
  <2>2. CASE j \in DOMAIN s /\ u[j] = s[j] /\ j <= Len(s)
    <3>1. i \in DOMAIN s /\ u[i] = s[i]
      BY <1>2, <1>3, <2>1, <2>2 DEF Joined
    <3> QED BY <1>3, <2>2, <3>1 DEF Once
  <2>3. CASE j - Len(s) \in DOMAIN t /\ u[j] = t[j - Len(s)] /\ j > Len(s)
    <3>1. u[j] \in D
      BY <2>3 DEF Row
    <3>2. CASE i \in DOMAIN s /\ u[i] = s[i]
      <4>1. u[i] \in E
        BY <3>2 DEF Row
      <4> QED BY <1>3, <3>1, <4>1
    <3>3. CASE i - Len(s) \in DOMAIN t /\ u[i] = t[i - Len(s)]
      <4>1. i - Len(s) < j - Len(s)
        BY <1>3, <2>1
      <4> QED BY <1>3, <2>3, <3>3, <4>1 DEF Once
    <3> QED BY <1>2, <3>2, <3>3 DEF Joined
  <2> QED BY <1>2, <2>2, <2>3 DEF Joined
<1> QED BY <1>1, <1>3 DEF Once

\* Tests that follow take nothing up.
Tests(D) == \A g \in D : g.kind = "test"

(* Tests may follow any row that takes its sources up once.                *)
LEMMA CatTests ==
  ASSUME NEW s, NEW E, Row(s, E), Once(s), NEW t, NEW D, Row(t, D), Tests(D)
  PROVE  Row(s \o t, E \cup D) /\ Once(s \o t)
<1>1. Once(t)
  BY DEF Row, Once, Tests
<1>2. Once(s \o t)
  BY <1>1, CatOnce DEF Tests
<1> QED BY <1>2, CatRow

(* NeedAll is a row of one gate for each piece.                            *)
LEMMA NeedAllRow ==
  ASSUME NEW f, NEW ps, NEW P, Row(ps, P)
  PROVE  Row(NeedAll(f, ps), {Needs(f, p) : p \in P})
<1> DEFINE u == NeedAll(f, ps)
<1>1. DOMAIN u = DOMAIN ps /\ \A i \in DOMAIN u : u[i] = Needs(f, ps[i])
  BY DEF NeedAll
<1>2. List(u)
  <2>1. PICK T : ps \in Seq(T)
    BY DEF List, Row
  <2>2. DOMAIN ps = 1..Len(ps) /\ Len(ps) \in Nat
    BY <2>1, LenProperties
  <2>3. PICK S : S = {Needs(f, ps[i]) : i \in DOMAIN ps}
    OBVIOUS
  <2>4. u \in [1..Len(ps) -> S]
    BY <2>2, <2>3 DEF NeedAll
  <2>5. u \in Seq(S)
    BY <2>2, <2>4, SeqDef
  <2> QED BY <2>5 DEF List
<1> HIDE DEF u
<1>3. {Needs(f, p) : p \in P} = {u[i] : i \in DOMAIN u}
  BY <1>1 DEF Row
<1>4. Row(u, {Needs(f, p) : p \in P})
  BY <1>2, <1>3 DEF Row
<1> QED BY <1>4 DEF u

\* A row of tests.
TestRow(s, gs) == Row(s, gs) /\ Tests(gs)

(* NeedAll of pieces that are written out.                                 *)
LEMMA NeedAllRows ==
  ASSUME NEW w, NEW a, NEW b, NEW c, NEW d, NEW e, NEW f
  PROVE  /\ TestRow(<<Needs(w, a)>>, {Needs(w, a)})
         /\ TestRow(NeedAll(w, <<a, b>>), {Needs(w, a), Needs(w, b)})
         /\ TestRow(NeedAll(w, <<a, b, c>>), {Needs(w, a), Needs(w, b), Needs(w, c)})
         /\ TestRow(NeedAll(w, <<a, b, c, d>>), {Needs(w, a), Needs(w, b), Needs(w, c), Needs(w, d)})
         /\ TestRow(NeedAll(w, <<a, b, c, d, e>>),
                    {Needs(w, a), Needs(w, b), Needs(w, c), Needs(w, d), Needs(w, e)})
         /\ TestRow(NeedAll(w, <<a, b, c, d, e, f>>),
                    {Needs(w, a), Needs(w, b), Needs(w, c), Needs(w, d), Needs(w, e), Needs(w, f)})
<1>0. \A x : Needs(w, x).kind = "test"
  BY DEF Needs, Says, Gate
<1>1. TestRow(<<Needs(w, a)>>, {Needs(w, a)})
  BY <1>0, Literals DEF TestRow, Tests
<1>2. TestRow(NeedAll(w, <<a, b>>), {Needs(w, a), Needs(w, b)})
  <2>1. Row(<<a, b>>, {a, b})
    BY Literals
  <2>2. {Needs(w, p) : p \in {a, b}} = {Needs(w, a), Needs(w, b)}
    OBVIOUS
  <2>3. Row(NeedAll(w, <<a, b>>), {Needs(w, a), Needs(w, b)})
    BY <2>1, <2>2, NeedAllRow
  <2>4. Tests({Needs(w, a), Needs(w, b)})
    BY <1>0 DEF Tests
  <2> QED BY <2>3, <2>4 DEF TestRow
<1>3. TestRow(NeedAll(w, <<a, b, c>>), {Needs(w, a), Needs(w, b), Needs(w, c)})
  <2>1. Row(<<a, b, c>>, {a, b, c})
    BY Literals
  <2>2. {Needs(w, p) : p \in {a, b, c}} = {Needs(w, a), Needs(w, b), Needs(w, c)}
    OBVIOUS
  <2>3. Row(NeedAll(w, <<a, b, c>>), {Needs(w, a), Needs(w, b), Needs(w, c)})
    BY <2>1, <2>2, NeedAllRow
  <2>4. Tests({Needs(w, a), Needs(w, b), Needs(w, c)})
    BY <1>0 DEF Tests
  <2> QED BY <2>3, <2>4 DEF TestRow
<1>4. TestRow(NeedAll(w, <<a, b, c, d>>), {Needs(w, a), Needs(w, b), Needs(w, c), Needs(w, d)})
  <2>1. Row(<<a, b, c, d>>, {a, b, c, d})
    BY Literals
  <2>2. {Needs(w, p) : p \in {a, b, c, d}} = {Needs(w, a), Needs(w, b), Needs(w, c), Needs(w, d)}
    OBVIOUS
  <2>3. Row(NeedAll(w, <<a, b, c, d>>), {Needs(w, a), Needs(w, b), Needs(w, c), Needs(w, d)})
    BY <2>1, <2>2, NeedAllRow
  <2>4. Tests({Needs(w, a), Needs(w, b), Needs(w, c), Needs(w, d)})
    BY <1>0 DEF Tests
  <2> QED BY <2>3, <2>4 DEF TestRow
<1>5. TestRow(NeedAll(w, <<a, b, c, d, e>>),
              {Needs(w, a), Needs(w, b), Needs(w, c), Needs(w, d), Needs(w, e)})
  <2>1. Row(<<a, b, c, d, e>>, {a, b, c, d, e})
    BY Literals
  <2>2. {Needs(w, p) : p \in {a, b, c, d, e}} = {Needs(w, a), Needs(w, b), Needs(w, c), Needs(w, d),
                                                 Needs(w, e)}
    OBVIOUS
  <2>3. Row(NeedAll(w, <<a, b, c, d, e>>),
            {Needs(w, a), Needs(w, b), Needs(w, c), Needs(w, d), Needs(w, e)})
    BY <2>1, <2>2, NeedAllRow
  <2>4. Tests({Needs(w, a), Needs(w, b), Needs(w, c), Needs(w, d), Needs(w, e)})
    BY <1>0 DEF Tests
  <2> QED BY <2>3, <2>4 DEF TestRow
<1>6. TestRow(NeedAll(w, <<a, b, c, d, e, f>>),
              {Needs(w, a), Needs(w, b), Needs(w, c), Needs(w, d), Needs(w, e), Needs(w, f)})
  <2>1. Row(<<a, b, c, d, e, f>>, {a, b, c, d, e, f})
    BY Literals
  <2>2. {Needs(w, p) : p \in {a, b, c, d, e, f}} = {Needs(w, a), Needs(w, b), Needs(w, c), Needs(w, d),
                                                    Needs(w, e), Needs(w, f)}
    OBVIOUS
  <2>3. Row(NeedAll(w, <<a, b, c, d, e, f>>),
            {Needs(w, a), Needs(w, b), Needs(w, c), Needs(w, d), Needs(w, e), Needs(w, f)})
    BY <2>1, <2>2, NeedAllRow
  <2>4. Tests({Needs(w, a), Needs(w, b), Needs(w, c), Needs(w, d), Needs(w, e), Needs(w, f)})
    BY <1>0 DEF Tests
  <2> QED BY <2>3, <2>4 DEF TestRow
<1> QED BY <1>1, <1>2, <1>3, <1>4, <1>5, <1>6

(* Rows of tests make a row of tests.                                      *)
LEMMA CatTestsTests ==
  ASSUME NEW s, NEW E, TestRow(s, E), NEW t, NEW D, TestRow(t, D), NEW u, NEW C, TestRow(u, C)
  PROVE  TestRow(s \o t, E \cup D) /\ TestRow(s \o t \o u, E \cup D \cup C)
<1>1. TestRow(s \o t, E \cup D)
  BY CatRow DEF TestRow, Tests
<1> QED BY <1>1, CatRow DEF TestRow, Tests

(* A row that takes its sources up once, and up to three rows of tests.    *)
LEMMA CatTestRows ==
  ASSUME NEW s, NEW E, Row(s, E), Once(s),
         NEW t, NEW D, TestRow(t, D), NEW u, NEW C, TestRow(u, C), NEW v, NEW B, TestRow(v, B)
  PROVE  /\ Row(s \o t, E \cup D) /\ Once(s \o t)
         /\ Row(s \o t \o u, E \cup D \cup C) /\ Once(s \o t \o u)
         /\ Row(s \o t \o u \o v, E \cup D \cup C \cup B) /\ Once(s \o t \o u \o v)
<1>1. Row(s \o t, E \cup D) /\ Once(s \o t)
  BY CatTests DEF TestRow
<1>2. Row(s \o t \o u, E \cup D \cup C) /\ Once(s \o t \o u)
  BY <1>1, CatTests DEF TestRow
<1>3. Row(s \o t \o u \o v, E \cup D \cup C \cup B) /\ Once(s \o t \o u \o v)
  BY <1>2, CatTests DEF TestRow
<1> QED BY <1>1, <1>2, <1>3

(* Two sources that are taken up first, and tests.                         *)
LEMMA TakenUpFirst ==
  ASSUME NEW a
  PROVE  /\ Once(<<a>>)
         /\ \A b : (b.kind = "read" => a.file # b.file) =>
              /\ Once(<<a, b>>)
              /\ \A c : c.kind = "test" =>
                   /\ Once(<<a, b, c>>)
                   /\ \A d : d.kind = "test" =>
                        /\ Once(<<a, b, c, d>>)
                        /\ \A e : e.kind = "test" =>
                             /\ Once(<<a, b, c, d, e>>)
                             /\ \A f : f.kind = "test" => Once(<<a, b, c, d, e, f>>)
<1>1. Once(<<a>>)
  BY DEF Once
<1>2. ASSUME NEW b, b.kind = "read" => a.file # b.file,
             NEW c, NEW d, NEW e, NEW f
      PROVE  /\ Once(<<a, b>>)
             /\ c.kind = "test" => Once(<<a, b, c>>)
             /\ c.kind = "test" /\ d.kind = "test" => Once(<<a, b, c, d>>)
             /\ c.kind = "test" /\ d.kind = "test" /\ e.kind = "test" => Once(<<a, b, c, d, e>>)
             /\ c.kind = "test" /\ d.kind = "test" /\ e.kind = "test" /\ f.kind = "test"
                  => Once(<<a, b, c, d, e, f>>)
  BY <1>2 DEF Once
<1> QED BY <1>1, <1>2

\* A gate that speaks whatever was read, and never says GREEN.
Quiet(g) == g.given = {} /\ g.says # "GREEN"

(* What kind of gate each constructor makes.                               *)
LEMMA GateKinds ==
  ASSUME NEW f
  PROVE  /\ Read(f).file = f /\ Quiet(Read(f)) /\ Read(f).kind = "read"
         /\ \A p : /\ Quiet(Needs(f, p)) /\ Needs(f, p).kind = "test" /\ Needs(f, p).file = f
                   /\ Quiet(Withholds(f, p)) /\ Withholds(f, p).kind = "test"
                   /\ Withholds(f, p).file = f
                   /\ Quiet(IfGiven(f, p)) /\ IfGiven(f, p).kind = "test" /\ IfGiven(f, p).file = f
         /\ \A p, w, y : /\ Says(f, p, w, y).kind = "test" /\ Says(f, p, w, y).file = f
                         /\ Says(f, p, w, y).says = y /\ Says(f, p, w, y).given = {}
BY DEF Read, ReadIf, Needs, Withholds, IfGiven, Says, Gate, Quiet

(* A lasting gate of the second table is a lasting gate of both.           *)
LEMMA LastingEnd ==
  ASSUME NEW s, List(s), NEW t, List(t), NEW i \in DOMAIN t, Lasting(t, i)
  PROVE  \E k \in DOMAIN (s \o t) : (s \o t)[k] = t[i] /\ Lasting(s \o t, k)
<1>1. PICK u : u = s \o t
  OBVIOUS
<1>2. Joined(s, t, u)
  BY <1>1, CatIndex
<1>3. PICK k : k = i + Len(s)
  OBVIOUS
<1>4. /\ k \in DOMAIN u /\ u[k] = t[i] /\ k \in Nat
      /\ Len(s) \in Nat /\ DOMAIN s = 1..Len(s) /\ DOMAIN u \in SUBSET Nat
  BY <1>2, <1>3 DEF Joined
<1>5. i \in Nat
  <2>1. PICK T : t \in Seq(T)
    BY DEF List
  <2> QED BY <2>1, LenProperties
<1>6. ASSUME NEW j \in DOMAIN u, k < j
      PROVE  u[j].kind # "read" \/ u[j].file # u[k].file
  <2>1. j \notin DOMAIN s
    BY <1>3, <1>4, <1>5, <1>6
  <2>2. j - Len(s) \in DOMAIN t /\ u[j] = t[j - Len(s)]
    BY <1>2, <2>1 DEF Joined
  <2>3. i < j - Len(s)
    BY <1>3, <1>4, <1>5, <1>6
  <2> QED BY <1>4, <2>2, <2>3 DEF Lasting
<1> QED BY <1>1, <1>4, <1>6 DEF Lasting

(* In a table that takes its sources up once every test is lasting.        *)
LEMMA OnceLasting ==
  ASSUME NEW s, Once(s), NEW i \in DOMAIN s, s[i].kind = "test", s[i].given = {}
  PROVE  Lasting(s, i)
BY DEF Once, Lasting

(* What makes a table sound, gate by gate.                                 *)
LEMMA SoundTable ==
  ASSUME NEW t, NEW E, Row(Gates(t), E), Steady(Gates(t)),
         \A g \in E : \A c \in g.given : \E h \in E : h.file = c.file,
         t \notin TakesTwice => Once(Gates(t))
  PROVE  Sound(t)
<1>1. PICK S : Gates(t) \in Seq(S)
  BY DEF Row, List
<1>2. DOMAIN Gates(t) = 1..Len(Gates(t)) /\ Len(Gates(t)) \in Nat
  BY <1>1, LenProperties
<1>3. Closed(Gates(t))
  BY DEF Row, Closed
<1> QED BY <1>2, <1>3 DEF Sound

(* A table without conditions is sound.                                    *)
LEMMA SoundQuiet ==
  ASSUME NEW t, NEW E, Row(Gates(t), E), \A g \in E : g.given = {},
         t \notin TakesTwice => Once(Gates(t))
  PROVE  Sound(t)
<1>1. Steady(Gates(t))
  BY DEF Row, Steady
<1> QED BY <1>1, SoundTable
-----------------------------------------------------------------------------
(***************************************************************************)
(* The tables of the tools: the gates they are made of, and that no source *)
(* is taken up again behind a gate that depends on it.                     *)
(***************************************************************************)
(* kok: the six stages of the receipt verifier.                            *)
LEMMA KokGates ==
  /\ Row(Kok, {Read("receipt")} \cup {Needs("receipt", "structure"), Needs("receipt", "shape")}
                \cup {Needs("receipt", "commitments"), Needs("receipt", "work"),
                      Needs("receipt", "receipt_hash")}
                \cup {Needs("receipt", "signature")})
  /\ Once(Kok)
<1>1. Row(<<Read("receipt")>>, {Read("receipt")}) /\ Once(<<Read("receipt")>>)
  BY Literals, TakenUpFirst
<1>2. TestRow(NeedAll("receipt", <<"structure", "shape">>),
              {Needs("receipt", "structure"), Needs("receipt", "shape")})
  BY NeedAllRows
<1>3. TestRow(Committed, {Needs("receipt", "commitments"), Needs("receipt", "work"),
                          Needs("receipt", "receipt_hash")})
  BY NeedAllRows DEF Committed
<1>4. TestRow(DidSigned, {Needs("receipt", "signature")})
  BY NeedAllRows DEF DidSigned
<1> QED BY <1>1, <1>2, <1>3, <1>4, CatTestRows DEF Kok

(* compute-anchor: the installation, the receipt verifier, and the receipt *)
(* again.                                                                  *)
LEMMA ComputeAnchorRow ==
  \E E : /\ Row(ComputeAnchorGates,
                {Read("install"), Needs("install", "verifier")} \cup E
                  \cup {Read("receipt"), Needs("receipt", "record")})
         /\ E = {Read("receipt")} \cup {Needs("receipt", "structure"), Needs("receipt", "shape")}
                \cup {Needs("receipt", "commitments"), Needs("receipt", "work"),
                      Needs("receipt", "receipt_hash")}
                \cup {Needs("receipt", "signature")}
<1>1. PICK E : /\ Row(Kok, E)
               /\ E = {Read("receipt")} \cup {Needs("receipt", "structure"), Needs("receipt", "shape")}
                \cup {Needs("receipt", "commitments"), Needs("receipt", "work"),
                      Needs("receipt", "receipt_hash")}
                \cup {Needs("receipt", "signature")}
  BY KokGates
<1>2. /\ Row(<<Read("install"), Needs("install", "verifier")>>,
             {Read("install"), Needs("install", "verifier")})
      /\ Row(<<Read("receipt"), Needs("receipt", "record")>>,
             {Read("receipt"), Needs("receipt", "record")})
  BY Literals
<1>3. Row(<<Read("install"), Needs("install", "verifier")>> \o Kok,
          {Read("install"), Needs("install", "verifier")} \cup E)
  BY <1>1, <1>2, CatRow
<1>4. Row(ComputeAnchorGates,
          {Read("install"), Needs("install", "verifier")} \cup E
             \cup {Read("receipt"), Needs("receipt", "record")})
  BY <1>2, <1>3, CatRow DEF ComputeAnchorGates
<1> QED BY <1>1, <1>4

(* The four gates that both attestation verifiers end with.                *)
LEMMA AttestRow ==
  TestRow(AttestGates, {Needs("claim", "envelope"), Needs("claim", "claimId"),
                        Needs("claim", "signature"), Needs("claim", "signer")})
BY NeedAllRows DEF AttestGates

(* attest: with a registry of labels.                                      *)
LEMMA AttestTable ==
  /\ Row(Attest, {Read("argv"), Read("claim"), Needs("claim", "json"),
                  Says("argv", "registry", {"bad", "unknown"}, "INDETERMINATE")}
                 \cup {Needs("claim", "envelope"), Needs("claim", "claimId"),
                       Needs("claim", "signature"), Needs("claim", "signer")})
  /\ Once(Attest)
<1>1. PICK a, b, c, d :
        /\ a = Read("argv") /\ b = Read("claim") /\ c = Needs("claim", "json")
        /\ d = Says("argv", "registry", {"bad", "unknown"}, "INDETERMINATE")
  OBVIOUS
<1>2. a.file = "argv" /\ b.file = "claim" /\ c.kind = "test" /\ d.kind = "test"
  BY <1>1, GateKinds
<1>3. Once(<<a, b, c, d>>)
  BY <1>2 DEF Once
<1>4. Row(<<a, b, c, d>>, {a, b, c, d})
  BY Literals
<1> QED BY <1>1, <1>3, <1>4, AttestRow, CatTestRows DEF Attest

(* attest-independent: without one.                                        *)
LEMMA AttestIndependentTable ==
  /\ Row(AttestIndependent, {Read("claim"), Needs("claim", "json")}
                 \cup {Needs("claim", "envelope"), Needs("claim", "claimId"),
                       Needs("claim", "signature"), Needs("claim", "signer")})
  /\ Once(AttestIndependent)
<1>1. PICK a, b : a = Read("claim") /\ b = Needs("claim", "json")
  OBVIOUS
<1>2. b.kind = "test"
  BY <1>1, GateKinds
<1>3. Once(<<a, b>>)
  BY <1>2 DEF Once
<1>4. Row(<<a, b>>, {a, b})
  BY Literals
<1> QED BY <1>1, <1>3, <1>4, AttestRow, CatTestRows DEF AttestIndependent

(* bridge-build: the certificate is taken up twice.                        *)
LEMMA BridgeBuildTable ==
  Row(BridgeBuild, {Read("cert"), Needs("cert", "veridict"), Needs("cert", "fields")})
<1>1. Row(BridgeBuild, {Read("cert"), Needs("cert", "veridict"), Read("cert"), Needs("cert", "fields")})
  BY Literals DEF BridgeBuild
<1>2. {Read("cert"), Needs("cert", "veridict"), Read("cert"), Needs("cert", "fields")}
        = {Read("cert"), Needs("cert", "veridict"), Needs("cert", "fields")}
  BY Zenon
<1> QED BY <1>1, <1>2

(* bridge: a claim, and the certificate as it is built from.               *)
LEMMA BridgeTable ==
  Row(BridgeVerify, {Read("claim")}
        \cup {Needs("claim", "type"), Needs("claim", "fields"), Needs("claim", "digest")}
        \cup {Read("cert"), Needs("cert", "veridict"), Needs("cert", "fields")}
        \cup {Needs("cert", "rebuilt"), Needs("claim", "limits")})
<1>1. /\ Row(<<Read("claim")>>, {Read("claim")})
      /\ Row(<<Needs("cert", "rebuilt"), Needs("claim", "limits")>>,
             {Needs("cert", "rebuilt"), Needs("claim", "limits")})
  BY Literals
<1>2. Row(NeedAll("claim", <<"type", "fields", "digest">>),
          {Needs("claim", "type"), Needs("claim", "fields"), Needs("claim", "digest")})
  BY NeedAllRows DEF TestRow
<1>3. Row(<<Read("claim")>> \o NeedAll("claim", <<"type", "fields", "digest">>),
          {Read("claim")}
          \cup {Needs("claim", "type"), Needs("claim", "fields"), Needs("claim", "digest")})
  BY <1>1, <1>2, CatRow
<1>4. Row(<<Read("claim")>> \o NeedAll("claim", <<"type", "fields", "digest">>) \o BridgeBuild,
          {Read("claim")}
          \cup {Needs("claim", "type"), Needs("claim", "fields"), Needs("claim", "digest")}
            \cup {Read("cert"), Needs("cert", "veridict"), Needs("cert", "fields")})
  BY <1>3, BridgeBuildTable, CatRow
<1> QED BY <1>1, <1>4, CatRow DEF BridgeVerify

(* liveness: the node is asked twice.                                      *)
LEMMA LivenessTable ==
  Row(Liveness,
      {Read("argv"), Says("argv", "max_age_blocks", {"bad", "unknown"}, "INDETERMINATE"),
       Read("chain"), Says("chain", "latest", {"absent", "unknown"}, "INDETERMINATE"),
       Says("chain", "latest", {"bad"}, "RED"),
       Says("argv", "max_age_blocks", {"absent"}, "INDETERMINATE"),
       Read("chain"), Withholds("chain", "past"), Withholds("chain", "span")})
BY Literals DEF Liveness

(* tx: the node is asked twice.                                            *)
LEMMA TxTable ==
  Row(VerifyTx,
      {Read("install"), Needs("install", "web3"), Read("chain"), Needs("chain", "connected"),
       Read("chain")}
      \cup {Needs("chain", "selector"), Needs("chain", "request_id"), Needs("chain", "payload"),
            Needs("chain", "digest")})
<1>1. Row(<<Read("install"), Needs("install", "web3"), Read("chain"), Needs("chain", "connected"),
            Read("chain")>>,
          {Read("install"), Needs("install", "web3"), Read("chain"), Needs("chain", "connected"),
           Read("chain")})
  BY Literals
<1>2. Row(NeedAll("chain", <<"selector", "request_id", "payload", "digest">>),
          {Needs("chain", "selector"), Needs("chain", "request_id"), Needs("chain", "payload"),
            Needs("chain", "digest")})
  BY NeedAllRows DEF TestRow
<1> QED BY <1>1, <1>2, CatRow DEF VerifyTx

(* bundle: the seals of a fulfilment package.                              *)
LEMMA BundleTable ==
  /\ Row(VerifyBundle, {Read("bundle")} \cup
           ({Needs("bundle", "payload"), Needs("bundle", "stamp"), Needs("bundle", "snapshot"),
             Needs("bundle", "charge"), Needs("bundle", "delivery")} \cup {IfGiven("bundle", "input")}))
  /\ Once(VerifyBundle)
<1>1. Row(<<Read("bundle")>>, {Read("bundle")}) /\ Once(<<Read("bundle")>>)
  BY Literals, TakenUpFirst
<1>2. TestRow(NeedAll("bundle", <<"payload", "stamp", "snapshot", "charge", "delivery">>),
              {Needs("bundle", "payload"), Needs("bundle", "stamp"), Needs("bundle", "snapshot"),
               Needs("bundle", "charge"), Needs("bundle", "delivery")})
  BY NeedAllRows
<1>3. TestRow(<<IfGiven("bundle", "input")>>, {IfGiven("bundle", "input")})
  <2>1. Tests({IfGiven("bundle", "input")})
    BY GateKinds DEF Tests
  <2> QED BY <2>1, Literals DEF TestRow
<1>4. TestRow(Seals, {Needs("bundle", "payload"), Needs("bundle", "stamp"), Needs("bundle", "snapshot"),
               Needs("bundle", "charge"), Needs("bundle", "delivery")}
               \cup {IfGiven("bundle", "input")})
  BY <1>2, <1>3, CatRow DEF Seals, TestRow, Tests
<1> QED BY <1>1, <1>4, CatTestRows DEF VerifyBundle

(* stamp: the response of an authority and the ledger it covers.           *)
LEMMA StampTable ==
  /\ Row(Stamp, {Read("response"), Read("ledger"), Needs("ledger", "chain")} \cup
           ({Needs("response", "syntax"), Needs("response", "status")} \cup {Needs("response", "token")}
            \cup {IfGiven("response", "policy"), Needs("response", "imprint"),
                  IfGiven("response", "nonce")}
            \cup {Says("response", "signature", {"bad"}, "RED"),
                  Says("response", "signature", {"unknown"}, "INDETERMINATE")}))
  /\ Once(Stamp)
<1>1. PICK a, b, c : a = Read("response") /\ b = Read("ledger") /\ c = Needs("ledger", "chain")
  OBVIOUS
<1>2. a.file = "response" /\ b.file = "ledger" /\ c.kind = "test"
  BY <1>1, GateKinds
<1>3. Once(<<a, b, c>>)
  BY <1>2 DEF Once
<1>10. Row(<<a, b, c>>, {a, b, c})
  BY Literals
<1>4. TestRow(NeedAll("response", <<"syntax", "status">>),
              {Needs("response", "syntax"), Needs("response", "status")})
  BY NeedAllRows
<1>9. TestRow(TokenInfo, {Needs("response", "token")})
  BY NeedAllRows DEF TokenInfo
<1>5. TestRow(TokenSyntax, {Needs("response", "syntax"), Needs("response", "status")}
                             \cup {Needs("response", "token")})
  BY <1>4, <1>9, CatTestsTests DEF TokenSyntax
<1>6. TestRow(<<IfGiven("response", "policy"), Needs("response", "imprint"),
                IfGiven("response", "nonce")>>,
              {IfGiven("response", "policy"), Needs("response", "imprint"),
               IfGiven("response", "nonce")})
  <2>1. /\ IfGiven("response", "policy").kind = "test" /\ Needs("response", "imprint").kind = "test"
        /\ IfGiven("response", "nonce").kind = "test"
    BY DEF IfGiven, Needs, Says, Gate
  <2>2. Tests({IfGiven("response", "policy"), Needs("response", "imprint"),
               IfGiven("response", "nonce")})
    BY <2>1 DEF Tests
  <2> QED BY <2>2, Literals DEF TestRow
<1>7. TestRow(TokenSignature, {Says("response", "signature", {"bad"}, "RED"),
                               Says("response", "signature", {"unknown"}, "INDETERMINATE")})
  <2>1. /\ Says("response", "signature", {"bad"}, "RED").kind = "test"
        /\ Says("response", "signature", {"unknown"}, "INDETERMINATE").kind = "test"
    BY GateKinds
  <2>2. Tests({Says("response", "signature", {"bad"}, "RED"),
               Says("response", "signature", {"unknown"}, "INDETERMINATE")})
    BY <2>1 DEF Tests
  <2> QED BY <2>2, Literals DEF TestRow, TokenSignature
<1>8. PICK D : /\ TestRow(TokenBond, D)
               /\ D = {Needs("response", "syntax"), Needs("response", "status")}
                      \cup {Needs("response", "token")}
                       \cup {IfGiven("response", "policy"), Needs("response", "imprint"),
                             IfGiven("response", "nonce")}
                       \cup {Says("response", "signature", {"bad"}, "RED"),
                             Says("response", "signature", {"unknown"}, "INDETERMINATE")}
  BY <1>5, <1>6, <1>7, CatTestsTests DEF TokenBond
<1> QED BY <1>1, <1>3, <1>10, <1>8, CatTestRows DEF Stamp

(* sovereign-build: the evidence of three products.                        *)
LEMMA SovereignBuildTable ==
  /\ Row(SovereignBuild, {Read("tamga"), Needs("tamga", "evidence"), Read("sester"),
         IfGiven("sester", "evidence"), Read("veridict"), IfGiven("veridict", "evidence")})
  /\ Once(SovereignBuild)
<1>1. PICK a, b, c, d, e, f :
        /\ a = Read("tamga") /\ b = Needs("tamga", "evidence") /\ c = Read("sester")
        /\ d = IfGiven("sester", "evidence") /\ e = Read("veridict")
        /\ f = IfGiven("veridict", "evidence")
  OBVIOUS
<1>2. /\ a.file = "tamga" /\ b.file = "tamga" /\ c.file = "sester" /\ d.file = "sester"
      /\ e.file = "veridict"
      /\ b.kind = "test" /\ d.kind = "test" /\ f.kind = "test"
  BY <1>1, GateKinds
<1>3. Once(<<a, b, c, d, e, f>>)
  BY <1>2 DEF Once
<1>4. Row(<<a, b, c, d, e, f>>, {a, b, c, d, e, f})
  BY Literals
<1> QED BY <1>1, <1>3, <1>4 DEF SovereignBuild

(* digest: measured, or judged when a value is expected.                   *)
LEMMA DigestTable ==
  /\ Row(CanonicalDigest, {Read("argv"), Read("doc"), Needs("doc", "json"),
         Says("argv", "expect", {"absent"}, "MEASURED"), Needs("argv", "expect"),
         Needs("doc", "digest")})
  /\ Once(CanonicalDigest)
<1>1. PICK a, b, c, d, e, f :
        /\ a = Read("argv") /\ b = Read("doc") /\ c = Needs("doc", "json")
        /\ d = Says("argv", "expect", {"absent"}, "MEASURED")
        /\ e = Needs("argv", "expect") /\ f = Needs("doc", "digest")
  OBVIOUS
<1>2. /\ a.file = "argv" /\ b.file = "doc"
      /\ c.kind = "test" /\ d.kind = "test" /\ e.kind = "test" /\ f.kind = "test"
  BY <1>1, GateKinds
<1>3. Once(<<a, b, c, d, e, f>>)
  BY <1>2 DEF Once
<1>4. Row(<<a, b, c, d, e, f>>, {a, b, c, d, e, f})
  BY Literals
<1> QED BY <1>1, <1>3, <1>4 DEF CanonicalDigest

(* pugio: the bundle of a foreign ledger.                                  *)
LEMMA PugioTable ==
  /\ Row(Pugio, {Read("bundle")} \cup
           {Needs("bundle", "version"), Needs("bundle", "events"), Needs("bundle", "chain"),
            Needs("bundle", "head"), Needs("bundle", "merkle_root"), Needs("bundle", "event_count")})
  /\ Once(Pugio)
<1>1. Row(<<Read("bundle")>>, {Read("bundle")}) /\ Once(<<Read("bundle")>>)
  BY Literals, TakenUpFirst
<1>2. TestRow(NeedAll("bundle", <<"version", "events", "chain", "head", "merkle_root", "event_count">>),
           {Needs("bundle", "version"), Needs("bundle", "events"), Needs("bundle", "chain"),
            Needs("bundle", "head"), Needs("bundle", "merkle_root"), Needs("bundle", "event_count")})
  BY NeedAllRows
<1> QED BY <1>1, <1>2, CatTestRows DEF Pugio

(* pugio-anchor: the anchor line it sends.                                 *)
LEMMA PugioAnchorTable ==
  /\ Row(PugioAnchor, {Read("line")} \cup
           {Needs("line", "json"), Needs("line", "type"), Needs("line", "source"),
            Needs("line", "version"), Needs("line", "fields"), Needs("line", "anchor_id")})
  /\ Once(PugioAnchor)
<1>1. Row(<<Read("line")>>, {Read("line")}) /\ Once(<<Read("line")>>)
  BY Literals, TakenUpFirst
<1>2. TestRow(NeedAll("line", <<"json", "type", "source", "version", "fields", "anchor_id">>),
           {Needs("line", "json"), Needs("line", "type"), Needs("line", "source"),
            Needs("line", "version"), Needs("line", "fields"), Needs("line", "anchor_id")})
  BY NeedAllRows
<1> QED BY <1>1, <1>2, CatTestRows DEF PugioAnchor

(* leaf: its last gate speaks of every state.                              *)
LEMMA LeafTable ==
  /\ Row(ForeignLeaf,
         {Read("leaf"), Says("leaf", "tag", {"absent"}, "INDETERMINATE"), Needs("leaf", "digest"),
                       Says("leaf", "tag", State, "INDETERMINATE")})
  /\ Once(ForeignLeaf)
<1>1. PICK a, b, c, d :
        /\ a = Read("leaf") /\ b = Says("leaf", "tag", {"absent"}, "INDETERMINATE")
        /\ c = Needs("leaf", "digest") /\ d = Says("leaf", "tag", State, "INDETERMINATE")
  OBVIOUS
<1>2. b.kind = "test" /\ c.kind = "test" /\ d.kind = "test"
  BY <1>1, GateKinds
<1>3. Once(<<a, b, c, d>>)
  BY <1>2 DEF Once
<1>4. Row(<<a, b, c, d>>, {a, b, c, d})
  BY Literals
<1> QED BY <1>1, <1>3, <1>4 DEF ForeignLeaf

(* cosign: two of its gates say GREEN.                                     *)
LEMMA CosignTable ==
  /\ Row(Cosign, {Read("argv"), Read("snapshot"), Says("snapshot", "chain", {"absent"}, "GREEN"),
                  Needs("snapshot", "chain"), Says("argv", "cosign_policy", Spoiled, "GREEN")}
          \cup {Needs("argv", "node_trust"), Needs("argv", "node_revoked")}
          \cup {Needs("snapshot", "node_sig"), Needs("snapshot", "signature"),
                Needs("snapshot", "unrevoked"), Needs("snapshot", "trusted")})
  /\ Once(Cosign)
<1>1. PICK a, b, c, d, e :
        /\ a = Read("argv") /\ b = Read("snapshot")
        /\ c = Says("snapshot", "chain", {"absent"}, "GREEN")
        /\ d = Needs("snapshot", "chain") /\ e = Says("argv", "cosign_policy", Spoiled, "GREEN")
  OBVIOUS
<1>2. a.file = "argv" /\ b.file = "snapshot" /\ c.kind = "test" /\ d.kind = "test" /\ e.kind = "test"
  BY <1>1, GateKinds
<1>3. Once(<<a, b, c, d, e>>)
  BY <1>2 DEF Once
<1>4. Row(<<a, b, c, d, e>>, {a, b, c, d, e})
  BY Literals
<1>5. TestRow(CosignLists, {Needs("argv", "node_trust"), Needs("argv", "node_revoked")})
  BY NeedAllRows DEF CosignLists
<1>6. TestRow(NeedAll("snapshot", <<"node_sig", "signature", "unrevoked", "trusted">>),
              {Needs("snapshot", "node_sig"), Needs("snapshot", "signature"),
                Needs("snapshot", "unrevoked"), Needs("snapshot", "trusted")})
  BY NeedAllRows
<1> QED BY <1>1, <1>3, <1>4, <1>5, <1>6, CatTestRows DEF Cosign

(* dispute: two of its gates say GREEN, one has a condition.               *)
LEMMA DisputeTable ==
  /\ Row(Dispute,
       {Read("charge"), Needs("charge", "settlement_bind"), Needs("charge", "delivery_hash"),
        Says("charge", "dispute_pointer", {"absent"}, "GREEN"), Needs("charge", "dispute_pointer"),
        Says("charge", "status", {"ok"}, "GREEN"),
        Gate("test", "charge", "counter_claim", Spoiled, "RED", {Is("charge", "status", {"bad"})}),
        Needs("charge", "arbitration"), Needs("charge", "bond_pct"), Withholds("charge", "protocol"),
        Says("charge", "status", Spoiled, "INDETERMINATE")})
  /\ Once(Dispute) /\ Steady(Dispute) /\ Closed(Dispute)
<1>1. PICK a, b, c, d, e, f, g, h, i, j, k :
        /\ a = Read("charge") /\ b = Needs("charge", "settlement_bind")
        /\ c = Needs("charge", "delivery_hash")
        /\ d = Says("charge", "dispute_pointer", {"absent"}, "GREEN")
        /\ e = Needs("charge", "dispute_pointer") /\ f = Says("charge", "status", {"ok"}, "GREEN")
        /\ g = Gate("test", "charge", "counter_claim", Spoiled, "RED",
                    {Is("charge", "status", {"bad"})})
        /\ h = Needs("charge", "arbitration") /\ i = Needs("charge", "bond_pct")
        /\ j = Withholds("charge", "protocol") /\ k = Says("charge", "status", Spoiled, "INDETERMINATE")
  OBVIOUS
<1>2. /\ a.file = "charge"
      /\ b.kind = "test" /\ c.kind = "test" /\ d.kind = "test" /\ e.kind = "test" /\ f.kind = "test"
      /\ h.kind = "test" /\ i.kind = "test" /\ j.kind = "test" /\ k.kind = "test"
      /\ a.given = {} /\ b.given = {} /\ c.given = {} /\ d.given = {} /\ e.given = {} /\ f.given = {}
      /\ h.given = {} /\ i.given = {} /\ j.given = {} /\ k.given = {}
  BY <1>1, GateKinds DEF Quiet
<1>3. g.kind = "test" /\ \A c1 \in g.given : c1.file = "charge"
  BY <1>1 DEF Gate, Is
<1>4. PICK s : s = <<a, b, c, d, e, f, g, h, i, j, k>>
  OBVIOUS
<1>5. Once(s) /\ Steady(s)
  BY <1>2, <1>3, <1>4 DEF Once, Steady
<1>6. Closed(s)
  <2>1. 1 \in DOMAIN s /\ s[1].file = "charge"
    BY <1>2, <1>4
  <2>2. \A n \in DOMAIN s : \A c1 \in s[n].given : c1.file = "charge"
    BY <1>2, <1>3, <1>4
  <2> QED BY <2>1, <2>2 DEF Closed
<1>7. Row(s, {a, b, c, d, e, f, g, h, i, j, k})
  BY <1>4, Literals
<1>8. Dispute = s
  BY <1>1, <1>4 DEF Dispute
<1> QED BY <1>1, <1>5, <1>6, <1>7, <1>8

(* settle: the head of a foreign chain has a condition.                    *)
LEMMA SettleTable ==
  \E E : /\ Row(Settle, E) /\ Once(Settle) /\ Steady(Settle)
         /\ E = {Read("charge"), Read("claim"), Needs("charge", "settlement_bind"),
                 Withholds("charge", "scheme"), Needs("charge", "delivery_hash")}
                \cup {Needs("claim", "signature")}
                \cup {Needs("claim", "settlementRef"), Needs("claim", "buyer")}
                \cup {IfGiven("claim", "seller"), Needs("claim", "evidenceHash")}
                \cup {IfGiven("charge", "foreign_chain_proof"),
                      ReadIf("source", {Given("charge", "foreign_chain_proof")}),
                      Gate("test", "source", "head", Spoiled \ {"absent"}, "RED",
                           {Given("charge", "foreign_chain_proof")})}
                \cup {IfGiven("charge", "submitter")}
<1>1. PICK a, b, c, d, e :
        /\ a = Read("charge") /\ b = Read("claim") /\ c = Needs("charge", "settlement_bind")
        /\ d = Withholds("charge", "scheme") /\ e = Needs("charge", "delivery_hash")
  OBVIOUS
<1>2. /\ a.file = "charge" /\ b.file = "claim" /\ c.file = "charge" /\ d.file = "charge"
      /\ e.file = "charge"
      /\ c.kind = "test" /\ d.kind = "test" /\ e.kind = "test"
      /\ a.given = {} /\ b.given = {} /\ c.given = {} /\ d.given = {} /\ e.given = {}
  BY <1>1, GateKinds DEF Quiet
<1>3. Once(<<a, b, c, d, e>>)
  BY <1>2 DEF Once
<1>4. PICK s, E : s = <<a, b, c, d, e>> /\ E = {a, b, c, d, e}
  OBVIOUS
<1>24. Row(s, E)
  BY <1>4, Literals
<1>5. \A x \in E : x.file \in {"charge", "claim"} /\ x.given = {}
  BY <1>2, <1>4
<1>6. TestRow(ClaimSigned, {Needs("claim", "signature")})
  BY NeedAllRows DEF ClaimSigned
<1>7. TestRow(NeedAll("claim", <<"settlementRef", "buyer">>),
              {Needs("claim", "settlementRef"), Needs("claim", "buyer")})
  BY NeedAllRows
<1>8. PICK v, V : /\ v = <<IfGiven("claim", "seller"), Needs("claim", "evidenceHash")>>
                  /\ V = {IfGiven("claim", "seller"), Needs("claim", "evidenceHash")} /\ TestRow(v, V)
  <2>1. IfGiven("claim", "seller").kind = "test" /\ Needs("claim", "evidenceHash").kind = "test"
    BY DEF IfGiven, Needs, Says, Gate
  <2>2. Tests({IfGiven("claim", "seller"), Needs("claim", "evidenceHash")})
    BY <2>1 DEF Tests
  <2> QED BY <2>2, Literals DEF TestRow
<1>9. PICK u, U : /\ u = s \o ClaimSigned \o NeedAll("claim", <<"settlementRef", "buyer">>) \o v
                  /\ U = E \cup {Needs("claim", "signature")}
                         \cup {Needs("claim", "settlementRef"), Needs("claim", "buyer")} \cup V
  OBVIOUS
<1>26. Row(u, U) /\ Once(u)
  <2>1. Once(s)
    BY <1>3, <1>4
  <2>3. TestRow(v, V)
    BY <1>8
  <2>2. /\ Row(s \o ClaimSigned \o NeedAll("claim", <<"settlementRef", "buyer">>) \o v,
               E \cup {Needs("claim", "signature")}
                 \cup {Needs("claim", "settlementRef"), Needs("claim", "buyer")} \cup V)
        /\ Once(s \o ClaimSigned \o NeedAll("claim", <<"settlementRef", "buyer">>) \o v)
    <3>1. PICK t, D : t = ClaimSigned /\ D = {Needs("claim", "signature")}
      OBVIOUS
    <3>2. PICK q, C : /\ q = NeedAll("claim", <<"settlementRef", "buyer">>)
                      /\ C = {Needs("claim", "settlementRef"), Needs("claim", "buyer")}
      OBVIOUS
    <3>3. TestRow(t, D) /\ TestRow(q, C)
      BY <1>6, <1>7, <3>1, <3>2
    <3>4. Row(s \o t \o q \o v, E \cup D \cup C \cup V) /\ Once(s \o t \o q \o v)
      BY <2>1, <1>24, <2>3, <3>3, CatTestRows
    <3> QED BY <3>1, <3>2, <3>4
  <2> QED BY <1>9, <2>2
<1>10. \A x \in U : x.file \in {"charge", "claim"} /\ x.given = {}
  <2>1. \A x \in {Needs("claim", "signature")}
        \cup {Needs("claim", "settlementRef"), Needs("claim", "buyer")} \cup V :
          x.file = "claim" /\ x.given = {}
    BY <1>8, GateKinds DEF Quiet
  <2> QED BY <1>5, <1>9, <2>1
<1>11. Steady(u)
  BY <1>9, <1>26, <1>10 DEF Row, Steady
<1>12. PICK f, g, h : /\ f = IfGiven("charge", "foreign_chain_proof")
                      /\ g = ReadIf("source", {Given("charge", "foreign_chain_proof")})
                      /\ h = Gate("test", "source", "head", Spoiled \ {"absent"}, "RED",
                                  {Given("charge", "foreign_chain_proof")})
  OBVIOUS
<1>13. /\ f.kind = "test" /\ f.file = "charge" /\ f.given = {}
       /\ g.file = "source" /\ h.kind = "test" /\ h.file = "source"
  BY <1>12 DEF IfGiven, Says, ReadIf, Gate
<1>14. \A x \in g.given \cup h.given : x.file = "charge"
  <2>1. PICK z : z = Given("charge", "foreign_chain_proof")
    OBVIOUS
  <2>2. z.file = "charge"
    BY <2>1 DEF Given, Is
  <2>3. g.given = {z} /\ h.given = {z}
    BY <1>12, <2>1 DEF ReadIf, Gate
  <2> QED BY <2>2, <2>3
<1>15. Once(<<f, g, h>>) /\ Steady(<<f, g, h>>)
  BY <1>13, <1>14 DEF Once, Steady
<1>25. Row(<<f, g, h>>, {f, g, h})
  BY Literals
<1>16. Once(u \o <<f, g, h>>)
  <2>1. \A x \in U, y \in {f, g, h} : y.kind = "read" => x.file # y.file
    BY <1>10, <1>13
  <2> QED BY <1>9, <1>26, <1>15, <1>25, <2>1, CatOnce
<1>17. Steady(u \o <<f, g, h>>)
  <2>1. \A x \in U, y \in {f, g, h} : y.kind = "read" => \A z \in x.given : z.file # y.file
    BY <1>10
  <2> QED BY <1>9, <1>26, <1>11, <1>15, <1>25, <2>1, CatSteady
<1>18. PICK k, K : k = u \o <<f, g, h>> /\ K = U \cup {f, g, h} /\ Row(k, K) /\ Once(k) /\ Steady(k)
  BY <1>9, <1>26, <1>25, <1>16, <1>17, CatRow
<1>19. PICK w : w = IfGiven("charge", "submitter")
  OBVIOUS
<1>20. w.kind = "test" /\ Row(<<w>>, {w}) /\ Tests({w})
  <2>1. w.kind = "test"
    BY <1>19 DEF IfGiven, Says, Gate
  <2>2. Row(<<w>>, {w})
    BY Literals
  <2> QED BY <2>1, <2>2 DEF Tests
<1>21. Row(k \o <<w>>, K \cup {w}) /\ Once(k \o <<w>>)
  BY <1>18, <1>20, CatTests
<1>22. Steady(k \o <<w>>)
  <2>1. Steady(<<w>>)
    BY <1>20 DEF Steady
  <2>2. \A x \in K, y \in {w} : y.kind = "read" => \A z \in x.given : z.file # y.file
    BY <1>20
  <2> QED BY <1>18, <1>20, <2>1, <2>2, CatSteady
<1>23. Settle = k \o <<w>>
  BY <1>1, <1>4, <1>8, <1>9, <1>12, <1>18, <1>19 DEF Settle, ForeignChain
<1> QED BY <1>1, <1>4, <1>8, <1>9, <1>12, <1>18, <1>19, <1>21, <1>22, <1>23

\* The two gates of Recheck, and the last gate of an anchor.
RecheckRead(p) == ReadIf(p, {Is("anchor", p, {"ok", "bad"})})

RecheckTest(p) == Gate("test", p, "evidence", Spoiled, "RED", {Is("anchor", p, {"ok"})})

SovereignEnd ==
  Gate("test", "anchor", "tamga", {"absent", "unknown"}, "STRUCTURAL",
       {Is("anchor", p, {"absent", "unknown"}) : p \in {"sester", "veridict"}})

(* A product is rechecked behind gates that depend on the anchor alone.    *)
LEMMA RecheckTable ==
  ASSUME NEW p, NEW s, NEW E, Row(s, E), Once(s), Steady(s), p # "anchor",
         \A g \in E : g.file # p /\ \A c \in g.given : c.file = "anchor"
  PROVE  /\ Row(s \o Recheck(p), E \cup {RecheckRead(p), RecheckTest(p)})
         /\ Once(s \o Recheck(p)) /\ Steady(s \o Recheck(p))
<1>1. PICK g, h : g = RecheckRead(p) /\ h = RecheckTest(p)
  OBVIOUS
<1>2. g.file = p /\ h.file = p /\ h.kind = "test"
  BY <1>1 DEF RecheckRead, RecheckTest, ReadIf, Gate
<1>4. Once(<<g, h>>) /\ Steady(<<g, h>>)
  BY <1>2 DEF Once, Steady
<1>5. Row(<<g, h>>, {g, h})
  BY Literals
<1>6. Recheck(p) = <<g, h>>
  BY <1>1 DEF Recheck, RecheckRead, RecheckTest
<1>7. \A x \in E, y \in {g, h} : y.kind = "read" => x.file # y.file
  BY <1>2
<1>8. \A x \in E, y \in {g, h} : y.kind = "read" => \A c \in x.given : c.file # y.file
  BY <1>2
<1>9. Row(s \o <<g, h>>, E \cup {g, h})
  BY <1>5, CatRow
<1>10. Once(s \o <<g, h>>)
  BY <1>4, <1>5, <1>7, CatOnce
<1>11. Steady(s \o <<g, h>>)
  BY <1>4, <1>5, <1>8, CatSteady
<1> QED BY <1>1, <1>6, <1>9, <1>10, <1>11

(* The gates of a recheck are about the product, under a condition on the  *)
(* anchor.                                                                 *)
LEMMA RecheckFiles ==
  ASSUME NEW p
  PROVE  \A g \in {RecheckRead(p), RecheckTest(p)} :
           g.file = p /\ \A c \in g.given : c.file = "anchor"
<1>1. PICK g, h : g = RecheckRead(p) /\ h = RecheckTest(p)
  OBVIOUS
<1>2. PICK c, d : c = Is("anchor", p, {"ok", "bad"}) /\ d = Is("anchor", p, {"ok"})
  OBVIOUS
<1>3. c.file = "anchor" /\ d.file = "anchor"
  BY <1>2 DEF Is
<1>4. g.file = p /\ h.file = p /\ g.given = {c} /\ h.given = {d}
  BY <1>1, <1>2 DEF RecheckRead, RecheckTest, ReadIf, Gate
<1> QED BY <1>1, <1>3, <1>4

(* sovereign: an anchor and the rechecks of its products.                  *)
LEMMA SovereignTable ==
  \E E : /\ Row(SovereignVerify, E) /\ Once(SovereignVerify) /\ Steady(SovereignVerify)
         /\ \A g \in E : \A c \in g.given : c.file = "anchor"
         /\ E = {Read("anchor")}
                \cup {Needs("anchor", "type"), Needs("anchor", "root"), Needs("anchor", "lists"),
                      Needs("anchor", "proved"), Needs("anchor", "verdicts")}
                \cup {Says("anchor", "sources", Spoiled, "UNVERIFIED")}
                \cup {RecheckRead("tamga"), RecheckTest("tamga")}
                \cup {RecheckRead("sester"), RecheckTest("sester")}
                \cup {RecheckRead("veridict"), RecheckTest("veridict")}
                \cup {SovereignEnd}
<1>1. Row(<<Read("anchor")>>, {Read("anchor")}) /\ Once(<<Read("anchor")>>)
  BY Literals, TakenUpFirst
<1>2. TestRow(NeedAll("anchor", <<"type", "root", "lists", "proved", "verdicts">>),
              {Needs("anchor", "type"), Needs("anchor", "root"), Needs("anchor", "lists"),
               Needs("anchor", "proved"), Needs("anchor", "verdicts")})
  BY NeedAllRows
<1>3. PICK a : a = Says("anchor", "sources", Spoiled, "UNVERIFIED")
  OBVIOUS
<1>4. a.kind = "test" /\ a.file = "anchor" /\ a.given = {}
  BY <1>3 DEF Says, Gate
<1>5. TestRow(<<a>>, {a})
  <2>1. Row(<<a>>, {a})
    BY Literals
  <2> QED BY <2>1, <1>4 DEF TestRow, Tests
<1>6. PICK s, E : /\ s = <<Read("anchor")>>
                           \o NeedAll("anchor",
                                      <<"type", "root", "lists", "proved", "verdicts">>) \o <<a>>
                  /\ E = {Read("anchor")}
                         \cup {Needs("anchor", "type"), Needs("anchor", "root"),
                               Needs("anchor", "lists"),
                               Needs("anchor", "proved"), Needs("anchor", "verdicts")} \cup {a}
  OBVIOUS
<1>7. Row(s, E) /\ Once(s)
  BY <1>1, <1>2, <1>5, <1>6, CatTestRows
<1>8. \A g \in E : g.file = "anchor" /\ g.given = {}
  <2>1. \A p : Needs("anchor", p).file = "anchor" /\ Needs("anchor", p).given = {}
    BY DEF Needs, Says, Gate
  <2>2. Read("anchor").file = "anchor" /\ Read("anchor").given = {}
    BY DEF Read, ReadIf, Gate
  <2> QED BY <1>4, <1>6, <2>1, <2>2
<1>9. Steady(s)
  BY <1>7, <1>8 DEF Row, Steady
<1>10. PICK s1, E1 : s1 = s \o Recheck("tamga") /\ E1 = E
                          \cup {RecheckRead("tamga"), RecheckTest("tamga")}
  OBVIOUS
<1>11. Row(s1, E1) /\ Once(s1) /\ Steady(s1)
  <2>1. \A g \in E : g.file # "tamga" /\ \A c \in g.given : c.file = "anchor"
    BY <1>8
  <2>2. "tamga" # "anchor"
    OBVIOUS
  <2> QED BY <1>7, <1>9, <1>10, <2>1, <2>2, RecheckTable
<1>12. \A g \in E1 : g.file \in {"anchor", "tamga"} /\ \A c \in g.given : c.file = "anchor"
  BY <1>8, <1>10, RecheckFiles
<1>13. PICK s2, E2 : s2 = s1 \o Recheck("sester") /\ E2 = E1
                          \cup {RecheckRead("sester"), RecheckTest("sester")}
  OBVIOUS
<1>14. Row(s2, E2) /\ Once(s2) /\ Steady(s2)
  <2>1. \A g \in E1 : g.file # "sester" /\ \A c \in g.given : c.file = "anchor"
    BY <1>12
  <2>2. "sester" # "anchor"
    OBVIOUS
  <2> QED BY <1>11, <1>13, <2>1, <2>2, RecheckTable
<1>15. \A g \in E2 : g.file \in {"anchor", "tamga", "sester"} /\ \A c \in g.given : c.file = "anchor"
  BY <1>12, <1>13, RecheckFiles
<1>16. PICK s3, E3 : s3 = s2 \o Recheck("veridict") /\ E3 = E2
                          \cup {RecheckRead("veridict"), RecheckTest("veridict")}
  OBVIOUS
<1>17. Row(s3, E3) /\ Once(s3) /\ Steady(s3)
  <2>1. \A g \in E2 : g.file # "veridict" /\ \A c \in g.given : c.file = "anchor"
    BY <1>15
  <2>2. "veridict" # "anchor"
    OBVIOUS
  <2> QED BY <1>14, <1>16, <2>1, <2>2, RecheckTable
<1>18. \A g \in E3 : \A c \in g.given : c.file = "anchor"
  BY <1>15, <1>16, RecheckFiles
<1>19. PICK w : w = SovereignEnd
  OBVIOUS
<1>20. w.kind = "test" /\ \A c \in w.given : c.file = "anchor"
  BY <1>19 DEF SovereignEnd, Gate, Is
<1>21. Row(<<w>>, {w})
  BY Literals
<1>22. Row(s3 \o <<w>>, E3 \cup {w}) /\ Once(s3 \o <<w>>)
  BY <1>17, <1>20, <1>21, CatTests DEF Tests
<1>23. Steady(s3 \o <<w>>)
  <2>1. Steady(<<w>>)
    BY <1>20 DEF Steady
  <2>2. \A x \in E3, y \in {w} : y.kind = "read" => \A c \in x.given : c.file # y.file
    BY <1>20
  <2> QED BY <1>17, <1>21, <2>1, <2>2, CatSteady
<1>24. SovereignVerify = s3 \o <<w>>
  BY <1>3, <1>6, <1>10, <1>13, <1>16, <1>19 DEF SovereignVerify, SovereignEnd
<1>25. PICK F : F = E3 \cup {w}
  OBVIOUS
<1>26. \A g \in F : \A c \in g.given : c.file = "anchor"
  BY <1>18, <1>20, <1>25
<1> QED BY <1>3, <1>6, <1>10, <1>13, <1>16, <1>19, <1>22, <1>23, <1>24, <1>25, <1>26, Zenon

\* Without --rpc the epoch verifier stops at inclusion; with --chainid the
\* node must be of that chain.
RpcAsked == Says("argv", "rpc", {"absent"}, "GREEN")

NodeTest == Gate("test", "chain", "id", Spoiled, "INDETERMINATE", {Given("argv", "chainid")})

(* What the node is asked: its last four gates are lasting.                *)
LEMMA OnChainTable ==
  /\ Row(OnChain, {ReadIf("chain", {Given("argv", "chainid")}), NodeTest, Read("chain"),
                   Says("chain", "epoch", {"absent", "unknown"}, "INDETERMINATE"),
                   Says("chain", "count", {"unknown"}, "INDETERMINATE"),
                   Says("chain", "epoch", {"bad"}, "RED"), Says("chain", "count", {"bad"}, "RED")})
  /\ Steady(OnChain)
  /\ \A i \in DOMAIN OnChain : OnChain[i].file = "chain" /\ OnChain[i].says # "GREEN"
  /\ \A g \in {Says("chain", "epoch", {"absent", "unknown"}, "INDETERMINATE"),
               Says("chain", "count", {"unknown"}, "INDETERMINATE"),
               Says("chain", "epoch", {"bad"}, "RED"), Says("chain", "count", {"bad"}, "RED")} :
       \E i \in DOMAIN OnChain : OnChain[i] = g /\ Lasting(OnChain, i)
<1>1. PICK a, b, c, d, e, f, g :
        /\ a = ReadIf("chain", {Given("argv", "chainid")}) /\ b = NodeTest /\ c = Read("chain")
        /\ d = Says("chain", "epoch", {"absent", "unknown"}, "INDETERMINATE")
        /\ e = Says("chain", "count", {"unknown"}, "INDETERMINATE")
        /\ f = Says("chain", "epoch", {"bad"}, "RED") /\ g = Says("chain", "count", {"bad"}, "RED")
  OBVIOUS
<1>2. /\ a.file = "chain" /\ b.file = "chain" /\ b.kind = "test" /\ c.file = "chain" /\ c.given = {}
      /\ d.kind = "test" /\ e.kind = "test" /\ f.kind = "test" /\ g.kind = "test"
      /\ d.given = {} /\ e.given = {} /\ f.given = {} /\ g.given = {}
      /\ d.file = "chain" /\ e.file = "chain" /\ f.file = "chain" /\ g.file = "chain"
      /\ a.says # "GREEN" /\ b.says # "GREEN" /\ c.says # "GREEN" /\ d.says # "GREEN"
      /\ e.says # "GREEN" /\ f.says # "GREEN" /\ g.says # "GREEN"
  BY <1>1 DEF ReadIf, NodeTest, Read, Says, Gate
<1>3. \A x \in a.given \cup b.given : x.file = "argv"
  <2>1. PICK y : y = Given("argv", "chainid")
    OBVIOUS
  <2>2. y.file = "argv"
    BY <2>1 DEF Given, Is
  <2>3. a.given = {y} /\ b.given = {y}
    BY <1>1, <2>1 DEF ReadIf, NodeTest, Gate
  <2> QED BY <2>2, <2>3
<1>4. PICK s : s = <<a, b, c, d, e, f, g>>
  OBVIOUS
<1>5. Row(s, {a, b, c, d, e, f, g})
  BY <1>4, Literals
<1>6. Steady(s)
  BY <1>2, <1>3, <1>4 DEF Steady
<1>7. /\ 4 \in DOMAIN s /\ 5 \in DOMAIN s /\ 6 \in DOMAIN s /\ 7 \in DOMAIN s
      /\ s[4] = d /\ s[5] = e /\ s[6] = f /\ s[7] = g
  BY <1>4
<1>8. Lasting(s, 4) /\ Lasting(s, 5) /\ Lasting(s, 6) /\ Lasting(s, 7)
  BY <1>2, <1>4 DEF Lasting
<1>9. OnChain = s
  BY <1>1, <1>4 DEF OnChain, OnChainGates, NodeTest
<1>10. \A x \in {d, e, f, g} : \E i \in DOMAIN s : s[i] = x /\ Lasting(s, i)
  BY <1>7, <1>8
<1>11. \A i \in DOMAIN s : s[i].file = "chain" /\ s[i].says # "GREEN"
  BY <1>2, <1>5 DEF Row
<1> QED BY <1>1, <1>5, <1>6, <1>9, <1>10, <1>11

(* epoch: inclusion before the one gate that says GREEN, and the node.     *)
LEMMA EpochTable ==
  \E E : /\ Row(Epoch, E) /\ Steady(Epoch)
         /\ E = {Read("argv"), Read("proof")}
                \cup {Needs("proof", "fields"), Needs("proof", "inclusion")}
                \cup {RpcAsked, Says("argv", "rpc", {"bad", "unknown"}, "INDETERMINATE"),
                      Says("argv", "chainid", {"bad", "unknown"}, "INDETERMINATE")}
                \cup {ReadIf("chain", {Given("argv", "chainid")}), NodeTest, Read("chain"),
                      Says("chain", "epoch", {"absent", "unknown"}, "INDETERMINATE"),
                      Says("chain", "count", {"unknown"}, "INDETERMINATE"),
                      Says("chain", "epoch", {"bad"}, "RED"), Says("chain", "count", {"bad"}, "RED")}
         /\ \A g \in {Says("chain", "epoch", {"absent", "unknown"}, "INDETERMINATE"),
                      Says("chain", "count", {"unknown"}, "INDETERMINATE"),
                      Says("chain", "epoch", {"bad"}, "RED"), Says("chain", "count", {"bad"}, "RED")} :
              \E i \in DOMAIN Epoch : Epoch[i] = g /\ Lasting(Epoch, i)
         /\ Preceded(Epoch, RpcAsked, Needs("proof", "fields"))
         /\ Preceded(Epoch, RpcAsked, Needs("proof", "inclusion"))
<1>1. PICK a, b, c, d, e, f, g :
        /\ a = Read("argv") /\ b = Read("proof") /\ c = Needs("proof", "fields")
        /\ d = Needs("proof", "inclusion")
        /\ e = RpcAsked /\ f = Says("argv", "rpc", {"bad", "unknown"}, "INDETERMINATE")
        /\ g = Says("argv", "chainid", {"bad", "unknown"}, "INDETERMINATE")
  OBVIOUS
<1>2. /\ a.given = {} /\ b.given = {} /\ c.given = {} /\ d.given = {} /\ e.given = {} /\ f.given = {}
      /\ g.given = {}
      /\ a.says # "GREEN" /\ b.says # "GREEN" /\ c.says # "GREEN" /\ d.says # "GREEN"
      /\ e.says = "GREEN" /\ e.file = "argv"
  BY <1>1 DEF RpcAsked, Read, ReadIf, Needs, Says, Gate
<1>3. Row(<<a, b>>, {a, b}) /\ Row(<<e, f, g>>, {e, f, g})
  BY Literals
<1>4. Row(Inclusion, {c, d})
  BY <1>1, NeedAllRows DEF Inclusion, TestRow
<1>5. PICK u : u = <<a, b>> \o Inclusion
  OBVIOUS
<1>6. Row(u, {a, b} \cup {c, d})
  BY <1>3, <1>4, <1>5, CatRow
<1>7. PICK v : v = u \o <<e, f, g>>
  OBVIOUS
<1>8. Row(v, {a, b} \cup {c, d} \cup {e, f, g})
  BY <1>3, <1>6, <1>7, CatRow
<1>9. PICK V : V = {a, b} \cup {c, d} \cup {e, f, g}
  OBVIOUS
<1>10. \A x \in V : x.given = {}
  BY <1>2, <1>9
<1>11. Steady(v)
  BY <1>8, <1>9, <1>10 DEF Row, Steady
<1>12. Preceded(v, e, c) /\ Preceded(v, e, d)
  <2>1. e \notin {a, b} \cup {c, d} /\ c \in {a, b} \cup {c, d} /\ d \in {a, b} \cup {c, d}
    BY <1>2
  <2> QED BY <1>3, <1>6, <1>7, <2>1, CatPreceded
<1>13. PICK C : /\ Row(OnChain, C)
                /\ C = {ReadIf("chain", {Given("argv", "chainid")}), NodeTest, Read("chain"),
                      Says("chain", "epoch", {"absent", "unknown"}, "INDETERMINATE"),
                      Says("chain", "count", {"unknown"}, "INDETERMINATE"),
                      Says("chain", "epoch", {"bad"}, "RED"), Says("chain", "count", {"bad"}, "RED")}
  BY OnChainTable
<1>14. Row(OnChain, C) /\ Steady(OnChain) /\ \A x \in C : x.file = "chain" /\ x.says # "GREEN"
  <2>1. Row(OnChain, C)
    BY <1>13
  <2>2. Steady(OnChain) /\ \A i \in DOMAIN OnChain :
            OnChain[i].file = "chain" /\ OnChain[i].says # "GREEN"
    BY OnChainTable
  <2> QED BY <2>1, <2>2 DEF Row
<1>15. Epoch = v \o OnChain
  BY <1>1, <1>5, <1>7 DEF Epoch, RpcAsked
<1>16. Row(v \o OnChain, V \cup C)
  BY <1>8, <1>9, <1>13, CatRow
<1>17. Steady(v \o OnChain)
  <2>1. \A x \in V, y \in C : y.kind = "read" => \A z \in x.given : z.file # y.file
    BY <1>10
  <2>2. Row(v, V)
    BY <1>8, <1>9
  <2> QED BY <1>11, <1>14, <2>1, <2>2, CatSteady
<1>18. Preceded(v \o OnChain, e, c) /\ Preceded(v \o OnChain, e, d)
  <2>1. e \notin C
    BY <1>2, <1>14
  <2> QED BY <1>8, <1>12, <1>14, <2>1, CatPreceded
<1>19. \A x \in {Says("chain", "epoch", {"absent", "unknown"}, "INDETERMINATE"),
               Says("chain", "count", {"unknown"}, "INDETERMINATE"),
               Says("chain", "epoch", {"bad"}, "RED"), Says("chain", "count", {"bad"}, "RED")} :
       \E i \in DOMAIN Epoch : Epoch[i] = x /\ Lasting(Epoch, i)
  <2>1. List(v) /\ List(OnChain)
    BY <1>8, <1>13 DEF Row
  <2>2. ASSUME NEW x, NEW i \in DOMAIN OnChain, OnChain[i] = x, Lasting(OnChain, i)
        PROVE  \E k \in DOMAIN Epoch : Epoch[k] = x /\ Lasting(Epoch, k)
    BY <2>1, <2>2, <1>15, LastingEnd
  <2> QED BY <2>2, OnChainTable
<1> QED BY <1>1, <1>9, <1>13, <1>15, <1>16, <1>17, <1>18, <1>19

(* cosign: the chain is tested before the policy can say GREEN.            *)
LEMMA CosignOrder ==
  Preceded(Cosign, Says("argv", "cosign_policy", Spoiled, "GREEN"), Needs("snapshot", "chain"))
<1>1. PICK a, b, c, d, e :
        /\ a = Read("argv") /\ b = Read("snapshot")
        /\ c = Says("snapshot", "chain", {"absent"}, "GREEN")
        /\ d = Needs("snapshot", "chain") /\ e = Says("argv", "cosign_policy", Spoiled, "GREEN")
  OBVIOUS
<1>2. PICK s, t, u : /\ s = <<a, b, c, d, e>> /\ t = CosignLists
                     /\ u = NeedAll("snapshot", <<"node_sig", "signature", "unrevoked", "trusted">>)
  OBVIOUS
<1>3. Row(s, {a, b, c, d, e})
  BY <1>2, Literals
<1>4. /\ a.kind = "read" /\ b.kind = "read" /\ c.file = "snapshot" /\ d.file = "snapshot"
      /\ e.kind = "test" /\ e.file = "argv" /\ e.says = "GREEN"
  BY <1>1, GateKinds
<1>5. Preceded(s, e, d)
  BY <1>2, <1>4 DEF Preceded
<1>6. PICK T : Row(t, T) /\ T = {Needs("argv", "node_trust"), Needs("argv", "node_revoked")}
  BY <1>2, NeedAllRows DEF CosignLists, TestRow
<1>7. PICK U : /\ Row(u, U) 
               /\ U = {Needs("snapshot", "node_sig"), Needs("snapshot", "signature"),
                       Needs("snapshot", "unrevoked"), Needs("snapshot", "trusted")}
  BY <1>2, NeedAllRows DEF TestRow
<1>8. \A f, p : Needs(f, p).says # "GREEN"
  BY DEF Needs, Says, Gate
<1>9. e \notin T /\ e \notin U
  BY <1>4, <1>6, <1>7, <1>8
<1>10. Preceded(s \o t, e, d) /\ Row(s \o t, {a, b, c, d, e} \cup T)
  <2>1. e \notin T /\ Row(t, T)
    BY <1>6, <1>9
  <2> QED BY <1>3, <1>5, <2>1, CatPreceded, CatRow
<1>11. Preceded(s \o t \o u, e, d)
  <2>1. e \notin U /\ Row(u, U)
    BY <1>7, <1>9
  <2> QED BY <1>10, <2>1, CatPreceded
<1>12. Cosign = s \o t \o u
  BY <1>1, <1>2 DEF Cosign
<1> QED BY <1>1, <1>11, <1>12

(* dispute: the bind and the delivery are tested before a gate can say     *)
(* GREEN, the pointer before the status.                                   *)
LEMMA DisputeOrder ==
  \A h \in {Needs("charge", "settlement_bind"), Needs("charge", "delivery_hash")} :
     /\ Preceded(Dispute, Says("charge", "dispute_pointer", {"absent"}, "GREEN"), h)
     /\ Preceded(Dispute, Says("charge", "status", {"ok"}, "GREEN"), h)
     /\ Preceded(Dispute, Says("charge", "status", {"ok"}, "GREEN"), Needs("charge", "dispute_pointer"))
<1>1. PICK a, b, c, d, e, f, g, h, i, j, k :
        /\ a = Read("charge") /\ b = Needs("charge", "settlement_bind")
        /\ c = Needs("charge", "delivery_hash")
        /\ d = Says("charge", "dispute_pointer", {"absent"}, "GREEN")
        /\ e = Needs("charge", "dispute_pointer") /\ f = Says("charge", "status", {"ok"}, "GREEN")
        /\ g = Gate("test", "charge", "counter_claim", Spoiled, "RED",
                    {Is("charge", "status", {"bad"})})
        /\ h = Needs("charge", "arbitration") /\ i = Needs("charge", "bond_pct")
        /\ j = Withholds("charge", "protocol") /\ k = Says("charge", "status", Spoiled, "INDETERMINATE")
  OBVIOUS
<1>2. /\ a.says # "GREEN" /\ b.says # "GREEN" /\ c.says # "GREEN" /\ d.says = "GREEN"
      /\ e.says # "GREEN" /\ f.says = "GREEN" /\ g.says # "GREEN" /\ h.says # "GREEN"
      /\ i.says # "GREEN"
      /\ j.says # "GREEN" /\ k.says # "GREEN" /\ d.piece = "dispute_pointer" /\ f.piece = "status"
  BY <1>1 DEF Read, ReadIf, Needs, Withholds, Says, Gate
<1>3. PICK s : s = <<a, b, c, d, e, f, g, h, i, j, k>>
  OBVIOUS
<1>4. /\ DOMAIN s = 1..11 /\ s[1] = a /\ s[2] = b /\ s[3] = c /\ s[4] = d /\ s[5] = e /\ s[6] = f
      /\ s[7] = g /\ s[8] = h /\ s[9] = i /\ s[10] = j /\ s[11] = k
  BY <1>3
<1>5. \A n \in DOMAIN s : s[n].says = "GREEN" => n = 4 \/ n = 6
  BY <1>2, <1>4
<1>6. \A n \in DOMAIN s : s[n] = d \/ s[n] = f => n > 3
  BY <1>2, <1>5
<1>7. \A n \in DOMAIN s : s[n] = f => n > 5
  BY <1>2, <1>4, <1>5
<1>8. \A x \in {b, c} : Preceded(s, d, x) /\ Preceded(s, f, x)
  BY <1>4, <1>6 DEF Preceded
<1>9. Preceded(s, f, e)
  BY <1>4, <1>7 DEF Preceded
<1>10. Dispute = s
  BY <1>1, <1>3 DEF Dispute
<1> QED BY <1>1, <1>8, <1>9, <1>10
-----------------------------------------------------------------------------
(***************************************************************************)
(* What a run has looked at when it says GREEN.                            *)
(***************************************************************************)
(* What a gate that let its piece pass has seen.                           *)
LEMMA PassedSees ==
  ASSUME NEW f, NEW p
  PROVE  /\ Passed(Needs(f, p)) => Seen(<<f, p>>, {"ok"})
         /\ Passed(Withholds(f, p)) => Seen(<<f, p>>, {"ok"})
         /\ Passed(IfGiven(f, p)) => Seen(<<f, p>>, {"ok", "absent"})
         /\ \A w, y : Passed(Says(f, p, w, y)) => Seen(<<f, p>>, State \ w)
<1>1. ASSUME NEW g, g.kind = "test", g.file = f, g.piece = p, g.given = {}, Passed(g)
      PROVE  Seen(<<f, p>>, State \ g.when)
  BY <1>1 DEF Passed, Holds, PieceOf, Seen
<1>2. ASSUME NEW w, NEW y, Passed(Says(f, p, w, y))
      PROVE  Seen(<<f, p>>, State \ w)
  <2>1. PICK g : g = Says(f, p, w, y)
    OBVIOUS
  <2>2. g.kind = "test" /\ g.file = f /\ g.piece = p /\ g.given = {} /\ g.when = w
    BY <2>1 DEF Says, Gate
  <2> QED BY <1>1, <1>2, <2>1, <2>2
<1>3. Passed(Needs(f, p)) \/ Passed(Withholds(f, p)) => Seen(<<f, p>>, State \ Spoiled)
  BY <1>2 DEF Needs, Withholds
<1>4. Passed(IfGiven(f, p)) => Seen(<<f, p>>, State \ (Spoiled \ {"absent"}))
  BY <1>2 DEF IfGiven
<1>5. State \ Spoiled = {"ok"} /\ State \ (Spoiled \ {"absent"}) = {"ok", "absent"}
  BY DEF State, Spoiled
<1> QED BY <1>2, <1>3, <1>4, <1>5

(* A run that said GREEN was through with all its gates, or one of them said so. *)
LEMMA SaidGreen ==
  ASSUME Sound(tool), DocInv, answer = "GREEN", NEW E, Row(Gates(tool), E)
  PROVE  \/ /\ \A g \in E : Passed(g)
            /\ \A i \in DOMAIN Gates(tool) : Lasting(Gates(tool), i) => Stays(Gates(tool)[i])
         \/ \E g \in E : Cleared(g) /\ \A h : Preceded(Gates(tool), g, h) => Passed(h)
<1>1. verdict = "GREEN"
  BY DEF DocInv, GreenInv
<1>2. DOMAIN Gates(tool) = 1..Len(Gates(tool)) /\ Len(Gates(tool)) \in Nat /\ at \in Nat \ {0}
  BY DEF Sound, DocInv, DocTypes
<1>3. CASE at \in DOMAIN Gates(tool)
  <2>1. PICK g : g = Gates(tool)[at]
    OBVIOUS
  <2>2. Cleared(g) /\ g \in E
    BY <1>1, <1>3, <2>1 DEF DocInv, GreenInv, Row
  <2>3. ASSUME NEW h, Preceded(Gates(tool), g, h)
        PROVE  Passed(h)
    <3>1. PICK j \in DOMAIN Gates(tool) : j < at /\ Gates(tool)[j] = h
      BY <1>3, <2>1, <2>3 DEF Preceded
    <3> QED BY <3>1 DEF DocInv, PassedInv
  <2> QED BY <2>2, <2>3
<1>4. CASE at \notin DOMAIN Gates(tool)
  <2>1. \A i \in DOMAIN Gates(tool) : i < at
    BY <1>2, <1>4
  <2>2. \A g \in E : Passed(g)
    BY <2>1 DEF DocInv, PassedInv, Row
  <2>3. \A i \in DOMAIN Gates(tool) : Lasting(Gates(tool), i) => Stays(Gates(tool)[i])
    BY <2>1 DEF DocInv, LastingInv
  <2> QED BY <2>2, <2>3
<1> QED BY <1>3, <1>4

(* The tools none of whose gates says GREEN have been through with all of them. *)
LEMMA AllPassed ==
  ASSUME Sound(tool), DocInv, answer = "GREEN", NEW E, Row(Gates(tool), E),
         \A g \in E : g.says # "GREEN"
  PROVE  /\ \A g \in E : Passed(g)
         /\ \A i \in DOMAIN Gates(tool) : Lasting(Gates(tool), i) => Stays(Gates(tool)[i])
BY SaidGreen DEF Cleared

\* Every piece that GREEN stands for was looked at and was right.
Founded ==
  /\ \A x \in Stands.must : Seen(x, {"ok"})
  /\ \A x \in Stands.may  : Seen(x, {"ok", "absent"})

(* What was seen of a set of pieces when every gate was passed.            *)
LEMMA WhatIsSeen ==
  ASSUME NEW E, \A g \in E : Passed(g), NEW f, NEW P
  PROVE  /\ (\A p \in P : Needs(f, p) \in E \/ Withholds(f, p) \in E)
            => \A x \in Of(f, P) : Seen(x, {"ok"})
         /\ (\A p \in P : IfGiven(f, p) \in E) => \A x \in Of(f, P) : Seen(x, {"ok", "absent"})
<1>1. ASSUME NEW x \in Of(f, P)
      PROVE  \E p \in P : x = <<f, p>>
  BY <1>1 DEF Of
<1> QED BY <1>1, PassedSees

(* A piece of a source that is not read again, and what two gates let pass. *)
LEMMA LastingSees ==
  ASSUME NEW s, NEW f, NEW p, NEW v, NEW w, NEW y, NEW z,
         \A i \in DOMAIN s : Lasting(s, i) => Stays(s[i]),
         \E i \in DOMAIN s : s[i] = Says(f, p, v, y) /\ Lasting(s, i),
         \E i \in DOMAIN s : s[i] = Says(f, p, w, z) /\ Lasting(s, i)
  PROVE  Seen(<<f, p>>, State \ (v \cup w))
<1>1. PICK g, h : g = Says(f, p, v, y) /\ h = Says(f, p, w, z)
  OBVIOUS
<1>2. /\ g.file = f /\ g.piece = p /\ g.when = v /\ h.file = f /\ h.piece = p /\ h.when = w
  BY <1>1 DEF Says, Gate
<1>3. Stays(g) /\ Stays(h)
  BY <1>1
<1>4. PICK n : n = taken[f].is[<<f, p>>]
  OBVIOUS
<1>5. n \in State \ v /\ n \in State \ w /\ \E l \in looked : l.of = <<f, p>> /\ l.is = n
  BY <1>2, <1>3, <1>4 DEF Stays, Now, PieceOf
<1> QED BY <1>5 DEF Seen

(* What a gate has seen that said GREEN.                                   *)
LEMMA ClearedSees ==
  ASSUME NEW f, NEW p, NEW w, Cleared(Says(f, p, w, "GREEN"))
  PROVE  taken[f].is[<<f, p>>] \in w /\ Seen(<<f, p>>, w)
<1>1. PICK g : g = Says(f, p, w, "GREEN")
  OBVIOUS
<1>2. g.file = f /\ g.piece = p /\ g.when = w
  BY <1>1 DEF Says, Gate
<1> QED BY <1>1, <1>2 DEF Cleared, Now, PieceOf, Seen

(* A gate that speaks under conditions, and what it has seen.              *)
LEMMA GivenSees ==
  ASSUME NEW f, NEW p, NEW w, NEW y, NEW C, Passed(Gate("test", f, p, w, y, C)),
         \A c \in C : taken[c.file].is[<<c.file, c.piece>>] \in c.states
  PROVE  Seen(<<f, p>>, State \ w)
<1>1. PICK g : g = Gate("test", f, p, w, y, C)
  OBVIOUS
<1>2. g.kind = "test" /\ g.file = f /\ g.piece = p /\ g.given = C /\ g.when = w
  BY <1>1 DEF Gate
<1> QED BY <1>1, <1>2 DEF Passed, Holds, PieceOf, Seen

(* A condition is about a piece, in one of its states.                     *)
LEMMA ConditionHolds ==
  ASSUME Sound(tool), DocTypes, NEW i \in DOMAIN Gates(tool), NEW f, NEW p, NEW w,
         Gates(tool)[i].given = {Is(f, p, w)}
  PROVE  /\ taken[f].is[<<f, p>>] \in State
         /\ \A c \in {Is(f, p, w)} : taken[f].is[<<f, p>>] \in w
            => taken[c.file].is[<<c.file, c.piece>>] \in c.states
<1>1. PICK g, c : g = Gates(tool)[i] /\ c = Is(f, p, w)
  OBVIOUS
<1>2. c.file = f /\ c.piece = p /\ c.states = w
  BY <1>1 DEF Is
<1>3. f \in Files(tool) /\ <<f, p>> \in Pieces(f)
  BY <1>1, <1>2, SourceOfGate
<1>4. taken[f].is \in [Pieces(f) -> State]
  BY <1>3 DEF DocTypes, Copies
<1> QED BY <1>1, <1>2, <1>3, <1>4
-----------------------------------------------------------------------------
(***************************************************************************)
(* Tool by tool: the table is sound, and GREEN is founded.                 *)
(***************************************************************************)
(* kok and compute-anchor.                                                 *)
LEMMA KokFounded ==
  /\ Sound("kok") /\ Sound("compute-anchor")
  /\ tool \in {"kok", "compute-anchor"} /\ DocInv /\ answer = "GREEN" => Founded
<1>1. Gates("kok") = Kok /\ Gates("compute-anchor") = ComputeAnchorGates
  BY DEF Gates
<1>2. PICK E : /\ Row(Kok, E)
               /\ E = {Read("receipt")} \cup {Needs("receipt", "structure"), Needs("receipt", "shape")}
                \cup {Needs("receipt", "commitments"), Needs("receipt", "work"),
                      Needs("receipt", "receipt_hash")}
                \cup {Needs("receipt", "signature")}
  BY KokGates
<1>3. \A g \in E : g.given = {} /\ g.says # "GREEN"
  BY <1>2, GateKinds DEF Quiet
<1>4. PICK D : /\ Row(ComputeAnchorGates, D)
               /\ D = {Read("install"), Needs("install", "verifier")} \cup E
                         \cup {Read("receipt"), Needs("receipt", "record")}
  BY <1>2, ComputeAnchorRow
<1>5. \A g \in D : g.given = {} /\ g.says # "GREEN"
  BY <1>3, <1>4, GateKinds DEF Quiet
<1>6. Sound("kok")
  BY <1>1, <1>2, <1>3, KokGates, SoundQuiet
<1>7. Sound("compute-anchor")
  BY <1>1, <1>4, <1>5, SoundQuiet DEF TakesTwice
<1>8. ASSUME tool = "kok", DocInv, answer = "GREEN"
      PROVE  Founded
  <2>1. \A g \in E : Passed(g)
    BY <1>1, <1>2, <1>3, <1>6, <1>8, AllPassed
  <2>2. \A x \in Of("receipt", {"commitments", "work", "receipt_hash", "signature"}) : Seen(x, {"ok"})
    BY <1>2, <2>1, WhatIsSeen
  <2>3. Stands = Promise(Of("receipt", {"commitments", "work", "receipt_hash", "signature"}) \cup {},
                         {})
    BY <1>8 DEF Stands, If
  <2> QED BY <2>2, <2>3 DEF Founded, Promise
<1>9. ASSUME tool = "compute-anchor", DocInv, answer = "GREEN"
      PROVE  Founded
  <2>1. \A g \in D : Passed(g)
    BY <1>1, <1>4, <1>5, <1>7, <1>9, AllPassed
  <2>2. \A x \in Of("receipt", {"commitments", "work", "receipt_hash", "signature"}) : Seen(x, {"ok"})
    BY <1>2, <1>4, <2>1, WhatIsSeen
  <2>3. \A x \in Of("receipt", {"record"}) : Seen(x, {"ok"})
    BY <1>4, <2>1, WhatIsSeen
  <2>4. Stands = Promise(Of("receipt", {"commitments", "work", "receipt_hash", "signature"})
                           \cup Of("receipt", {"record"}), {})
    BY <1>9 DEF Stands, If
  <2> QED BY <2>2, <2>3, <2>4 DEF Founded, Promise
<1> QED BY <1>6, <1>7, <1>8, <1>9

(* attest-independent.                                                     *)
LEMMA AttestIndependentFounded ==
  /\ Sound("attest-independent")
  /\ tool = "attest-independent" /\ DocInv /\ answer = "GREEN" => Founded
<1>1. Gates("attest-independent") = AttestIndependent
  BY DEF Gates
<1>2. PICK E : /\ Row(AttestIndependent, E)
               /\ E = {Read("claim"), Needs("claim", "json")}
                      \cup {Needs("claim", "envelope"), Needs("claim", "claimId"),
                            Needs("claim", "signature"), Needs("claim", "signer")}
  BY AttestIndependentTable
<1>3. \A g \in E : g.given = {} /\ g.says # "GREEN"
  BY <1>2, GateKinds DEF Quiet
<1>4. Sound("attest-independent")
  BY <1>1, <1>2, <1>3, AttestIndependentTable, SoundQuiet
<1>5. ASSUME tool = "attest-independent", DocInv, answer = "GREEN"
      PROVE  Founded
  <2>1. \A g \in E : Passed(g)
    BY <1>1, <1>2, <1>3, <1>4, <1>5, AllPassed
  <2>2. \A x \in Of("claim", {"envelope", "claimId", "signature", "signer"}) : Seen(x, {"ok"})
    BY <1>2, <2>1, WhatIsSeen
  <2>3. Stands = Promise(Of("claim", {"envelope", "claimId", "signature", "signer"}), {})
    BY <1>5 DEF Stands, If
  <2> QED BY <2>2, <2>3 DEF Founded, Promise
<1> QED BY <1>4, <1>5

(* bridge-build.                                                           *)
LEMMA BridgeBuildFounded ==
  /\ Sound("bridge-build")
  /\ tool = "bridge-build" /\ DocInv /\ answer = "GREEN" => Founded
<1>1. Gates("bridge-build") = BridgeBuild
  BY DEF Gates
<1>2. PICK E : /\ Row(BridgeBuild, E)
               /\ E = {Read("cert"), Needs("cert", "veridict"), Needs("cert", "fields")}
  BY BridgeBuildTable
<1>3. \A g \in E : g.given = {} /\ g.says # "GREEN"
  BY <1>2, GateKinds DEF Quiet
<1>4. Sound("bridge-build")
  BY <1>1, <1>2, <1>3, SoundQuiet DEF TakesTwice
<1>5. ASSUME tool = "bridge-build", DocInv, answer = "GREEN"
      PROVE  Founded
  <2>1. \A g \in E : Passed(g)
    BY <1>1, <1>2, <1>3, <1>4, <1>5, AllPassed
  <2>2. \A x \in Of("cert", {"veridict", "fields"}) : Seen(x, {"ok"})
    BY <1>2, <2>1, WhatIsSeen
  <2>3. Stands = Promise(Of("cert", {"veridict", "fields"}), {})
    BY <1>5 DEF Stands, If
  <2> QED BY <2>2, <2>3 DEF Founded, Promise
<1> QED BY <1>4, <1>5

(* bridge.                                                                 *)
LEMMA BridgeFounded ==
  /\ Sound("bridge")
  /\ tool = "bridge" /\ DocInv /\ answer = "GREEN" => Founded
<1>1. Gates("bridge") = BridgeVerify
  BY DEF Gates
<1>2. PICK E : /\ Row(BridgeVerify, E)
               /\ E = {Read("claim")}
                      \cup {Needs("claim", "type"), Needs("claim", "fields"), Needs("claim", "digest")}
                      \cup {Read("cert"), Needs("cert", "veridict"), Needs("cert", "fields")}
                      \cup {Needs("cert", "rebuilt"), Needs("claim", "limits")}
  BY BridgeTable
<1>3. \A g \in E : g.given = {} /\ g.says # "GREEN"
  BY <1>2, GateKinds DEF Quiet
<1>4. Sound("bridge")
  BY <1>1, <1>2, <1>3, SoundQuiet DEF TakesTwice
<1>5. ASSUME tool = "bridge", DocInv, answer = "GREEN"
      PROVE  Founded
  <2>1. \A g \in E : Passed(g)
    BY <1>1, <1>2, <1>3, <1>4, <1>5, AllPassed
  <2>2. \A x \in Of("cert", {"veridict", "fields"}) : Seen(x, {"ok"})
    <3>1. \A p \in {"veridict", "fields"} : Needs("cert", p) \in E
      BY <1>2
    <3> QED BY <2>1, <3>1, WhatIsSeen
  <2>3. \A x \in Of("claim", {"digest", "fields", "type", "limits"}) : Seen(x, {"ok"})
    <3>1. \A p \in {"digest", "fields", "type", "limits"} : Needs("claim", p) \in E
      BY <1>2
    <3> QED BY <2>1, <3>1, WhatIsSeen
  <2>4. \A x \in Of("cert", {"rebuilt"}) : Seen(x, {"ok"})
    <3>1. \A p \in {"rebuilt"} : Needs("cert", p) \in E
      BY <1>2
    <3> QED BY <2>1, <3>1, WhatIsSeen
  <2>5. Stands = Promise(Of("cert", {"veridict", "fields"})
                         \cup Of("claim", {"digest", "fields", "type", "limits"})
                         \cup Of("cert", {"rebuilt"}), {})
    BY <1>5 DEF Stands, If
  <2> QED BY <2>2, <2>3, <2>4, <2>5 DEF Founded, Promise
<1> QED BY <1>4, <1>5

(* liveness.                                                               *)
LEMMA LivenessFounded ==
  /\ Sound("liveness")
  /\ tool = "liveness" /\ DocInv /\ answer = "GREEN" => Founded
<1>1. Gates("liveness") = Liveness
  BY DEF Gates
<1>2. PICK E : /\ Row(Liveness, E)
               /\ E = {Read("argv"),
                       Says("argv", "max_age_blocks", {"bad", "unknown"}, "INDETERMINATE"),
                    Read("chain"), Says("chain", "latest", {"absent", "unknown"}, "INDETERMINATE"),
                    Says("chain", "latest", {"bad"}, "RED"),
                    Says("argv", "max_age_blocks", {"absent"}, "INDETERMINATE"),
                    Read("chain"), Withholds("chain", "past"), Withholds("chain", "span")}
  BY LivenessTable
<1>3. \A g \in E : g.given = {} /\ g.says # "GREEN"
  BY <1>2, GateKinds DEF Quiet
<1>4. Sound("liveness")
  BY <1>1, <1>2, <1>3, SoundQuiet DEF TakesTwice
<1>5. ASSUME tool = "liveness", DocInv, answer = "GREEN"
      PROVE  Founded
  <2>1. \A g \in E : Passed(g)
    BY <1>1, <1>2, <1>3, <1>4, <1>5, AllPassed
  <2>2. \A x \in Of("chain", {"past", "span"}) : Seen(x, {"ok"})
    BY <1>2, <2>1, WhatIsSeen
  <2>3. Stands = Promise(Of("chain", {"past", "span"}), {})
    BY <1>5 DEF Stands, If
  <2> QED BY <2>2, <2>3 DEF Founded, Promise
<1> QED BY <1>4, <1>5

(* tx.                                                                     *)
LEMMA TxFounded ==
  /\ Sound("tx")
  /\ tool = "tx" /\ DocInv /\ answer = "GREEN" => Founded
<1>1. Gates("tx") = VerifyTx
  BY DEF Gates
<1>2. PICK E : /\ Row(VerifyTx, E)
               /\ E = {Read("install"), Needs("install", "web3"), Read("chain"),
                       Needs("chain", "connected"), Read("chain")}
                    \cup {Needs("chain", "selector"), Needs("chain", "request_id"),
                          Needs("chain", "payload"), Needs("chain", "digest")}
  BY TxTable
<1>3. \A g \in E : g.given = {} /\ g.says # "GREEN"
  BY <1>2, GateKinds DEF Quiet
<1>4. Sound("tx")
  BY <1>1, <1>2, <1>3, SoundQuiet DEF TakesTwice
<1>5. ASSUME tool = "tx", DocInv, answer = "GREEN"
      PROVE  Founded
  <2>1. \A g \in E : Passed(g)
    BY <1>1, <1>2, <1>3, <1>4, <1>5, AllPassed
  <2>2. \A x \in Of("chain", {"selector", "request_id", "payload", "digest"}) : Seen(x, {"ok"})
    BY <1>2, <2>1, WhatIsSeen
  <2>3. Stands = Promise(Of("chain", {"selector", "request_id", "payload", "digest"}), {})
    BY <1>5 DEF Stands, If
  <2> QED BY <2>2, <2>3 DEF Founded, Promise
<1> QED BY <1>4, <1>5

(* bundle.                                                                 *)
LEMMA BundleFounded ==
  /\ Sound("bundle")
  /\ tool = "bundle" /\ DocInv /\ answer = "GREEN" => Founded
<1>1. Gates("bundle") = VerifyBundle
  BY DEF Gates
<1>2. PICK E : /\ Row(VerifyBundle, E)
               /\ E = {Read("bundle")}
                      \cup ({Needs("bundle", "payload"), Needs("bundle", "stamp"),
                             Needs("bundle", "snapshot"), Needs("bundle", "charge"),
                             Needs("bundle", "delivery")} \cup {IfGiven("bundle", "input")})
  BY BundleTable
<1>3. \A g \in E : g.given = {} /\ g.says # "GREEN"
  BY <1>2, GateKinds DEF Quiet
<1>4. Sound("bundle")
  BY <1>1, <1>2, <1>3, BundleTable, SoundQuiet
<1>5. ASSUME tool = "bundle", DocInv, answer = "GREEN"
      PROVE  Founded
  <2>1. \A g \in E : Passed(g)
    BY <1>1, <1>2, <1>3, <1>4, <1>5, AllPassed
  <2>2. \A x \in Of("bundle", {"payload", "stamp", "snapshot", "charge", "delivery"}) : Seen(x, {"ok"})
    BY <1>2, <2>1, WhatIsSeen
  <2>3. \A x \in Of("bundle", {"input"}) : Seen(x, {"ok", "absent"})
    BY <1>2, <2>1, WhatIsSeen
  <2>4. Stands = Promise(Of("bundle", {"payload", "stamp", "snapshot", "charge", "delivery"}),
                         Of("bundle", {"input"}))
    BY <1>5 DEF Stands, If
  <2> QED BY <2>2, <2>3, <2>4 DEF Founded, Promise
<1> QED BY <1>4, <1>5

(* sovereign-build.                                                        *)
LEMMA SovereignBuildFounded ==
  /\ Sound("sovereign-build")
  /\ tool = "sovereign-build" /\ DocInv /\ answer = "GREEN" => Founded
<1>1. Gates("sovereign-build") = SovereignBuild
  BY DEF Gates
<1>2. PICK E : /\ Row(SovereignBuild, E)
               /\ E = {Read("tamga"), Needs("tamga", "evidence"), Read("sester"),
                    IfGiven("sester", "evidence"), Read("veridict"), IfGiven("veridict", "evidence")}
  BY SovereignBuildTable
<1>3. \A g \in E : g.given = {} /\ g.says # "GREEN"
  BY <1>2, GateKinds DEF Quiet
<1>4. Sound("sovereign-build")
  BY <1>1, <1>2, <1>3, SovereignBuildTable, SoundQuiet
<1>5. ASSUME tool = "sovereign-build", DocInv, answer = "GREEN"
      PROVE  Founded
  <2>1. \A g \in E : Passed(g)
    BY <1>1, <1>2, <1>3, <1>4, <1>5, AllPassed
  <2>2. \A x \in Of("tamga", {"evidence"}) : Seen(x, {"ok"})
    BY <1>2, <2>1, WhatIsSeen
  <2>3. \A x \in Of("sester", {"evidence"}) : Seen(x, {"ok", "absent"})
    BY <1>2, <2>1, WhatIsSeen
  <2>4. \A x \in Of("veridict", {"evidence"}) : Seen(x, {"ok", "absent"})
    BY <1>2, <2>1, WhatIsSeen
  <2>5. Stands = Promise(Of("tamga", {"evidence"}), Of("sester", {"evidence"})
                         \cup Of("veridict", {"evidence"}))
    BY <1>5 DEF Stands, If
  <2> QED BY <2>2, <2>3, <2>4, <2>5 DEF Founded, Promise
<1> QED BY <1>4, <1>5

(* digest.                                                                 *)
LEMMA DigestFounded ==
  /\ Sound("digest")
  /\ tool = "digest" /\ DocInv /\ answer = "GREEN" => Founded
<1>1. Gates("digest") = CanonicalDigest
  BY DEF Gates
<1>2. PICK E : /\ Row(CanonicalDigest, E)
               /\ E = {Read("argv"), Read("doc"), Needs("doc", "json"),
                    Says("argv", "expect", {"absent"}, "MEASURED"), Needs("argv", "expect"),
                    Needs("doc", "digest")}
  BY DigestTable
<1>3. \A g \in E : g.given = {} /\ g.says # "GREEN"
  BY <1>2, GateKinds DEF Quiet
<1>4. Sound("digest")
  BY <1>1, <1>2, <1>3, DigestTable, SoundQuiet
<1>5. ASSUME tool = "digest", DocInv, answer = "GREEN"
      PROVE  Founded
  <2>1. \A g \in E : Passed(g)
    BY <1>1, <1>2, <1>3, <1>4, <1>5, AllPassed
  <2>2. \A x \in Of("doc", {"digest"}) : Seen(x, {"ok"})
    BY <1>2, <2>1, WhatIsSeen
  <2>3. Stands = Promise(Of("doc", {"digest"}), {})
    BY <1>5 DEF Stands, If
  <2> QED BY <2>2, <2>3 DEF Founded, Promise
<1> QED BY <1>4, <1>5

(* pugio.                                                                  *)
LEMMA PugioFounded ==
  /\ Sound("pugio")
  /\ tool = "pugio" /\ DocInv /\ answer = "GREEN" => Founded
<1>1. Gates("pugio") = Pugio
  BY DEF Gates
<1>2. PICK E : /\ Row(Pugio, E)
               /\ E = {Read("bundle")}
                      \cup {Needs("bundle", "version"), Needs("bundle", "events"),
                            Needs("bundle", "chain"), Needs("bundle", "head"),
                            Needs("bundle", "merkle_root"), Needs("bundle", "event_count")}
  BY PugioTable
<1>3. \A g \in E : g.given = {} /\ g.says # "GREEN"
  BY <1>2, GateKinds DEF Quiet
<1>4. Sound("pugio")
  BY <1>1, <1>2, <1>3, PugioTable, SoundQuiet
<1>5. ASSUME tool = "pugio", DocInv, answer = "GREEN"
      PROVE  Founded
  <2>1. \A g \in E : Passed(g)
    BY <1>1, <1>2, <1>3, <1>4, <1>5, AllPassed
  <2>2. \A x \in Of("bundle", {"chain", "head", "merkle_root", "event_count"}) : Seen(x, {"ok"})
    BY <1>2, <2>1, WhatIsSeen
  <2>3. Stands = Promise(Of("bundle", {"chain", "head", "merkle_root", "event_count"}), {})
    BY <1>5 DEF Stands, If
  <2> QED BY <2>2, <2>3 DEF Founded, Promise
<1> QED BY <1>4, <1>5

(* pugio-anchor.                                                           *)
LEMMA PugioAnchorFounded ==
  /\ Sound("pugio-anchor")
  /\ tool = "pugio-anchor" /\ DocInv /\ answer = "GREEN" => Founded
<1>1. Gates("pugio-anchor") = PugioAnchor
  BY DEF Gates
<1>2. PICK E : /\ Row(PugioAnchor, E)
               /\ E = {Read("line")}
                      \cup {Needs("line", "json"), Needs("line", "type"), Needs("line", "source"),
                            Needs("line", "version"), Needs("line", "fields"),
                            Needs("line", "anchor_id")}
  BY PugioAnchorTable
<1>3. \A g \in E : g.given = {} /\ g.says # "GREEN"
  BY <1>2, GateKinds DEF Quiet
<1>4. Sound("pugio-anchor")
  BY <1>1, <1>2, <1>3, PugioAnchorTable, SoundQuiet
<1>5. ASSUME tool = "pugio-anchor", DocInv, answer = "GREEN"
      PROVE  Founded
  <2>1. \A g \in E : Passed(g)
    BY <1>1, <1>2, <1>3, <1>4, <1>5, AllPassed
  <2>2. \A x \in Of("line", {"fields", "anchor_id"}) : Seen(x, {"ok"})
    BY <1>2, <2>1, WhatIsSeen
  <2>3. Stands = Promise(Of("line", {"fields", "anchor_id"}), {})
    BY <1>5 DEF Stands, If
  <2> QED BY <2>2, <2>3 DEF Founded, Promise
<1> QED BY <1>4, <1>5

(* attest: a label that is given is a known one.                           *)
LEMMA AttestFounded ==
  /\ Sound("attest")
  /\ tool = "attest" /\ DocInv /\ answer = "GREEN" => Founded
<1>1. Gates("attest") = Attest
  BY DEF Gates
<1>2. PICK E : /\ Row(Attest, E)
               /\ E = {Read("argv"), Read("claim"), Needs("claim", "json"),
                       Says("argv", "registry", {"bad", "unknown"}, "INDETERMINATE")}
                      \cup {Needs("claim", "envelope"), Needs("claim", "claimId"),
                            Needs("claim", "signature"), Needs("claim", "signer")}
  BY AttestTable
<1>3. \A g \in E : g.given = {} /\ g.says # "GREEN"
  BY <1>2, GateKinds DEF Quiet
<1>4. Sound("attest")
  BY <1>1, <1>2, <1>3, AttestTable, SoundQuiet
<1>5. ASSUME tool = "attest", DocInv, answer = "GREEN"
      PROVE  Founded
  <2>1. \A g \in E : Passed(g)
    BY <1>1, <1>2, <1>3, <1>4, <1>5, AllPassed
  <2>2. \A x \in Of("claim", {"envelope", "claimId", "signature", "signer"}) : Seen(x, {"ok"})
    BY <1>2, <2>1, WhatIsSeen
  <2>3. Seen(<<"argv", "registry">>, State \ {"bad", "unknown"})
    BY <1>2, <2>1, PassedSees
  <2>4. \A x \in Of("argv", {"registry"}) : Seen(x, {"ok", "absent"})
    BY <2>3 DEF Of, State, Spoiled, Seen
  <2>5. Stands = Promise(Of("claim", {"envelope", "claimId", "signature", "signer"}),
                         Of("argv", {"registry"}))
    BY <1>5 DEF Stands, If
  <2> QED BY <2>2, <2>4, <2>5 DEF Founded, Promise
<1> QED BY <1>4, <1>5

(* leaf: never GREEN.                                                      *)
LEMMA LeafFounded ==
  /\ Sound("leaf")
  /\ tool = "leaf" /\ DocInv /\ answer = "GREEN" => Founded
<1>1. Gates("leaf") = ForeignLeaf
  BY DEF Gates
<1>2. PICK E : /\ Row(ForeignLeaf, E)
               /\ E = {Read("leaf"), Says("leaf", "tag", {"absent"}, "INDETERMINATE"),
                       Needs("leaf", "digest"),
                       Says("leaf", "tag", State, "INDETERMINATE")}
  BY LeafTable
<1>3. \A g \in E : g.given = {} /\ g.says # "GREEN"
  BY <1>2, GateKinds DEF Quiet
<1>4. Sound("leaf")
  BY <1>1, <1>2, <1>3, LeafTable, SoundQuiet
<1>5. ASSUME tool = "leaf", DocInv, answer = "GREEN"
      PROVE  FALSE
  <2>1. \A g \in E : Passed(g)
    BY <1>1, <1>2, <1>3, <1>4, <1>5, AllPassed
  <2>2. Seen(<<"leaf", "tag">>, State \ State)
    BY <1>2, <2>1, PassedSees
  <2> QED BY <2>2 DEF Seen
<1> QED BY <1>4, <1>5

(* stamp: the two gates on the signature saw the same response.            *)
LEMMA StampFounded ==
  /\ Sound("stamp")
  /\ tool = "stamp" /\ DocInv /\ answer = "GREEN" => Founded
<1>1. Gates("stamp") = Stamp
  BY DEF Gates
<1>2. PICK E : /\ Row(Stamp, E)
               /\ E = {Read("response"), Read("ledger"), Needs("ledger", "chain")} \cup
                   ({Needs("response", "syntax"), Needs("response", "status")}
                    \cup {Needs("response", "token")}
                     \cup {IfGiven("response", "policy"), Needs("response", "imprint"),
                           IfGiven("response", "nonce")}
                     \cup {Says("response", "signature", {"bad"}, "RED"),
                           Says("response", "signature", {"unknown"}, "INDETERMINATE")})
  BY StampTable
<1>3. \A g \in E : g.given = {} /\ g.says # "GREEN"
  <2>1. \A w : Says("response", "signature", w, "RED").says # "GREEN"
               /\ Says("response", "signature", w, "INDETERMINATE").says # "GREEN"
    BY GateKinds
  <2> QED BY <1>2, <2>1, GateKinds DEF Quiet
<1>4. Sound("stamp")
  BY <1>1, <1>2, <1>3, StampTable, SoundQuiet
<1>5. ASSUME tool = "stamp", DocInv, answer = "GREEN"
      PROVE  Founded
  <2>1. \A g \in E : Passed(g)
    BY <1>1, <1>2, <1>3, <1>4, <1>5, AllPassed
  <2>2. \A x \in Of("ledger", {"chain"}) : Seen(x, {"ok"})
    BY <1>2, <2>1, WhatIsSeen
  <2>3. \A x \in Of("response", {"status", "token", "imprint"}) : Seen(x, {"ok"})
    BY <1>2, <2>1, WhatIsSeen
  <2>4. \A x \in Of("response", {"policy", "nonce"}) : Seen(x, {"ok", "absent"})
    BY <1>2, <2>1, WhatIsSeen
  <2>5. Seen(<<"response", "signature">>, State \ ({"bad"} \cup {"unknown"}))
    <3>1. \A i \in DOMAIN Stamp : Lasting(Stamp, i) => Stays(Stamp[i])
      BY <1>1, <1>2, <1>3, <1>4, <1>5, AllPassed
    <3>2. ASSUME NEW g \in E, g.kind = "test"
          PROVE  \E i \in DOMAIN Stamp : Stamp[i] = g /\ Lasting(Stamp, i)
      BY <1>2, <1>3, <3>2, StampTable, OnceLasting DEF Row
    <3>3. PICK g, h : /\ g = Says("response", "signature", {"bad"}, "RED")
                      /\ h = Says("response", "signature", {"unknown"}, "INDETERMINATE")
      OBVIOUS
    <3>4. g \in E /\ h \in E /\ g.kind = "test" /\ h.kind = "test"
      BY <1>2, <3>3, GateKinds
    <3>5. /\ \E i \in DOMAIN Stamp : Stamp[i] = g /\ Lasting(Stamp, i)
          /\ \E i \in DOMAIN Stamp : Stamp[i] = h /\ Lasting(Stamp, i)
      BY <3>2, <3>4
    <3> QED BY <3>1, <3>3, <3>5, LastingSees
  <2>6. \A x \in Of("response", {"signature"}) : Seen(x, {"ok", "absent"})
    BY <2>5 DEF Of, State, Spoiled, Seen
  <2>7. \A x \in Of("response", {"policy", "nonce", "signature"}) : Seen(x, {"ok", "absent"})
    BY <2>4, <2>6 DEF Of
  <2>8. Stands = Promise(Of("ledger", {"chain"}) \cup Of("response", {"status", "token", "imprint"}),
                         Of("response", {"policy", "nonce", "signature"}))
    BY <1>5 DEF Stands
  <2> QED BY <2>2, <2>3, <2>7, <2>8 DEF Founded, Promise
<1> QED BY <1>4, <1>5

(* cosign: past all gates, without a chain, or under another policy than   *)
(* L1.                                                                     *)
LEMMA CosignFounded ==
  /\ Sound("cosign")
  /\ tool = "cosign" /\ DocInv /\ answer = "GREEN" => Founded
<1>1. Gates("cosign") = Cosign
  BY DEF Gates
<1>2. PICK E : /\ Row(Cosign, E)
               /\ E = {Read("argv"), Read("snapshot"), Says("snapshot", "chain", {"absent"}, "GREEN"),
                       Needs("snapshot", "chain"), Says("argv", "cosign_policy", Spoiled, "GREEN")}
                 \cup {Needs("argv", "node_trust"), Needs("argv", "node_revoked")}
                 \cup {Needs("snapshot", "node_sig"), Needs("snapshot", "signature"),
                       Needs("snapshot", "unrevoked"), Needs("snapshot", "trusted")}
  BY CosignTable
<1>3. PICK a, b : /\ a = Says("snapshot", "chain", {"absent"}, "GREEN")
                  /\ b = Says("argv", "cosign_policy", Spoiled, "GREEN")
  OBVIOUS
<1>4. /\ \A g \in E : g.given = {}
      /\ \A g \in E : g.says = "GREEN" => g = a \/ g = b
  BY <1>2, <1>3, GateKinds DEF Quiet
<1>5. Sound("cosign")
  BY <1>1, <1>2, <1>4, CosignTable, SoundQuiet
<1>6. ASSUME tool = "cosign", DocInv, answer = "GREEN"
      PROVE  Founded
  <2>1. Stands = Promise(If(/\ taken["argv"].is[<<"argv", "cosign_policy">>] = "ok"
                            /\ Chosen("snapshot", "chain"),
                            Of("snapshot", {"node_sig", "signature", "unrevoked", "trusted"})),
                         Of("snapshot", {"chain"}))
    BY <1>6 DEF Stands
  <2>2. CASE \A g \in E : Passed(g)
    <3>1. \A x \in Of("snapshot", {"node_sig", "signature", "unrevoked", "trusted"}) : Seen(x, {"ok"})
      BY <1>2, <2>2, WhatIsSeen
    <3>2. \A x \in Of("snapshot", {"chain"}) : Seen(x, {"ok"})
      BY <1>2, <2>2, WhatIsSeen
    <3> QED BY <2>1, <3>1, <3>2 DEF Founded, Promise, If, Seen
  <2>3. CASE Cleared(a)
    <3>1. /\ taken["snapshot"].is[<<"snapshot", "chain">>] = "absent"
          /\ Seen(<<"snapshot", "chain">>, {"absent"})
      BY <1>3, <2>3, ClearedSees
    <3>2. \A x \in Of("snapshot", {"chain"}) : Seen(x, {"ok", "absent"})
      BY <3>1 DEF Of, Seen
    <3>3. Stands = Promise({}, Of("snapshot", {"chain"}))
      BY <2>1, <3>1 DEF If, Chosen
    <3> QED BY <3>2, <3>3 DEF Founded, Promise
  <2>4. CASE Cleared(b) /\ Passed(Needs("snapshot", "chain"))
    <3>1. taken["argv"].is[<<"argv", "cosign_policy">>] \in Spoiled
      BY <1>3, <2>4, ClearedSees
    <3>2. Seen(<<"snapshot", "chain">>, {"ok"})
      BY <2>4, PassedSees
    <3>3. \A x \in Of("snapshot", {"chain"}) : Seen(x, {"ok", "absent"})
      BY <3>2 DEF Of, Seen
    <3>4. Stands = Promise({}, Of("snapshot", {"chain"}))
      BY <2>1, <3>1 DEF If, Spoiled
    <3> QED BY <3>3, <3>4 DEF Founded, Promise
  <2>5. \/ \A g \in E : Passed(g)
        \/ \E g \in E : Cleared(g) /\ \A h : Preceded(Cosign, g, h) => Passed(h)
    BY <1>1, <1>2, <1>5, <1>6, SaidGreen
  <2>6. Cleared(b) /\ (\A h : Preceded(Cosign, b, h) => Passed(h)) => Passed(Needs("snapshot", "chain"))
    BY <1>3, CosignOrder
  <2>7. \A g : Cleared(g) => g.says = "GREEN"
    BY DEF Cleared
  <2> QED BY <1>4, <2>2, <2>3, <2>4, <2>5, <2>6, <2>7
<1> QED BY <1>5, <1>6

(* dispute: past all gates, without a pointer, or with one that is none or *)
(* resolved.                                                               *)
LEMMA DisputeFounded ==
  /\ Sound("dispute")
  /\ tool = "dispute" /\ DocInv /\ answer = "GREEN" => Founded
<1>1. Gates("dispute") = Dispute
  BY DEF Gates
<1>2. PICK E : /\ Row(Dispute, E)
               /\ E = {Read("charge"), Needs("charge", "settlement_bind"),
                       Needs("charge", "delivery_hash"),
                    Says("charge", "dispute_pointer", {"absent"}, "GREEN"),
                    Needs("charge", "dispute_pointer"),
                    Says("charge", "status", {"ok"}, "GREEN"),
                    Gate("test", "charge", "counter_claim", Spoiled, "RED",
                         {Is("charge", "status", {"bad"})}),
                    Needs("charge", "arbitration"), Needs("charge", "bond_pct"),
                    Withholds("charge", "protocol"),
                    Says("charge", "status", Spoiled, "INDETERMINATE")}
  BY DisputeTable
<1>3. PICK a, b, c : /\ a = Says("charge", "dispute_pointer", {"absent"}, "GREEN")
                     /\ b = Says("charge", "status", {"ok"}, "GREEN")
                     /\ c = Gate("test", "charge", "counter_claim", Spoiled, "RED",
                                 {Is("charge", "status", {"bad"})})
  OBVIOUS
<1>4. c.says # "GREEN"
  BY <1>3 DEF Gate
<1>5. \A g \in E : g.says = "GREEN" => g = a \/ g = b
  BY <1>2, <1>3, <1>4, GateKinds DEF Quiet
<1>6. Sound("dispute")
  <2>1. PICK S : Dispute \in Seq(S)
    BY <1>2 DEF Row, List
  <2>2. DOMAIN Dispute = 1..Len(Dispute) /\ Len(Dispute) \in Nat
    BY <2>1, LenProperties
  <2> QED BY <1>1, <2>2, DisputeTable DEF Sound
<1>7. ASSUME tool = "dispute", DocInv, answer = "GREEN"
      PROVE  Founded
  <2>1. Stands = Promise(Of("charge", {"settlement_bind", "delivery_hash"})
                           \cup If(Chosen("charge", "dispute_pointer"), Of("charge", {"status"})),
                         Of("charge", {"dispute_pointer"}))
    BY <1>7 DEF Stands
  <2>2. ASSUME Passed(Needs("charge", "settlement_bind")), Passed(Needs("charge", "delivery_hash"))
        PROVE  \A x \in Of("charge", {"settlement_bind", "delivery_hash"}) : Seen(x, {"ok"})
    BY <2>2, PassedSees DEF Of
  <2>3. ASSUME Passed(Needs("charge", "dispute_pointer"))
        PROVE  \A x \in Of("charge", {"dispute_pointer"}) : Seen(x, {"ok", "absent"})
    BY <2>3, PassedSees DEF Of, Seen
  <2>4. CASE \A g \in E : Passed(g)
    <3>1. /\ Passed(Needs("charge", "settlement_bind")) /\ Passed(Needs("charge", "delivery_hash"))
          /\ Passed(Needs("charge", "dispute_pointer"))
          /\ Passed(Says("charge", "status", Spoiled, "INDETERMINATE"))
      BY <1>2, <2>4
    <3>2. Seen(<<"charge", "status">>, State \ Spoiled)
      BY <3>1, PassedSees
    <3>3. \A x \in Of("charge", {"status"}) : Seen(x, {"ok"})
      BY <3>2 DEF Of, Seen, State
    <3> QED BY <2>1, <2>2, <2>3, <3>1, <3>3 DEF Founded, Promise, If
  <2>5. CASE /\ Cleared(a) /\ Passed(Needs("charge", "settlement_bind"))
             /\ Passed(Needs("charge", "delivery_hash"))
    <3>1. /\ taken["charge"].is[<<"charge", "dispute_pointer">>] = "absent"
          /\ Seen(<<"charge", "dispute_pointer">>, {"absent"})
      BY <1>3, <2>5, ClearedSees
    <3>2. \A x \in Of("charge", {"dispute_pointer"}) : Seen(x, {"ok", "absent"})
      BY <3>1 DEF Of, Seen
    <3>3. Stands = Promise(Of("charge", {"settlement_bind", "delivery_hash"}) \cup {},
                           Of("charge", {"dispute_pointer"}))
      BY <2>1, <3>1 DEF If, Chosen
    <3> QED BY <2>2, <2>5, <3>2, <3>3 DEF Founded, Promise
  <2>6. CASE /\ Cleared(b) /\ Passed(Needs("charge", "settlement_bind"))
             /\ Passed(Needs("charge", "delivery_hash"))
             /\ Passed(Needs("charge", "dispute_pointer"))
    <3>1. Seen(<<"charge", "status">>, {"ok"})
      BY <1>3, <2>6, ClearedSees
    <3>2. \A x \in Of("charge", {"status"}) : Seen(x, {"ok"})
      BY <3>1 DEF Of, Seen
    <3> QED BY <2>1, <2>2, <2>3, <2>6, <3>2 DEF Founded, Promise, If
  <2>7. \/ \A g \in E : Passed(g)
        \/ \E g \in E : Cleared(g) /\ \A h : Preceded(Dispute, g, h) => Passed(h)
    BY <1>1, <1>2, <1>6, <1>7, SaidGreen
  <2>8. \A g : Cleared(g) => g.says = "GREEN"
    BY DEF Cleared
  <2>9. CASE \E g \in {a, b} : Cleared(g) /\ \A h : Preceded(Dispute, g, h) => Passed(h)
    BY <1>3, <2>5, <2>6, <2>9, DisputeOrder
  <2> QED BY <1>5, <2>4, <2>7, <2>8, <2>9
<1> QED BY <1>6, <1>7

(* settle: a foreign head is tested whenever its proof is given.           *)
LEMMA SettleFounded ==
  /\ Sound("settle")
  /\ tool = "settle" /\ DocInv /\ answer = "GREEN" => Founded
<1>1. Gates("settle") = Settle
  BY DEF Gates
<1>2. PICK E : /\ Row(Settle, E) /\ Once(Settle) /\ Steady(Settle)
               /\ E = {Read("charge"), Read("claim"), Needs("charge", "settlement_bind"),
                       Withholds("charge", "scheme"), Needs("charge", "delivery_hash")}
                \cup {Needs("claim", "signature")}
                \cup {Needs("claim", "settlementRef"), Needs("claim", "buyer")}
                \cup {IfGiven("claim", "seller"), Needs("claim", "evidenceHash")}
                \cup {IfGiven("charge", "foreign_chain_proof"),
                      ReadIf("source", {Given("charge", "foreign_chain_proof")}),
                      Gate("test", "source", "head", Spoiled \ {"absent"}, "RED",
                           {Given("charge", "foreign_chain_proof")})}
                \cup {IfGiven("charge", "submitter")}
  BY SettleTable
<1>3. PICK a, b, c, d : /\ c = Given("charge", "foreign_chain_proof") /\ a = ReadIf("source", {c})
                     /\ b = Gate("test", "source", "head", Spoiled \ {"absent"}, "RED", {c})
                     /\ d = Read("charge")
  OBVIOUS
<1>4. /\ a.given = {c} /\ b.given = {c} /\ c.file = "charge" /\ d.file = "charge"
      /\ a.says # "GREEN" /\ b.says # "GREEN"
  BY <1>3 DEF ReadIf, Read, Gate, Given, Is
<1>5. a \in E /\ b \in E /\ d \in E
  BY <1>2, <1>3
<1>6. \A g \in E : g = a \/ g = b \/ Quiet(g)
  BY <1>2, <1>3, GateKinds
<1>7. Sound("settle")
  <2>1. \A g \in E : \A x \in g.given : \E h \in E : h.file = x.file
    BY <1>4, <1>5, <1>6 DEF Quiet
  <2>2. Row(Settle, E) /\ Once(Settle) /\ Steady(Settle)
    BY <1>2
  <2> QED BY <1>1, <2>1, <2>2, SoundTable
<1>8. ASSUME tool = "settle", DocInv, answer = "GREEN"
      PROVE  Founded
  <2>1. \A g \in E : Passed(g)
    <3>1. \A g \in E : g.says # "GREEN"
      BY <1>4, <1>6 DEF Quiet
    <3> QED BY <1>1, <1>2, <1>7, <1>8, <3>1, AllPassed
  <2>2. \A x \in Of("charge", {"settlement_bind", "scheme", "delivery_hash"}) : Seen(x, {"ok"})
    <3>1. /\ Needs("charge", "settlement_bind") \in E /\ Needs("charge", "delivery_hash") \in E
          /\ Withholds("charge", "scheme") \in E
      BY <1>2
    <3> QED BY <2>1, <3>1, WhatIsSeen
  <2>3. \A x \in Of("claim", {"signature", "settlementRef", "buyer", "evidenceHash"}) : Seen(x, {"ok"})
    <3>1. \A p \in {"signature", "settlementRef", "buyer", "evidenceHash"} : Needs("claim", p) \in E
      BY <1>2
    <3> QED BY <2>1, <3>1, WhatIsSeen
  <2>4. \A x \in Of("claim", {"seller"}) \cup Of("charge", {"foreign_chain_proof", "submitter"}) :
          Seen(x, {"ok", "absent"})
    <3>1. /\ IfGiven("claim", "seller") \in E /\ IfGiven("charge", "submitter") \in E
          /\ IfGiven("charge", "foreign_chain_proof") \in E
      BY <1>2
    <3>2. \A x \in Of("claim", {"seller"}) : Seen(x, {"ok", "absent"})
      BY <2>1, <3>1, WhatIsSeen
    <3>3. \A x \in Of("charge", {"foreign_chain_proof", "submitter"}) : Seen(x, {"ok", "absent"})
      BY <2>1, <3>1, WhatIsSeen
    <3> QED BY <3>2, <3>3
  <2>5. ASSUME Chosen("charge", "foreign_chain_proof")
        PROVE  \A x \in Of("source", {"head"}) : Seen(x, {"ok", "absent"})
    <3>1. PICK i \in DOMAIN Settle : Settle[i] = b
      BY <1>2, <1>5 DEF Row
    <3>2. PICK w : w = State \ {"absent"} /\ c = Is("charge", "foreign_chain_proof", w)
      BY <1>3 DEF Given
    <3>3. taken["charge"].is[<<"charge", "foreign_chain_proof">>] \in w
      <4>1. taken["charge"].is[<<"charge", "foreign_chain_proof">>] \in State
        BY <1>1, <1>4, <1>7, <1>8, <3>1, <3>2, ConditionHolds DEF DocInv
      <4> QED BY <2>5, <3>2, <4>1 DEF Chosen
    <3>4. \A x \in {c} : taken[x.file].is[<<x.file, x.piece>>] \in x.states
      BY <1>1, <1>4, <1>7, <1>8, <3>1, <3>2, <3>3, ConditionHolds DEF DocInv
    <3>5. Seen(<<"source", "head">>, State \ (Spoiled \ {"absent"}))
      BY <1>3, <1>5, <2>1, <3>4, GivenSees
    <3> QED BY <3>5 DEF Of, Seen, State, Spoiled
  <2>6. Stands = Promise(Of("charge", {"settlement_bind", "scheme", "delivery_hash"})
                           \cup Of("claim", {"signature", "settlementRef", "buyer", "evidenceHash"}),
                         Of("claim", {"seller"}) \cup Of("charge", {"foreign_chain_proof", "submitter"})
                           \cup If(Chosen("charge", "foreign_chain_proof"), Of("source", {"head"})))
    BY <1>8 DEF Stands
  <2> QED BY <2>2, <2>3, <2>4, <2>5, <2>6 DEF Founded, Promise, If
<1> QED BY <1>7, <1>8

(* sovereign: every product claimed as proved was rechecked.               *)
LEMMA SovereignFounded ==
  /\ Sound("sovereign")
  /\ tool = "sovereign" /\ DocInv /\ answer = "GREEN" => Founded
<1>1. Gates("sovereign") = SovereignVerify
  BY DEF Gates
<1>2. PICK E : /\ Row(SovereignVerify, E) /\ Once(SovereignVerify) /\ Steady(SovereignVerify)
               /\ \A g \in E : \A c \in g.given : c.file = "anchor"
               /\ E = {Read("anchor")}
                \cup {Needs("anchor", "type"), Needs("anchor", "root"), Needs("anchor", "lists"),
                      Needs("anchor", "proved"), Needs("anchor", "verdicts")}
                \cup {Says("anchor", "sources", Spoiled, "UNVERIFIED")}
                \cup {RecheckRead("tamga"), RecheckTest("tamga")}
                \cup {RecheckRead("sester"), RecheckTest("sester")}
                \cup {RecheckRead("veridict"), RecheckTest("veridict")}
                \cup {SovereignEnd}
  BY SovereignTable
<1>3. Sound("sovereign")
  <2>1. Read("anchor") \in E /\ Read("anchor").file = "anchor"
    BY <1>2, GateKinds
  <2>2. \A g \in E : \A x \in g.given : \E h \in E : h.file = x.file
    BY <1>2, <2>1
  <2> QED BY <1>1, <1>2, <2>2, SoundTable
<1>4. \A g \in E : g.says # "GREEN"
  <2>1. \A p : RecheckRead(p).says # "GREEN" /\ RecheckTest(p).says # "GREEN"
    BY DEF RecheckRead, RecheckTest, ReadIf, Gate
  <2>2. SovereignEnd.says # "GREEN"
    BY DEF SovereignEnd, Gate
  <2>3. Says("anchor", "sources", Spoiled, "UNVERIFIED").says # "GREEN"
    BY DEF Says, Gate
  <2>4. Read("anchor").says # "GREEN" /\ \A p : Needs("anchor", p).says # "GREEN"
    BY GateKinds DEF Quiet
  <2> QED BY <1>2, <2>1, <2>2, <2>3, <2>4
<1>5. ASSUME tool = "sovereign", DocInv, answer = "GREEN"
      PROVE  Founded
  <2>1. \A g \in E : Passed(g)
    BY <1>1, <1>2, <1>3, <1>4, <1>5, AllPassed
  <2>2. \A x \in Of("anchor", {"root", "lists", "proved", "verdicts"}) : Seen(x, {"ok"})
    <3>1. \A p \in {"root", "lists", "proved", "verdicts"} : Needs("anchor", p) \in E
      BY <1>2
    <3> QED BY <2>1, <3>1, WhatIsSeen
  <2>3. \A x \in Of("anchor", {"sources"}) : Seen(x, {"ok"})
    <3>1. Seen(<<"anchor", "sources">>, State \ Spoiled)
      BY <1>2, <2>1, PassedSees
    <3> QED BY <3>1 DEF Of, Seen, State
  <2>4. ASSUME NEW p \in Products, taken["anchor"].is[<<"anchor", p>>] = "ok"
        PROVE  \A x \in Of(p, {"evidence"}) : Seen(x, {"ok"})
    <3>1. RecheckTest(p) \in E
      BY <1>2, <2>4 DEF Products
    <3>2. PICK c : c = Is("anchor", p, {"ok"})
      OBVIOUS
    <3>3. c.file = "anchor" /\ c.piece = p /\ c.states = {"ok"}
      BY <3>2 DEF Is
    <3>4. Passed(Gate("test", p, "evidence", Spoiled, "RED", {c}))
      BY <2>1, <3>1, <3>2 DEF RecheckTest
    <3>5. \A x \in {c} : taken[x.file].is[<<x.file, x.piece>>] \in x.states
      BY <2>4, <3>3
    <3>6. Seen(<<p, "evidence">>, State \ Spoiled)
      BY <3>4, <3>5, GivenSees
    <3> QED BY <3>6 DEF Of, Seen, State
  <2>5. Stands = Promise(Of("anchor", {"root", "lists", "proved", "verdicts", "sources"})
                   \cup UNION {If(taken["anchor"].is[<<"anchor", p>>] = "ok", Of(p, {"evidence"})) :
                                 p \in Products}, {})
    BY <1>5 DEF Stands
  <2>6. \A x \in Of("anchor", {"root", "lists", "proved", "verdicts", "sources"}) : Seen(x, {"ok"})
    BY <2>2, <2>3 DEF Of
  <2>7. \A x \in UNION {If(taken["anchor"].is[<<"anchor", p>>] = "ok",
                           Of(p, {"evidence"})) : p \in Products} :
          Seen(x, {"ok"})
    BY <2>4 DEF If
  <2> QED BY <2>5, <2>6, <2>7 DEF Founded, Promise
<1> QED BY <1>3, <1>5

(* epoch: past all gates, or without --rpc.                                *)
LEMMA EpochFounded ==
  /\ Sound("epoch")
  /\ tool = "epoch" /\ DocInv /\ answer = "GREEN" => Founded
<1>1. Gates("epoch") = Epoch
  BY DEF Gates
<1>2. PICK E :
         /\ Row(Epoch, E) /\ Steady(Epoch)
         /\ E = {Read("argv"), Read("proof")}
                \cup {Needs("proof", "fields"), Needs("proof", "inclusion")}
                \cup {RpcAsked, Says("argv", "rpc", {"bad", "unknown"}, "INDETERMINATE"),
                      Says("argv", "chainid", {"bad", "unknown"}, "INDETERMINATE")}
                \cup {ReadIf("chain", {Given("argv", "chainid")}), NodeTest, Read("chain"),
                      Says("chain", "epoch", {"absent", "unknown"}, "INDETERMINATE"),
                      Says("chain", "count", {"unknown"}, "INDETERMINATE"),
                      Says("chain", "epoch", {"bad"}, "RED"), Says("chain", "count", {"bad"}, "RED")}
         /\ \A g \in {Says("chain", "epoch", {"absent", "unknown"}, "INDETERMINATE"),
                      Says("chain", "count", {"unknown"}, "INDETERMINATE"),
                      Says("chain", "epoch", {"bad"}, "RED"), Says("chain", "count", {"bad"}, "RED")} :
              \E i \in DOMAIN Epoch : Epoch[i] = g /\ Lasting(Epoch, i)
         /\ Preceded(Epoch, RpcAsked, Needs("proof", "fields"))
         /\ Preceded(Epoch, RpcAsked, Needs("proof", "inclusion"))
  BY EpochTable
<1>3. PICK a, b, c, d : /\ c = Given("argv", "chainid") /\ a = ReadIf("chain", {c}) /\ b = NodeTest
                        /\ d = Read("argv")
  OBVIOUS
<1>4. /\ a.given = {c} /\ b.given = {c} /\ c.file = "argv" /\ d.file = "argv"
      /\ a.says # "GREEN" /\ b.says # "GREEN"
  BY <1>3 DEF ReadIf, Read, NodeTest, Gate, Given, Is
<1>5. a \in E /\ b \in E /\ d \in E
  BY <1>2, <1>3
<1>6. /\ RpcAsked.given = {}
      /\ \A f, p, w : Quiet(Says(f, p, w, "INDETERMINATE")) /\ Quiet(Says(f, p, w, "RED"))
      /\ \A f, p : Quiet(Needs(f, p)) /\ Quiet(Read(f))
  BY DEF RpcAsked, Needs, Read, ReadIf, Says, Gate, Quiet
<1>7. \A g \in E : g = a \/ g = b \/ g = RpcAsked \/ Quiet(g)
  BY <1>2, <1>3, <1>6
<1>8. Sound("epoch")
  <2>1. \A g \in E : \A x \in g.given : \E h \in E : h.file = x.file
    BY <1>4, <1>5, <1>6, <1>7 DEF Quiet
  <2>2. Row(Epoch, E) /\ Steady(Epoch)
    BY <1>2
  <2> QED BY <1>1, <2>1, <2>2, SoundTable DEF TakesTwice
<1>9. ASSUME tool = "epoch", DocInv, answer = "GREEN"
      PROVE  Founded
  <2>1. Stands = Promise(Of("proof", {"fields", "inclusion"})
                   \cup If(Chosen("argv", "rpc"),
                           Of("chain", {"epoch"})
                           \cup If(Chosen("argv", "chainid"), Of("chain", {"id"}))),
                 If(Chosen("argv", "rpc"), Of("chain", {"count"})))
    BY <1>9 DEF Stands
  <2>2. ASSUME Passed(Needs("proof", "fields")), Passed(Needs("proof", "inclusion"))
        PROVE  \A x \in Of("proof", {"fields", "inclusion"}) : Seen(x, {"ok"})
    BY <2>2, PassedSees DEF Of
  <2>3. CASE /\ \A g \in E : Passed(g)
             /\ \A i \in DOMAIN Epoch : Lasting(Epoch, i) => Stays(Epoch[i])
    <3>1. Passed(Needs("proof", "fields")) /\ Passed(Needs("proof", "inclusion"))
      BY <1>2, <2>3
    <3>2. Seen(<<"chain", "epoch">>, State \ ({"absent", "unknown"} \cup {"bad"}))
      <4>1. /\ \E i \in DOMAIN Epoch :
                Epoch[i] = Says("chain", "epoch", {"absent", "unknown"},
                                "INDETERMINATE") /\ Lasting(Epoch, i)
            /\ \E i \in DOMAIN Epoch :
                Epoch[i] = Says("chain", "epoch", {"bad"}, "RED") /\ Lasting(Epoch, i)
        BY <1>2
      <4> QED BY <2>3, <4>1, LastingSees
    <3>3. Seen(<<"chain", "count">>, State \ ({"unknown"} \cup {"bad"}))
      <4>1. /\ \E i \in DOMAIN Epoch :
                Epoch[i] = Says("chain", "count", {"unknown"}, "INDETERMINATE") /\ Lasting(Epoch, i)
            /\ \E i \in DOMAIN Epoch :
                Epoch[i] = Says("chain", "count", {"bad"}, "RED") /\ Lasting(Epoch, i)
        BY <1>2
      <4> QED BY <2>3, <4>1, LastingSees
    <3>4. \A x \in Of("chain", {"epoch"}) : Seen(x, {"ok"})
      BY <3>2 DEF Of, Seen, State, Spoiled
    <3>5. \A x \in Of("chain", {"count"}) : Seen(x, {"ok", "absent"})
      BY <3>3 DEF Of, Seen, State, Spoiled
    <3>6. ASSUME Chosen("argv", "chainid")
          PROVE  \A x \in Of("chain", {"id"}) : Seen(x, {"ok"})
      <4>1. PICK i \in DOMAIN Epoch : Epoch[i] = b
        BY <1>2, <1>5 DEF Row
      <4>2. PICK w : w = State \ {"absent"} /\ c = Is("argv", "chainid", w)
        BY <1>3 DEF Given
      <4>3. taken["argv"].is[<<"argv", "chainid">>] \in w
        <5>1. taken["argv"].is[<<"argv", "chainid">>] \in State
          BY <1>1, <1>4, <1>8, <1>9, <4>1, <4>2, ConditionHolds DEF DocInv
        <5> QED BY <3>6, <4>2, <5>1 DEF Chosen
      <4>4. \A x \in {c} : taken[x.file].is[<<x.file, x.piece>>] \in x.states
        BY <1>1, <1>4, <1>8, <1>9, <4>1, <4>2, <4>3, ConditionHolds DEF DocInv
      <4>5. Passed(Gate("test", "chain", "id", Spoiled, "INDETERMINATE", {c}))
        BY <1>3, <1>5, <2>3 DEF NodeTest
      <4>6. Seen(<<"chain", "id">>, State \ Spoiled)
        BY <4>4, <4>5, GivenSees
      <4> QED BY <4>6 DEF Of, Seen, State
    <3> QED BY <2>1, <2>2, <3>1, <3>4, <3>5, <3>6 DEF Founded, Promise, If
  <2>4. CASE /\ Cleared(RpcAsked) /\ Passed(Needs("proof", "fields"))
             /\ Passed(Needs("proof", "inclusion"))
    <3>1. taken["argv"].is[<<"argv", "rpc">>] = "absent"
      BY <2>4, ClearedSees DEF RpcAsked
    <3>2. Stands = Promise(Of("proof", {"fields", "inclusion"}) \cup {}, {})
      BY <2>1, <3>1 DEF If, Chosen
    <3> QED BY <2>2, <2>4, <3>2 DEF Founded, Promise
  <2>5. \/ /\ \A g \in E : Passed(g)
           /\ \A i \in DOMAIN Epoch : Lasting(Epoch, i) => Stays(Epoch[i])
        \/ \E g \in E : Cleared(g) /\ \A h : Preceded(Epoch, g, h) => Passed(h)
    BY <1>1, <1>2, <1>8, <1>9, SaidGreen
  <2>6. \A g \in E : Cleared(g) => g = RpcAsked
    BY <1>4, <1>7 DEF Cleared, Quiet
  <2> QED BY <1>2, <2>3, <2>4, <2>5, <2>6
<1> QED BY <1>8, <1>9
(* The tables of all tools are sound.                                      *)
LEMMA ToolsSound == \A t \in Tools : Sound(t)
BY KokFounded, AttestIndependentFounded, BridgeBuildFounded, BridgeFounded, LivenessFounded, TxFounded,
   BundleFounded, SovereignBuildFounded, DigestFounded, PugioFounded, PugioAnchorFounded, AttestFounded,
   LeafFounded, StampFounded, CosignFounded, DisputeFounded, SettleFounded, SovereignFounded,
   EpochFounded DEF Tools

(* The invariant says that GREEN is grounded.                              *)
LEMMA GreenFounded == DocInv => GreenIsGrounded
<1> SUFFICES ASSUME DocInv, answer = "GREEN"
             PROVE  Founded /\ (tool \notin TakesTwice => \A l \in looked : l.ver = taken[l.of[1]].ver)
  BY DEF GreenIsGrounded, Founded
<1>1. tool \in Tools
  BY DEF DocInv, DocTypes
<1>2. Founded
  BY <1>1, KokFounded, AttestIndependentFounded, BridgeBuildFounded, BridgeFounded, LivenessFounded,
     TxFounded,
   BundleFounded, SovereignBuildFounded, DigestFounded, PugioFounded, PugioAnchorFounded, AttestFounded,
   LeafFounded, StampFounded, CosignFounded, DisputeFounded, SettleFounded, SovereignFounded,
   EpochFounded DEF Tools
<1>3. tool \notin TakesTwice => \A l \in looked : l.ver = taken[l.of[1]].ver
  BY DEF DocInv, VersionInv
<1> QED BY <1>2, <1>3

(* Every step of Evidence keeps the invariant.                             *)
LEMMA DocStep == DocInv /\ [Package \/ Document]_evidenceVars => DocInv'
<1> SUFFICES ASSUME DocInv, [Package \/ Document]_evidenceVars
             PROVE  DocInv'
  OBVIOUS
<1>1. CASE DocNext
  <2>1. Sound(tool)
    BY ToolsSound DEF DocInv, DocTypes
  <2> QED BY <1>1, <2>1, ToolsSound, TypesKept, PassedKept, LastingKept, GreenKept, VersionKept
            DEF DocInv
<1>2. CASE UNCHANGED docVars
  <2>1. UNCHANGED <<tool, at, source, taken, looked, verdict, answer>>
    BY <1>2 DEF docVars
  <2>2. DocTypes'
    BY <2>1 DEF DocInv, DocTypes, Copies, Pieces
  <2>3. PassedInv'
    BY <2>1 DEF DocInv, PassedInv, Passed, Holds
  <2>4. LastingInv'
    BY <2>1 DEF DocInv, LastingInv, Stays, Now
  <2>5. GreenInv'
    BY <2>1 DEF DocInv, GreenInv, Cleared, Now
  <2>6. VersionInv'
    BY <2>1 DEF DocInv, VersionInv
  <2> QED BY <2>2, <2>3, <2>4, <2>5, <2>6 DEF DocInv
<1> QED BY <1>1, <1>2 DEF Package, Document, evidenceVars

(* What the gates behind have seen, in every state of every run.           *)
THEOREM DocInvariant == EvidenceSpec => []DocInv
<1>1. EvidenceInit => DocInv
  BY DocStarts, ToolsSound DEF EvidenceInit
<1> QED BY <1>1, DocStep, PTL DEF EvidenceSpec

(* GreenIsGrounded: the verdict of every tool, told in a shell or over     *)
(* MCP, stands for what its gates looked at, however often the sources are *)
(* replaced while it runs.                                                 *)
THEOREM Grounded == EvidenceSpec => []GreenIsGrounded
BY DocInvariant, GreenFounded, PTL
=============================================================================
