---------------------------- MODULE LedgerChain ----------------------------
(***************************************************************************)
(* The hash chain of ledger.jsonl: what a line is, what the verifier core  *)
(* accepts (tamga_runner._verify_chain) and what the append path computes  *)
(* and writes (tamga_runner._ledger_append_impl).                          *)
(*                                                                         *)
(* The SHA-256 of prev || jcs(record) is modelled as the history it        *)
(* commits to: two digests are equal exactly when the records and their    *)
(* predecessors are.  A digest is thus the sequence of the entries hashed  *)
(* so far, and the genesis tip "0"*64 is the empty sequence.               *)
(***************************************************************************)
EXTENDS Naturals, Sequences

CONSTANTS
  Body,   \* what a record says, apart from seq, prev and h
  Torn,   \* a last line cut short by a crash: no newline after it
  Junk    \* a terminated line that does not parse as a record

Entry   == [seq : Nat, body : Body]
Digest  == Seq(Entry)
Genesis == << >>
Record  == [seq : Nat, prev : Digest, body : Body, h : Digest]
Line    == Record \cup {Torn, Junk}

IsRecord(line)  == line \notin {Torn, Junk}
AllRecords(log) == \A i \in 1..Len(log) : IsRecord(log[i])

(***************************************************************************)
(* h = sha256(prev || jcs(record without h and node_sig)).                 *)
(***************************************************************************)
Hash(prev, seq, body) == Append(prev, [seq |-> seq, body |-> body])

(***************************************************************************)
(* Line i is the i-th record, carries the h of the line before it, and its *)
(* own h recomputes.  A line that does not parse reaches the verifier as   *)
(* an empty record and fails the test on prev.                             *)
(***************************************************************************)
Links(log, i) ==
  /\ IsRecord(log[i])
  /\ log[i].prev = IF i = 1 THEN Genesis ELSE log[i - 1].h
  /\ log[i].h = Hash(log[i].prev, log[i].seq, log[i].body)
  /\ log[i].seq = i

ChainOk(log) == \A i \in 1..Len(log) : Links(log, i)

\* The tip a verified chain ends in.
ChainTip(log) == IF log = << >> THEN Genesis ELSE log[Len(log)].h

\* The tip hash is a member of the chain (F21).
TipInChain(log, tip) == \E i \in 1..Len(log) : IsRecord(log[i]) /\ log[i].h = tip

-----------------------------------------------------------------------------
(***************************************************************************)
(* The append path scans every line, counts all of them, and takes the     *)
(* last one that parses as its predecessor, whatever follows it.           *)
(***************************************************************************)
RecordsIn(log) == {i \in 1..Len(log) : IsRecord(log[i])}

CanAppend(log) == log = << >> \/ RecordsIn(log) # {}

\* Mutated form: the scan keeps the first record instead of the last.
PredecessorHashFirst(log) ==
  IF log = << >>
  THEN Genesis
  ELSE log[CHOOSE i \in RecordsIn(log) : \A j \in RecordsIn(log) : i <= j].h

PredecessorHash(log) ==
  IF log = << >>
  THEN Genesis
  ELSE log[CHOOSE i \in RecordsIn(log) : \A j \in RecordsIn(log) : j <= i].h

NextRecord(log, body) ==
  LET seq  == Len(log) + 1
      prev == PredecessorHash(log)
  IN  [seq |-> seq, prev |-> prev, body |-> body, h |-> Hash(prev, seq, body)]

EndsTorn(log) == log # << >> /\ log[Len(log)] = Torn

\* What is written next begins a line of its own.  A file is open when its last
\* line is a whole record, which reads and verifies, but for the newline.
Ended(log, open) == ~open /\ ~EndsTorn(log)

(***************************************************************************)
(* O_APPEND adds the bytes of the line and its newline at the end of the   *)
(* file; where the last line has no newline they join it, and make it one  *)
(* line that does not parse, whether it did so before or not.              *)
(***************************************************************************)
\* Mutated form: the file is opened for writing instead of appending.
WithLineTruncating(log, open, rec) == <<rec>>

WithLine(log, open, rec) ==
  IF Ended(log, open) THEN Append(log, rec) ELSE [log EXCEPT ![Len(log)] = Junk]

\* Only a part of the line reached the file.
WithTornLine(log, open) ==
  IF Ended(log, open) THEN Append(log, Torn) ELSE [log EXCEPT ![Len(log)] = Torn]
=============================================================================
