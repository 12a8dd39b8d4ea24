--------------------------- MODULE LedgerReaders ---------------------------
(***************************************************************************)
(* Who writes ledger.jsonl and who reads it: the commands that append a    *)
(* charge, a grant, an anchor, a compute-anchor or a migrate-net;          *)
(* ledger-verify, which reads the file three times; the evidence bundle,   *)
(* which reads it twice; and the verifiers a counterparty runs without the *)
(* program.  Other hands edit the file, and an append can die in the       *)
(* middle.  An import installs a chain where there is no ledger yet, line  *)
(* by line as these commands wrote it elsewhere: to this file and its      *)
(* readers it is appends in a row.                                         *)
(*                                                                         *)
(* The hash chain is LedgerChain's.  The text of a record is abstracted to *)
(* what the readers tell apart: its operation, whether it has the shape of *)
(* that operation, whether its line is within MAX_LINE_BYTES or holds a    *)
(* line separator (U+2028 and its like), and what JCS makes of its         *)
(* numbers: it reads back the one it wrote (exact), it does not write it   *)
(* (unwritable), or it writes a float beyond 2^53 as the digits of an      *)
(* integer, which it refuses to hash when a reader brings them (wide).     *)
(* Appends exclude each other here; threads are PackageNode's subject.     *)
(***************************************************************************)
EXTENDS LedgerChain, FiniteSets

CONSTANTS
  Asked,      \* what the program is asked to append
  Foreign,    \* what other hands write
  MaxLines, MaxEdits,
  None

Shape == [op : {"charge", "grant", "anchor", "compute-anchor", "migrate-net"},
          shaped : BOOLEAN, fits : BOOLEAN, split : BOOLEAN,
          number : {"exact", "wide", "unwritable"}]

\* A line of the file that parses: a record, and its node_sig.
Commitment   == Seq([seq : Nat, body : Shape])
SignedRecord == [seq : Nat, prev : Commitment, body : Shape, h : Commitment,
                 sig : {"none", "good", "bad"}]

\* cmd_run composes its charges itself, and they have the shape of one.  Only
\* a compute-anchor copies numbers that somebody else wrote: those of a charge
\* are small, a grant is within 10^6, and the others have none.
ASSUME ReadersAssumption ==
  /\ Asked \subseteq Shape /\ Foreign \subseteq Shape
  /\ \A body \in Asked : body.op = "charge" => body.shaped
  /\ \A body \in Asked : body.number = "wide" => body.op = "compute-anchor"
  /\ Torn \notin SignedRecord /\ Junk \notin SignedRecord

VARIABLES
  ledger,   \* the lines of the file; a record also carries its node_sig
  open,     \* the last line is a whole record without its newline
  reader,   \* the ledger-verify or bundle command between two of its reads
  held,     \* what a counterparty holds of this ledger
  clean,    \* the program alone wrote the file, and no append died
  edits

ledgerVars == <<ledger, open, reader, held, clean, edits>>

Idle  == [pc |-> "idle", head |-> Genesis, calm |-> TRUE]
Disturbed == [reader EXCEPT !.calm = FALSE]

LedgerInit ==
  /\ ledger = << >> /\ open = FALSE /\ reader = Idle /\ held = None
  /\ clean = TRUE /\ edits = 0

-----------------------------------------------------------------------------
(***************************************************************************)
(* Readers.  All recompute the chain; they differ in what stops them.      *)
(***************************************************************************)
Chained(log)   == AllRecords(log) /\ ChainOk(log)
Exact(log)     == \A i \in DOMAIN log : log[i].body.number = "exact"
ChainMath(log) == Chained(log) /\ Exact(log)
Fit(log)       == \A i \in DOMAIN log : log[i].body.fits
Unsplit(log)   == \A i \in DOMAIN log : log[i].body.split = FALSE

\* The runner's core: a long line reads as {}, and node_sig is checked.
VerifyChain(log) ==
  ChainMath(log) /\ Fit(log) /\ \A i \in DOMAIN log : log[i].sig # "bad"

\* Mutated form: the mini verifier trusts the h that a record carries.
MiniVerifyUnhashed(log) ==
  /\ AllRecords(log) /\ Fit(log)
  /\ \A i \in DOMAIN log : /\ log[i].seq = i
                           /\ log[i].prev = IF i = 1 THEN Genesis ELSE log[i - 1].h

MiniVerify(log) == ChainMath(log) /\ Fit(log)
BundleHead(log) == log # << >> /\ ChainMath(log) /\ Fit(log)

\* str.splitlines also breaks a line where JSON text may hold a separator.
ProjectHead(log) == ChainMath(log) /\ Unsplit(log)

\* The time-stamp query and bond refuse an empty chain, and know no limit.
TimeStamp(log) == log # << >> /\ ChainMath(log)

Rehashes(rec) == rec.body.number = "exact" /\ rec.h = Hash(rec.prev, rec.seq, rec.body)

\* explain --charge takes the i-th of str.splitlines.
Explain(log, i) ==
  IsRecord(log[i]) /\ Unsplit(SubSeq(log, 1, i)) /\ Rehashes(log[i])

\* IVerifier.verify_charge takes node_sig into the hash, which never had it.
VerifyCharge(rec, prev) == rec.prev = prev /\ rec.sig = "none" /\ Rehashes(rec)

Readers == {"runner", "mini", "bundle", "project", "stamp"}
Accepts(who, log) ==
  CASE who = "runner"  -> VerifyChain(log)
    [] who = "mini"    -> MiniVerify(log)
    [] who = "bundle"  -> BundleHead(log)
    [] who = "project" -> ProjectHead(log)
    [] who = "stamp"   -> TimeStamp(log)

(***************************************************************************)
(* The per-record gates of ledger-verify.  There is none for               *)
(* compute-anchor and migrate-net.                                         *)
(***************************************************************************)
Gated(rec) == rec.body.op \in {"charge", "grant", "anchor"} => rec.body.shaped

-----------------------------------------------------------------------------
(***************************************************************************)
(* Appends.  A record's hash is computed before the file is opened, so one *)
(* that JCS cannot write leaves the file as it was.  What is written after *)
(* a line without its newline becomes one line with it.                    *)
(***************************************************************************)
Sealed(body, sig) ==
  LET r == NextRecord(ledger, body)
  IN  [seq |-> r.seq, prev |-> r.prev, body |-> body, h |-> r.h, sig |-> sig]

\* Mutated form: the append first removes a line that does not parse.
AppendAfterRepair(body, sig) ==
  LET whole == SelectSeq(ledger, IsRecord)
      prev  == PredecessorHash(whole)
      seq   == Len(whole) + 1
  IN  /\ Len(ledger) < MaxLines /\ body.number # "unwritable" /\ CanAppend(ledger)
      /\ ledger' = Append(whole, [seq |-> seq, prev |-> prev, body |-> body, sig |-> sig,
                                  h |-> Hash(prev, seq, body)])
      /\ open' = FALSE /\ UNCHANGED <<reader, held, clean, edits>>

AppendRecord(body, sig) ==
  /\ Len(ledger) < MaxLines
  /\ body.number # "unwritable" /\ CanAppend(ledger)
  /\ ledger' = WithLine(ledger, open, Sealed(body, sig)) /\ open' = FALSE
  /\ UNCHANGED <<reader, held, clean, edits>>

Requests(op) == {body \in Asked : body.op = op}

\* cmd_grant looks at amount and note; a node key signs if it is given.
Grant == \E body \in Requests("grant"), sig \in {"none", "good"} :
           body.shaped /\ AppendRecord(body, sig)

Charge == \E body \in Requests("charge"), sig \in {"none", "good"} :
            AppendRecord(body, sig)

\* Mutated form: anchor writes what it is given.
AnchorUnchecked == \E body \in Requests("anchor") : AppendRecord(body, "none")

\* cmd_anchor builds the record and looks for a violation of RFC-009.
Anchor == \E body \in Requests("anchor") : body.shaped /\ AppendRecord(body, "none")

\* A receipt that verifies, and a record of the right shape; ctx, nonce and
\* tile are taken over as the receipt has them.
ComputeAnchor ==
  \E body \in Requests("compute-anchor") : body.shaped /\ AppendRecord(body, "none")

\* migrate-net names the two digests of the declaration (Admission).
MigrateNet == \E body \in Requests("migrate-net") : AppendRecord(body, "none")

\* An append dies with a part of its line written, or all but the newline.
Tear ==
  /\ edits < MaxEdits /\ edits' = edits + 1
  /\ Len(ledger) < MaxLines /\ CanAppend(ledger)
  /\ \/ ledger' = WithTornLine(ledger, open) /\ open' = FALSE
     \/ /\ Ended(ledger, open) /\ open' = TRUE
        /\ \E body \in Requests("charge") : ledger' = Append(ledger, Sealed(body, "none"))
  /\ clean' = FALSE /\ reader' = Disturbed /\ UNCHANGED held

(***************************************************************************)
(* Other hands: a line is garbled, lost, said differently, or loses or     *)
(* changes its signature; or a record with a correct hash is added.        *)
(***************************************************************************)
Edit ==
  /\ edits < MaxEdits /\ edits' = edits + 1
  /\ \/ \E i \in RecordsIn(ledger) :
          /\ \/ ledger' = [ledger EXCEPT ![i] = Junk]
             \/ ledger' = [j \in 1..(Len(ledger) - 1) |-> ledger[IF j < i THEN j ELSE j + 1]]
             \/ \E body \in Foreign : ledger' = [ledger EXCEPT ![i].body = body]
             \/ \E sig \in {"none", "bad"} : ledger' = [ledger EXCEPT ![i].sig = sig]
     \/ /\ Len(ledger) < MaxLines /\ CanAppend(ledger) /\ ~EndsTorn(ledger)
        /\ \E body \in Foreign : ledger' = Append(ledger, Sealed(body, "none"))
  /\ open' = FALSE /\ clean' = FALSE /\ reader' = Disturbed /\ UNCHANGED held

-----------------------------------------------------------------------------
\* A bound: one reader reads, once.
Fresh == held = None /\ reader.pc = "idle"

(***************************************************************************)
(* What a counterparty holds: the head, the number of lines it was given   *)
(* with it, the records of a bundle, and, for the properties, the file at  *)
(* that moment and whether a foreign hand touched it in between.           *)
(***************************************************************************)
Hold(by, head, records, calm) ==
  held' = [by |-> by, head |-> head, lines |-> Len(ledger), records |-> records,
           log |-> ledger, calm |-> calm]

\* project-head, the time-stamp query or the mini verifier: one read.
TakeHead ==
  /\ Fresh
  /\ \E who \in Readers \ {"bundle"} :
       /\ Accepts(who, ledger)
       /\ who = "project" => ledger # << >>
  /\ Hold("head", ChainTip(ledger), << >>, TRUE)
  /\ UNCHANGED <<ledger, open, reader, clean, edits>>

Begin(pc) == reader' = [pc |-> pc, head |-> ChainTip(ledger), calm |-> ~open]
End       == reader' = Idle

\* ledger-verify, first read: the chain.
VerifyStart ==
  /\ Fresh /\ VerifyChain(ledger) /\ Begin("gates")
  /\ UNCHANGED <<ledger, open, held, clean, edits>>

\* Second read: a line that does not parse raises, a gate answers RED.
VerifyGates ==
  /\ reader.pc = "gates"
  /\ IF AllRecords(ledger) /\ \A i \in DOMAIN ledger : Gated(ledger[i])
     THEN reader' = [reader EXCEPT !.pc = "count"]
     ELSE End
  /\ UNCHANGED <<ledger, open, held, clean, edits>>

\* Third read: the lines are counted, and the head of the first is reported.
VerifyCount ==
  /\ reader.pc = "count" /\ End
  /\ Hold("report", reader.head, << >>, reader.calm)
  /\ UNCHANGED <<ledger, open, clean, edits>>

\* tamga_bundle: the head first, then the records that parse and fit.
BundleStart ==
  /\ Fresh /\ BundleHead(ledger) /\ Begin("copy")
  /\ UNCHANGED <<ledger, open, held, clean, edits>>

\* Mutated form: the bundle copies its jobs, the charges, only.
CopiedJobs(log) == SelectSeq(log, LAMBDA l : IsRecord(l) /\ l.body.fits /\ l.body.op = "charge")

Copied(log) ==
  LET fit == {i \in RecordsIn(log) : log[i].body.fits}
      jobs[i \in 0..Len(log)] ==
        IF i = 0 THEN << >>
        ELSE IF i \in fit THEN Append(jobs[i - 1], log[i]) ELSE jobs[i - 1]
  IN  jobs[Len(log)]

BundleCopy ==
  /\ reader.pc = "copy" /\ End
  /\ Hold("bundle", reader.head, Copied(ledger), reader.calm)
  /\ UNCHANGED <<ledger, open, clean, edits>>

ProgramAppends == Grant \/ Charge \/ Anchor \/ ComputeAnchor \/ MigrateNet

LedgerNext ==
  \/ Grant \/ Charge \/ Anchor \/ ComputeAnchor \/ MigrateNet \/ Tear \/ Edit
  \/ TakeHead \/ VerifyStart \/ VerifyGates \/ VerifyCount \/ BundleStart \/ BundleCopy

-----------------------------------------------------------------------------
(***************************************************************************)
(* A ledger that only the program wrote, by any sequence of its commands,  *)
(* is a chain of records that pass their gates, and satisfies every reader *)
(* unless it holds a record of one of three kinds: a compute-anchor whose  *)
(* task_program makes the line too long or that took over a wide number,   *)
(* and one whose text holds a line separator.                              *)
(***************************************************************************)
LegalWritesVerify ==
  clean =>
    /\ Chained(ledger) /\ \A i \in DOMAIN ledger : Gated(ledger[i])
    /\ Exact(ledger) /\ Fit(ledger) => VerifyChain(ledger)
    /\ \A i \in DOMAIN ledger :
         LET rec == ledger[i] IN
         IF rec.body.number = "exact"
         THEN /\ Unsplit(ledger) => Explain(ledger, i)
              /\ rec.sig = "none" => VerifyCharge(rec, ChainTip(SubSeq(ledger, 1, i - 1)))
         ELSE rec.body.op = "compute-anchor"

(***************************************************************************)
(* Between its reads the file grows: what ledger-verify and the bundle     *)
(* report is then the tip of a beginning of the file, which passed, and of *)
(* the copied records.                                                     *)
(***************************************************************************)
VerdictCoversPrefix ==
  held # None /\ held.calm =>
    LET k     == Len(held.head)
        whole == IF held.by = "bundle" THEN held.records ELSE held.log
        first == SubSeq(whole, 1, k)
    IN  /\ k <= held.lines /\ k <= Len(whole)
        /\ ChainMath(first) /\ ChainTip(first) = held.head
        /\ held.by = "report" => VerifyChain(first) /\ \A i \in 1..k : Gated(first[i])

SameEntry(r, s) == r.seq = s.seq /\ r.prev = s.prev /\ r.body = s.body /\ r.h = s.h

(***************************************************************************)
(* A head binds the past: a reader that later finds the head a             *)
(* counterparty holds, in a file that was edited since, looks at the       *)
(* records the counterparty saw, up to their node signatures.              *)
(***************************************************************************)
HeldHeadBindsHistory ==
  held # None /\ held.calm =>
    \A who \in Readers :
      Accepts(who, ledger) /\ ChainTip(ledger) = held.head =>
        /\ Len(ledger) <= Len(held.log)
        /\ \A i \in DOMAIN ledger : SameEntry(ledger[i], held.log[i])

\* A file no reader accepts is accepted by none after the program wrote more.
BrokenStaysBroken ==
  [][\A who \in Readers \ {"bundle", "stamp"} :
       ProgramAppends /\ ~Accepts(who, ledger) => ~Accepts(who, ledger')]_ledgerVars
=============================================================================
