------------------------ MODULE PackageHistoryProofs ------------------------
(***************************************************************************)
(* Proofs about what a package's three files say of each other, over the   *)
(* invariant of PackageNodeProofs: the state, the ledger, the evidence and *)
(* the snapshots, and that the ledgers implement LedgerHistory.            *)
(*                                                                         *)
(* A copy of the state lives in four places: state.json, an invocation, a  *)
(* snapshot, and the import of one.  Each invariant says what every copy   *)
(* satisfies, and of an invocation that is about to write, what it holds.  *)
(***************************************************************************)
EXTENDS PackageNodeProofs, FiniteSetTheorems

(***************************************************************************)
(* What a deployment may rely on, where a result needs it.                 *)
(***************************************************************************)
\* There is one package: nothing is installed from elsewhere.
OnePackage == \A m, n \in Nodes : m = n

\* All nodes run the same release: no import ends in RC15.
SameRelease == \A n \in Nodes : KnownOps[n] = Ops

\* A command that writes state.json runs beside no other command.
WritersAlone == Concurrent \subseteq {"plain", "export"}

-----------------------------------------------------------------------------
\* The tip of a state is the charge of its last session.
Named(st) ==
  IF st.tip = None
  THEN st.ses = 0
  ELSE ChargeOf(st.tip).op = "charge" /\ ChargeOf(st.tip).ses = st.ses

\* The invocation holds a state that is, or was, saved with its ledger.
Carrying(p) ==
  proc[p].pc \in {"exec", "account", "save", "collect", "install", "chain"}

\* It is about to write the charge of the session it ran.
Charging(p) == proc[p].pc = "append" /\ proc[p].cmd = "run"

NamesInv ==
  /\ \A n \in Nodes : Readable(n) => Named(St(n))
  /\ \A s \in snaps : Named(s.st)
  /\ \A p \in Procs :
       /\ Carrying(p) => Named(proc[p].st)
       /\ Charging(p) =>
            proc[p].rec.body.op = "charge" /\ proc[p].rec.body.ses = proc[p].st.ses

\* An import installs what some node exported, where there was no ledger; and
\* only a death leaves a line without its newline.
FreshInv ==
  /\ \A n \in Nodes : (~haslog[n] => log[n] = << >>) /\ (open[n] => crashes # 0)
  /\ \A p \in Procs :
       /\ proc[p].cmd = "import" /\ Active(p) =>
            proc[p].snap \in snaps /\ proc[p].st = proc[p].snap.st
       /\ proc[p].pc = "chain" => proc[p].cmd = "import" /\ ~haslog[proc[p].at]

\* The tip is in the ledger.
Carried(l, st) == st.tip # None => TipInChain(l, st.tip)

CarriedInv ==
  crashes = 0 =>
    /\ \A n \in Nodes :
         /\ AllRecords(log[n])
         /\ Readable(n) /\ ~Importing(n) => Carried(log[n], St(n))
    /\ \A s \in snaps : Carried(s.recs, s.st)
    /\ \A p \in Procs :
         /\ proc[p].pc \in {"save", "collect"} => Carried(log[proc[p].at], proc[p].st)
         /\ proc[p].pc = "install" /\ haslog[proc[p].at]
              => Carried(log[proc[p].at], proc[p].st)
         /\ proc[p].pc = "chain" => state[proc[p].at] = proc[p].st

\* Each of the first k sessions is charged.
Covered(k) ==
  \A n \in Nodes : AllRecords(log[n]) =>
    \A s \in 1..k : \E i \in ChargesAt(n) : log[n][i].body.ses = s

CoveredInv ==
  /\ \A n \in Nodes : Readable(n) => Covered(St(n).ses)
  /\ \A s \in snaps : Covered(s.st.ses)
  /\ \A p \in Procs : /\ Carrying(p) => Covered(proc[p].st.ses)
                      /\ Charging(p) => Covered(proc[p].st.ses - 1)

\* The writer is alone with its package, and what it writes is no older.
Writer(p) == Active(p) /\ proc[p].cmd \in {"run", "memory", "import"}

WriterAlone ==
  \A p, q \in Procs :
    p # q /\ Active(p) /\ Active(q) /\ proc[p].at = proc[q].at
      => proc[p].cmd \in {"plain", "export"}

Forward(p) ==
  LET n  == proc[p].at
      st == proc[p].st
  IN  /\ Readable(n)
      /\ proc[p].pc \in {"exec", "account"} => st.ses = St(n).ses
      /\ Charging(p) => st.ses = St(n).ses + 1
      /\ proc[p].pc = "save" =>
           /\ proc[p].cmd = "run" => st.ses = St(n).ses + 1
           /\ proc[p].cmd = "memory" => st.ses = St(n).ses
           /\ proc[p].cmd = "import" => st.ses >= St(n).ses
      /\ proc[p].pc = "install" => st.ses >= St(n).ses
      /\ proc[p].pc = "chain" => st = state[n]

ForwardInv ==
  /\ WriterAlone
  /\ \A p \in Procs : proc[p].pc \in {"save", "install", "chain"} => Writer(p)
  /\ \A p \in Procs : Writer(p) => Forward(p)

\* With one package, its snapshots are its own past.
PastInv ==
  \A n \in Nodes :
    /\ ~haslog[n] => \A s \in snaps : s.recs = << >>
    /\ Readable(n) =>
         /\ \A s \in snaps : s.st.ses <= St(n).ses
         /\ \A p \in Procs : proc[p].pc = "collect" => proc[p].st.ses <= St(n).ses

\* The evidence of the last session is what its charge was computed from.
Evident(n, st) ==
  st.tip # None /\ st.ses > 0 => art[n][st.ses] = ChargeOf(st.tip).out

EvidenceInv ==
  \A n \in Nodes :
    /\ Readable(n) => Evident(n, St(n))
    /\ \A s \in snaps : Evident(n, s.st)
    /\ \A p \in Procs :
         /\ proc[p].pc \in {"save", "collect", "install", "chain"} => Evident(n, proc[p].st)
         /\ Charging(p) => proc[p].rec.body.out = art[n][proc[p].st.ses]

Charges(l) == {i \in RecordsIn(l) : l[i].body.op = "charge"}

LastCharge(l, i) == i \in Charges(l) /\ \A j \in Charges(l) : j <= i

InOrder(l) ==
  \A i, j \in Charges(l) :
    i < j /\ (\A k \in Charges(l) : k <= i \/ j <= k)
      => l[j].body.ses \in {l[i].body.ses, l[i].body.ses + 1}

\* The last charge is the one of the saved session, or of the next one.
OrderInv ==
  \A n \in Nodes : AllRecords(log[n]) =>
    /\ InOrder(log[n])
    /\ Readable(n) =>
         \A i \in 1..Len(log[n]) : LastCharge(log[n], i) =>
           IF Saving(n) = {}
           THEN log[n][i].body.ses \in {St(n).ses, St(n).ses + 1}
           ELSE log[n][i].body.ses = St(n).ses + 1

\* One charge for each session, each crash and the run that is about to save.
SurplusInv ==
  \A n \in Nodes : Readable(n) =>
    Cardinality(Charges(log[n])) <=
      St(n).ses + (IF Saving(n) = {} THEN 0 ELSE 1) + crashes

\* What else appends a record is no charge.
AppendInv ==
  \A p \in Procs : proc[p].pc = "append" =>
    proc[p].cmd = "run" \/ proc[p].rec.body.op \in PlainOps

\* The charges reach the k-th session and no further.
Top(l, k) ==
  /\ \A i \in Charges(l) : l[i].body.ses \in 0..k
  /\ \A i \in 1..Len(l) : LastCharge(l, i) => l[i].body.ses = k

\* The session that the ledger has reached.
Reached(n) == IF Saving(n) = {} THEN St(n).ses ELSE St(n).ses + 1

MigratedInv ==
  crashes = 0 =>
    /\ \A n \in Nodes : /\ Readable(n) /\ InOrder(log[n])
                        /\ ~Importing(n) => Top(log[n], Reached(n))
    /\ \A s \in snaps : InOrder(s.recs) /\ Top(s.recs, s.st.ses)
    /\ \A p \in Procs : proc[p].pc = "collect" => Top(log[proc[p].at], proc[p].st.ses)
-----------------------------------------------------------------------------
(***************************************************************************)
(* What a step of invocation p does, as far as the invariants see it.      *)
(***************************************************************************)
Becomes(p, pc, cmd, n) == proc'[p].pc = pc /\ proc'[p].cmd = cmd /\ proc'[p].at = n
GoesOn(p, pc)          == Becomes(p, pc, proc[p].cmd, proc[p].at)
Ends(p)                == proc'[p].pc \in Final

Unknown(p) ==
  \E i \in 1..Len(proc[p].snap.recs) :
    proc[p].snap.recs[i].body.op \notin KnownOps[proc[p].at]

Quits(p) ==
  /\ Ends(p) /\ UNCHANGED <<disk, crashes>>
  /\ proc[p].pc \notin {"append", "save"} /\ (proc[p].pc = "chain" => Unknown(p))

Starts(p, n, cmd, pc) ==
  MayStart(p, cmd, n) /\ Becomes(p, pc, cmd, n) /\ UNCHANGED <<disk, crashes>>

StartsRun(p, n) == Starts(p, n, "run", "exec") /\ Readable(n) /\ proc'[p].st = St(n)

StartsPlain(p, n) ==
  Starts(p, n, "plain", "append") /\ proc'[p].rec.body.op \in PlainOps

StartsMemory(p, n) ==
  /\ Starts(p, n, "memory", "save") /\ Readable(n)
  /\ proc'[p].st.ses = St(n).ses /\ proc'[p].st.tip = St(n).tip

StartsExport(p, n) ==
  /\ Starts(p, n, "export", "collect")
  /\ \/ Readable(n) /\ proc'[p].st = St(n)
     \/ ~Readable(n) /\ proc'[p].st = EmptyState

StartsImport(p, n, s) ==
  /\ Starts(p, n, "import", "install") /\ Readable(n) /\ ~ImportRejects(n, s)
  /\ proc'[p].snap = s /\ proc'[p].st = s.st

Executes(p) ==
  /\ proc[p].pc = "exec" /\ UNCHANGED <<state, haslog, log, open, snaps, crashes>>
  /\ \E o \in Outputs \cup {None} : art' = [art EXCEPT ![proc[p].at][Session(p)] = o]
  /\ Ends(p) \/ (GoesOn(p, "account") /\ proc'[p].st = proc[p].st)

Accounts(p) ==
  /\ proc[p].pc = "account" /\ UNCHANGED <<disk, crashes>>
  /\ GoesOn(p, "append")
  /\ proc'[p].st.ses = Session(p) /\ proc'[p].rec.body = Charge(p)

Writes(p) ==
  /\ proc[p].pc = "append" /\ UNCHANGED <<state, art, snaps, crashes>>
  /\ log' = [log EXCEPT ![proc[p].at] = WithLine(log[proc[p].at], open[proc[p].at], proc[p].rec)]
  /\ open' = [open EXCEPT ![proc[p].at] = FALSE]
  /\ haslog' = [haslog EXCEPT ![proc[p].at] = TRUE]
  /\ IF proc[p].cmd = "run"
     THEN /\ GoesOn(p, "save")
          /\ proc'[p].st.ses = proc[p].st.ses /\ proc'[p].st.tip = proc[p].rec.h
     ELSE Ends(p)

Saves(p) ==
  /\ proc[p].pc = "save" /\ UNCHANGED <<haslog, log, open, art, snaps, crashes>>
  /\ state' = [state EXCEPT ![proc[p].at] = proc[p].st]
  /\ Ends(p)

Exports(p) ==
  /\ proc[p].pc = "collect" /\ UNCHANGED <<state, haslog, log, open, art, crashes>>
  /\ AllRecords(log[proc[p].at])
  /\ snaps' = snaps \cup {[agent |-> proc[p].agent, st |-> proc[p].st, recs |-> log[proc[p].at]]}
  /\ Ends(p)

Skips(p) ==
  /\ proc[p].pc = "install" /\ haslog[proc[p].at] /\ UNCHANGED <<disk, crashes>>
  /\ GoesOn(p, "save") /\ proc'[p].st = proc[p].st /\ proc'[p].snap = proc[p].snap

Installs(p) ==
  /\ proc[p].pc = "install" /\ ~haslog[proc[p].at]
  /\ UNCHANGED <<haslog, log, open, art, snaps, crashes>>
  /\ state' = [state EXCEPT ![proc[p].at] = proc[p].st]
  /\ GoesOn(p, "chain") /\ proc'[p].st = proc[p].st /\ proc'[p].snap = proc[p].snap

Adopts(p) ==
  /\ proc[p].pc = "chain" /\ UNCHANGED <<state, art, snaps, crashes>>
  /\ log' = [log EXCEPT ![proc[p].at] = proc[p].snap.recs]
  /\ open' = [open EXCEPT ![proc[p].at] = FALSE]
  /\ haslog' = [haslog EXCEPT ![proc[p].at] = TRUE]
  /\ GoesOn(p, "save") /\ proc'[p].st = proc[p].st /\ proc'[p].snap = proc[p].snap

\* The deaths, by the file they leave behind.
DiesBetween(p) == Active(p) /\ UNCHANGED disk

DiesInExec(p) ==
  /\ proc[p].pc = "exec" /\ UNCHANGED <<state, haslog, log, open, snaps>>
  /\ \E o \in Outputs \cup {None} : art' = [art EXCEPT ![proc[p].at][Session(p)] = o]

DiesInAppend(p) ==
  /\ proc[p].pc = "append" /\ UNCHANGED <<state, art, snaps>>
  /\ log' = [log EXCEPT ![proc[p].at] = WithTornLine(log[proc[p].at], open[proc[p].at])]
  /\ open' = [open EXCEPT ![proc[p].at] = FALSE]
  /\ haslog' = [haslog EXCEPT ![proc[p].at] = TRUE]

DiesUnended(p) ==
  /\ proc[p].pc = "append" /\ UNCHANGED <<state, art, snaps>>
  /\ Ended(log[proc[p].at], open[proc[p].at])
  /\ log' = [log EXCEPT ![proc[p].at] = Append(log[proc[p].at], proc[p].rec)]
  /\ open' = [open EXCEPT ![proc[p].at] = TRUE]
  /\ haslog' = [haslog EXCEPT ![proc[p].at] = TRUE]

DiesInSave(p) ==
  /\ WritesState(p) /\ UNCHANGED <<haslog, log, open, art, snaps>>
  /\ \E file \in Unreadable : state' = [state EXCEPT ![proc[p].at] = file]

DiesInChain(p) ==
  LET recs == proc[p].snap.recs IN
  /\ proc[p].pc = "chain" /\ UNCHANGED <<state, art, snaps>>
  /\ \E k \in Nat, o \in BOOLEAN :
       /\ IF o THEN k \in 1..Len(recs) ELSE k < Len(recs)
       /\ open' = [open EXCEPT ![proc[p].at] = o]
       /\ \/ log' = [log EXCEPT ![proc[p].at] = SubSeq(recs, 1, k)]
          \/ ~o /\ log' = [log EXCEPT ![proc[p].at] = Append(SubSeq(recs, 1, k), Torn)]
  /\ haslog' = [haslog EXCEPT ![proc[p].at] = TRUE]

Death(p) ==
  /\ Ends(p) /\ crashes' = crashes + 1
  /\ \/ DiesBetween(p) \/ DiesInExec(p) \/ DiesInAppend(p) \/ DiesUnended(p)
     \/ DiesInSave(p) \/ DiesInChain(p)

Does(p) ==
  \/ Quits(p)
  \/ \E n \in Nodes : StartsRun(p, n) \/ StartsPlain(p, n) \/ StartsMemory(p, n)
                      \/ StartsExport(p, n) \/ \E s \in snaps : StartsImport(p, n, s)
  \/ Executes(p) \/ Accounts(p) \/ Writes(p) \/ Saves(p) \/ Exports(p)
  \/ Skips(p) \/ Installs(p) \/ Adopts(p)
  \/ Death(p)

Alone(p) == \A q \in Procs \ {p} : proc'[q] = proc[q]

LEMMA OneMoves ==
  ASSUME ProcInv, NEW p \in Procs, NEW x, proc' = [proc EXCEPT ![p] = x]
  PROVE  proc'[p] = x /\ Alone(p)
BY DEF ProcInv, Alone

LEMMA EndEnds ==
  ASSUME ProcInv, NEW p \in Procs, NEW result \in Final, End(p, result)
  PROVE  Ends(p) /\ Alone(p)
<1>1. proc'[p] = Begin(proc[p].cmd, proc[p].at, result) /\ Alone(p)
  BY OneMoves DEF End
<1>2. Begin(proc[p].cmd, proc[p].at, result).pc = result
  BY EndType
<1> QED BY <1>1, <1>2 DEF Ends

LEMMA RunLoadDoes ==
  ASSUME IInv, NEW p \in Procs, NEW n \in Nodes, NEW a \in Agents, RunLoad(p, n, a)
  PROVE  Alone(p) /\ Does(p)
<1> DEFINE red  == state[n] \in Unreadable \/ OwnerMismatch(state[n], a)
           base == Begin("run", n, "exec")
           x    == IF red THEN Begin("run", n, "red")
                   ELSE [base EXCEPT !.agent = a, !.st = Loaded(state[n])]
<1>1. proc' = [proc EXCEPT ![p] = x] /\ MayStart(p, "run", n) /\ UNCHANGED <<disk, crashes>>
  BY DEF RunLoad
<1>2. proc'[p] = x /\ Alone(p)
  <2> HIDE DEF x
  <2> QED BY <1>1, OneMoves DEF IInv
<1>3. proc[p].pc = "idle"
  BY <1>1 DEF MayStart, Idle
<1>4. CASE red
  <2>1. Ends(p)
    BY <1>2, <1>4, BeginType DEF Ends, Commands, Points, Final
  <2> QED BY <1>1, <1>2, <1>3, <2>1 DEF Does, Quits
<1>5. CASE ~red
  <2>1. base \in Invocation /\ base.pc = "exec" /\ base.cmd = "run" /\ base.at = n
    BY BeginType DEF Commands, Points, Final
  <2> HIDE DEF base
  <2>2. x.pc = "exec" /\ x.cmd = "run" /\ x.at = n /\ x.st = Loaded(state[n])
    BY <1>5, <2>1 DEF Invocation
  <2> HIDE DEF x
  <2>3. Becomes(p, "exec", "run", n) /\ proc'[p].st = St(n) /\ Readable(n)
    BY <1>2, <1>5, <2>2 DEF Becomes, St, Readable
  <2> QED BY <1>1, <1>2, <2>3 DEF Does, StartsRun, Starts
<1> QED BY <1>4, <1>5

LEMMA RunExecDoes ==
  ASSUME IInv, NEW p \in Procs, NEW o \in Outputs \cup {None}, RunExec(p, o)
  PROVE  Alone(p) /\ Does(p)
<1>1. /\ proc[p].pc = "exec" /\ UNCHANGED <<state, haslog, log, open, snaps, crashes>>
      /\ art' = [art EXCEPT ![proc[p].at][Session(p)] = o]
  BY DEF RunExec
<1>2. Alone(p) /\ (Ends(p) \/ (GoesOn(p, "account") /\ proc'[p].st = proc[p].st))
  <2>1. CASE o = None
    BY <2>1, EndEnds DEF RunExec, IInv, Final
  <2>2. CASE o # None
    <3> DEFINE x == [proc[p] EXCEPT !.pc = "account"]
    <3>1. proc' = [proc EXCEPT ![p] = x]
      BY <2>2 DEF RunExec, Goto
    <3>2. proc'[p] = x /\ Alone(p)
      <4> HIDE DEF x
      <4> QED BY <3>1, OneMoves DEF IInv
    <3>3. proc[p] \in Invocation
      BY DEF IInv, ProcInv
    <3> QED BY <3>2, <3>3 DEF GoesOn, Becomes, Invocation
  <2> QED BY <2>1, <2>2
<1> QED BY <1>1, <1>2 DEF Does, Executes

LEMMA RunAccountDoes ==
  ASSUME IInv, NEW p \in Procs, NEW adds \in SUBSET Notes, RunAccount(p, adds)
  PROVE  Alone(p) /\ Does(p)
<1> DEFINE n == proc[p].at
<1>1. proc[p].pc = "account" /\ UNCHANGED <<disk, crashes>> /\ proc[p] \in Invocation
  BY DEF RunAccount, IInv, ProcInv
<1>2. CASE CanAppend(log[n])
  <2> DEFINE rec == NextRecord(log[n], Charge(p))
             x   == [proc[p] EXCEPT !.pc = "append",
                                    !.st.ses = Session(p),
                                    !.st.mem = @ \cup adds,
                                    !.rec = rec]
  <2>1. proc' = [proc EXCEPT ![p] = x]
    <3> HIDE DEF n
    <3> QED BY <1>2 DEF RunAccount, n, IInv, ProcInv
  <2>2. rec.body = Charge(p)
    BY DEF NextRecord
  <2> HIDE DEF rec
  <2>3. x.pc = "append" /\ x.cmd = proc[p].cmd /\ x.at = n /\ x.rec = rec /\ x.st.ses = Session(p)
    BY <1>1 DEF Invocation, State
  <2> HIDE DEF x
  <2>4. proc'[p] = x /\ Alone(p)
    BY <2>1, OneMoves DEF IInv
  <2>5. Accounts(p)
    BY <1>1, <2>2, <2>3, <2>4 DEF Accounts, GoesOn, Becomes
  <2> QED BY <2>4, <2>5 DEF Does
<1>3. CASE ~CanAppend(log[n])
  <2>1. Ends(p) /\ Alone(p)
    BY <1>3, EndEnds DEF RunAccount, IInv, Final
  <2> QED BY <1>1, <2>1 DEF Does, Quits
<1> QED BY <1>2, <1>3

LEMMA RunRefusedDoes ==
  ASSUME IInv, NEW p \in Procs, RunRefused(p)
  PROVE  Alone(p) /\ Does(p)
<1>1. proc[p].pc = "account" /\ UNCHANGED <<disk, crashes>>
  BY DEF RunRefused
<1>2. Ends(p) /\ Alone(p)
  BY EndEnds DEF RunRefused, IInv, Final
<1> QED BY <1>1, <1>2 DEF Does, Quits

LEMMA PlainAppendDoes ==
  ASSUME IInv, NEW p \in Procs, NEW n \in Nodes, NEW op \in PlainOps, PlainAppend(p, n, op)
  PROVE  Alone(p) /\ Does(p)
<1> DEFINE body == [op |-> op, ses |-> 0, out |-> None, signer |-> NodeKey[n]]
           base == Begin("plain", n, "append")
           rec  == NextRecord(log[n], body)
           x    == IF CanAppend(log[n]) THEN [base EXCEPT !.rec = rec]
                   ELSE Begin("plain", n, "raised")
<1>1. proc' = [proc EXCEPT ![p] = x] /\ MayStart(p, "plain", n) /\ UNCHANGED <<disk, crashes>>
  BY DEF PlainAppend
<1>2. proc'[p] = x /\ Alone(p)
  <2> HIDE DEF x
  <2> QED BY <1>1, OneMoves DEF IInv
<1>3. proc[p].pc = "idle"
  BY <1>1 DEF MayStart, Idle
<1>4. CASE CanAppend(log[n])
  <2>1. base \in Invocation /\ base.pc = "append" /\ base.cmd = "plain" /\ base.at = n
    BY BeginType DEF Commands, Points, Final
  <2>2. rec.body = body /\ body.op = op
    BY DEF NextRecord
  <2> HIDE DEF rec, base, body
  <2>3. x.pc = "append" /\ x.cmd = "plain" /\ x.at = n /\ x.rec = rec
    BY <1>4, <2>1 DEF Invocation
  <2> HIDE DEF x
  <2>4. Becomes(p, "append", "plain", n) /\ proc'[p].rec.body.op \in PlainOps
    BY <1>2, <2>2, <2>3 DEF Becomes
  <2> QED BY <1>1, <1>2, <2>4 DEF Does, StartsPlain, Starts
<1>5. CASE ~CanAppend(log[n])
  <2>1. Ends(p)
    BY <1>2, <1>5, BeginType DEF Ends, Commands, Points, Final
  <2> QED BY <1>1, <1>2, <1>3, <2>1 DEF Does, Quits
<1> QED BY <1>4, <1>5

LEMMA AppendLineDoes ==
  ASSUME IInv, NEW p \in Procs, AppendLine(p)
  PROVE  Alone(p) /\ Does(p)
<1> DEFINE n == proc[p].at
           r == proc[p].rec
<1>1. /\ proc[p].pc = "append" /\ UNCHANGED <<state, art, snaps, crashes>>
      /\ log' = [log EXCEPT ![n] = WithLine(log[n], open[n], r)]
      /\ open' = [open EXCEPT ![n] = FALSE] /\ haslog' = [haslog EXCEPT ![n] = TRUE]
      /\ proc[p] \in Invocation
  BY DEF AppendLine, IInv, ProcInv
<1>2. CASE proc[p].cmd = "run"
  <2> DEFINE x == [proc[p] EXCEPT !.pc = "save", !.rec = None,
                                  !.st.tip = r.h, !.st.owner = proc[p].agent]
  <2>1. proc' = [proc EXCEPT ![p] = x]
    BY <1>2 DEF AppendLine, IInv, ProcInv
  <2>2. /\ x.pc = "save" /\ x.cmd = proc[p].cmd /\ x.at = n
        /\ x.st.ses = proc[p].st.ses /\ x.st.tip = r.h
    BY <1>1 DEF Invocation, State
  <2> HIDE DEF x
  <2>3. proc'[p] = x /\ Alone(p)
    BY <2>1, OneMoves DEF IInv
  <2>4. Writes(p)
    BY <1>1, <1>2, <2>2, <2>3 DEF Writes, GoesOn, Becomes
  <2> QED BY <2>3, <2>4 DEF Does
<1>3. CASE proc[p].cmd # "run"
  <2>1. Ends(p) /\ Alone(p)
    BY <1>3, EndEnds DEF AppendLine, IInv, Final
  <2>2. Writes(p)
    BY <1>1, <1>3, <2>1 DEF Writes
  <2> QED BY <2>1, <2>2 DEF Does
<1> QED BY <1>2, <1>3

LEMMA SaveStateDoes ==
  ASSUME IInv, NEW p \in Procs, SaveState(p)
  PROVE  Alone(p) /\ Does(p)
<1>1. Ends(p) /\ Alone(p)
  BY EndEnds DEF SaveState, IInv, Final
<1>2. Saves(p)
  BY <1>1 DEF Saves, SaveState
<1> QED BY <1>1, <1>2 DEF Does

LEMMA MemoryLoadDoes ==
  ASSUME IInv, NEW p \in Procs, NEW n \in Nodes, NEW note \in Notes, MemoryLoad(p, n, note)
  PROVE  Alone(p) /\ Does(p)
<1> DEFINE st   == Loaded(state[n])
           full == note \notin st.mem /\ NodeCount(st) >= MaxNodes
           red  == state[n] \in Unreadable \/ full
           base == Begin("memory", n, "save")
           x    == IF red THEN Begin("memory", n, "red")
                   ELSE [base EXCEPT !.st = [st EXCEPT !.mem = @ \cup {note}]]
<1>1. proc' = [proc EXCEPT ![p] = x] /\ MayStart(p, "memory", n) /\ UNCHANGED <<disk, crashes>>
  BY DEF MemoryLoad
<1>2. proc'[p] = x /\ Alone(p)
  <2> HIDE DEF x
  <2> QED BY <1>1, OneMoves DEF IInv
<1>3. proc[p].pc = "idle"
  BY <1>1 DEF MayStart, Idle
<1>4. CASE red
  <2>1. Ends(p)
    BY <1>2, <1>4, BeginType DEF Ends, Commands, Points, Final
  <2> QED BY <1>1, <1>2, <1>3, <2>1 DEF Does, Quits
<1>5. CASE ~red
  <2>1. base \in Invocation /\ base.pc = "save" /\ base.cmd = "memory" /\ base.at = n
    BY BeginType DEF Commands, Points, Final
  <2>2. st \in State /\ st = St(n) /\ Readable(n)
    BY <1>5, LoadedType DEF IInv, DiskInv, St, Readable
  <2> HIDE DEF base, st
  <2>3. /\ x.pc = "save" /\ x.cmd = "memory" /\ x.at = n
        /\ x.st.ses = st.ses /\ x.st.tip = st.tip
    BY <1>5, <2>1, <2>2 DEF Invocation, State
  <2> HIDE DEF x, red
  <2>4. /\ Becomes(p, "save", "memory", n)
        /\ proc'[p].st.ses = St(n).ses /\ proc'[p].st.tip = St(n).tip
    BY <1>2, <2>2, <2>3 DEF Becomes
  <2> QED BY <1>1, <1>2, <2>2, <2>4 DEF Does, StartsMemory, Starts
<1> QED BY <1>4, <1>5
LEMMA ExportStateDoes ==
  ASSUME IInv, NEW p \in Procs, NEW n \in Nodes, NEW a \in Agents, ExportState(p, n, a)
  PROVE  Alone(p) /\ Does(p)
<1> DEFINE red  == state[n] = PartialFile
           st   == IF state[n] = EmptyFile THEN EmptyState ELSE Loaded(state[n])
           base == Begin("export", n, "collect")
           x    == IF red THEN Begin("export", n, "red")
                   ELSE [base EXCEPT !.agent = a, !.st = st]
<1>1. proc' = [proc EXCEPT ![p] = x] /\ MayStart(p, "export", n) /\ UNCHANGED <<disk, crashes>>
  BY DEF ExportState
<1>2. proc'[p] = x /\ Alone(p)
  <2> HIDE DEF x
  <2> QED BY <1>1, OneMoves DEF IInv
<1>3. proc[p].pc = "idle"
  BY <1>1 DEF MayStart, Idle
<1>4. CASE red
  <2>1. Ends(p)
    BY <1>2, <1>4, BeginType DEF Ends, Commands, Points, Final
  <2> QED BY <1>1, <1>2, <1>3, <2>1 DEF Does, Quits
<1>5. CASE ~red
  <2>1. base \in Invocation /\ base.pc = "collect" /\ base.cmd = "export" /\ base.at = n
    BY BeginType DEF Commands, Points, Final
  <2>2. (Readable(n) /\ st = St(n)) \/ (~Readable(n) /\ st = EmptyState)
    BY <1>5 DEF Readable, Unreadable, St
  <2> HIDE DEF base, st
  <2>3. x.pc = "collect" /\ x.cmd = "export" /\ x.at = n /\ x.st = st
    BY <1>5, <2>1 DEF Invocation
  <2> HIDE DEF x, red
  <2>4. /\ Becomes(p, "collect", "export", n)
        /\ (Readable(n) /\ proc'[p].st = St(n)) \/ (~Readable(n) /\ proc'[p].st = EmptyState)
    BY <1>2, <2>2, <2>3 DEF Becomes
  <2> QED BY <1>1, <1>2, <2>4 DEF Does, StartsExport, Starts
<1> QED BY <1>4, <1>5

LEMMA ExportLedgerDoes ==
  ASSUME IInv, NEW p \in Procs, ExportLedger(p)
  PROVE  Alone(p) /\ Does(p)
<1>1. proc[p].pc = "collect" /\ UNCHANGED <<state, haslog, log, open, art, crashes>>
  BY DEF ExportLedger
<1>2. Ends(p) /\ Alone(p)
  BY EndEnds DEF ExportLedger, IInv, Final
<1>3. CASE AllRecords(log[proc[p].at])
  BY <1>1, <1>2, <1>3 DEF ExportLedger, Exports, Does
<1>4. CASE ~AllRecords(log[proc[p].at])
  <2>1. UNCHANGED disk
    BY <1>4 DEF ExportLedger, disk
  <2> QED BY <1>1, <1>2, <2>1 DEF Quits, Does
<1> QED BY <1>3, <1>4

LEMMA ImportCheckDoes ==
  ASSUME IInv, NEW p \in Procs, NEW n \in Nodes, NEW s \in snaps, ImportCheck(p, n, s)
  PROVE  Alone(p) /\ Does(p)
<1> DEFINE ends == state[n] \in Unreadable \/ ImportRejects(n, s)
           base == Begin("import", n, "install")
           x    == IF state[n] \in Unreadable THEN Begin("import", n, "raised")
                   ELSE IF ImportRejects(n, s) THEN Begin("import", n, "red")
                   ELSE [base EXCEPT !.snap = s, !.st = s.st]
<1>1. proc' = [proc EXCEPT ![p] = x] /\ MayStart(p, "import", n) /\ UNCHANGED <<disk, crashes>>
  BY DEF ImportCheck
<1>2. proc'[p] = x /\ Alone(p)
  <2> HIDE DEF x
  <2> QED BY <1>1, OneMoves DEF IInv
<1>3. proc[p].pc = "idle"
  BY <1>1 DEF MayStart, Idle
<1>4. CASE ends
  <2>1. Ends(p)
    BY <1>2, <1>4, BeginType DEF Ends, Commands, Points, Final
  <2> QED BY <1>1, <1>2, <1>3, <2>1 DEF Does, Quits
<1>5. CASE ~ends
  <2>1. base \in Invocation /\ base.pc = "install" /\ base.cmd = "import" /\ base.at = n
    BY BeginType DEF Commands, Points, Final
  <2> HIDE DEF base
  <2>2. x.pc = "install" /\ x.cmd = "import" /\ x.at = n /\ x.snap = s /\ x.st = s.st
    BY <1>5, <2>1 DEF Invocation
  <2> HIDE DEF x
  <2>3. Becomes(p, "install", "import", n) /\ proc'[p].snap = s /\ proc'[p].st = s.st
    BY <1>2, <2>2 DEF Becomes
  <2>4. StartsImport(p, n, s)
    BY <1>1, <1>5, <2>3 DEF StartsImport, Starts, Readable
  <2> QED BY <1>2, <2>4 DEF Does
<1> QED BY <1>4, <1>5

LEMMA GotoGoesOn ==
  ASSUME IInv, NEW p \in Procs, NEW pc, Goto(p, pc)
  PROVE  Alone(p) /\ GoesOn(p, pc) /\ proc'[p].st = proc[p].st /\ proc'[p].snap = proc[p].snap
<1> DEFINE x == [proc[p] EXCEPT !.pc = pc]
<1>1. proc' = [proc EXCEPT ![p] = x]
  BY DEF Goto
<1>2. proc[p] \in Invocation
  BY DEF IInv, ProcInv
<1>3. x.pc = pc /\ x.cmd = proc[p].cmd /\ x.at = proc[p].at /\ x.st = proc[p].st /\ x.snap = proc[p].snap
  BY <1>2 DEF Invocation
<1> HIDE DEF x
<1>4. proc'[p] = x /\ Alone(p)
  BY <1>1, OneMoves DEF IInv
<1> QED BY <1>3, <1>4 DEF GoesOn, Becomes

LEMMA ImportInstallDoes ==
  ASSUME IInv, NEW p \in Procs, ImportInstall(p)
  PROVE  Alone(p) /\ Does(p)
<1>1. proc[p].pc = "install" /\ UNCHANGED <<haslog, log, open, art, snaps, crashes>>
  BY DEF ImportInstall
<1>2. CASE haslog[proc[p].at]
  <2>1. state' = state /\ Goto(p, "save")
    BY <1>2 DEF ImportInstall
  <2>2. Alone(p) /\ Skips(p)
    BY <1>1, <1>2, <2>1, GotoGoesOn DEF Skips, disk
  <2> QED BY <2>2 DEF Does
<1>3. CASE ~haslog[proc[p].at]
  <2>1. state' = [state EXCEPT ![proc[p].at] = proc[p].st] /\ Goto(p, "chain")
    BY <1>3 DEF ImportInstall
  <2>2. Alone(p) /\ Installs(p)
    BY <1>1, <1>3, <2>1, GotoGoesOn DEF Installs
  <2> QED BY <2>2 DEF Does
<1> QED BY <1>2, <1>3

LEMMA ImportLedgerDoes ==
  ASSUME IInv, NEW p \in Procs, ImportLedger(p)
  PROVE  Alone(p) /\ Does(p)
<1>1. proc[p].pc = "chain" /\ UNCHANGED <<state, art, snaps, crashes>>
  BY DEF ImportLedger
<1>2. CASE ~Unknown(p)
  <2>1. /\ log' = [log EXCEPT ![proc[p].at] = proc[p].snap.recs]
        /\ open' = [open EXCEPT ![proc[p].at] = FALSE]
        /\ haslog' = [haslog EXCEPT ![proc[p].at] = TRUE]
        /\ Goto(p, "save")
    BY <1>2 DEF ImportLedger, Unknown
  <2>2. Alone(p) /\ Adopts(p)
    BY <1>1, <2>1, GotoGoesOn DEF Adopts
  <2> QED BY <2>2 DEF Does
<1>3. CASE Unknown(p)
  <2>1. UNCHANGED <<log, open, haslog>> /\ End(p, "red")
    BY <1>3 DEF ImportLedger, Unknown
  <2>2. Ends(p) /\ Alone(p)
    BY <2>1, EndEnds DEF IInv, Final
  <2> QED BY <1>1, <1>3, <2>1, <2>2 DEF Quits, Does, disk
<1> QED BY <1>2, <1>3

LEMMA ExitDoes ==
  ASSUME IInv, NEW p \in Procs, Exit(p)
  PROVE  Alone(p) /\ Does(p)
<1>1. proc' = [proc EXCEPT ![p] = Idle] /\ UNCHANGED <<disk, crashes>> /\ proc[p].pc \in Final
  BY DEF Exit
<1>2. proc'[p] = Idle /\ Alone(p)
  BY <1>1, OneMoves DEF IInv
<1> QED BY <1>1, <1>2 DEF Quits, Does, Ends, Idle, Final

LEMMA FailureDoes ==
  ASSUME IInv, NEW p \in Procs, Failure(p)
  PROVE  Alone(p) /\ Does(p)
<1>1. Dies(p)
  BY DEF Failure, Crash, CrashInExec, CrashInAppend, CrashInSave, CrashInLedger
<1>2. Alone(p) /\ Ends(p) /\ crashes' = crashes + 1
  <2>1. proc' = [proc EXCEPT ![p] = Idle] /\ crashes' = crashes + 1
    BY <1>1 DEF Dies
  <2>2. proc'[p] = Idle /\ Alone(p)
    BY <2>1, OneMoves DEF IInv
  <2> QED BY <2>1, <2>2 DEF Ends, Idle, Final
<1>3. CASE Crash(p)
  BY <1>2, <1>3 DEF Crash, DiesBetween, Death, Does
<1>4. CASE CrashInExec(p)
  BY <1>2, <1>4 DEF CrashInExec, DiesInExec, Death, Does
<1>5. ASSUME NEW whole \in BOOLEAN, CrashInAppend(p, whole) PROVE Does(p)
  <2>1. CASE whole
    <3>1. DiesUnended(p)
      BY <1>5, <2>1 DEF CrashInAppend, DiesUnended, IInv, DiskInv
    <3> QED BY <1>2, <3>1 DEF Death, Does
  <2>2. CASE ~whole
    <3>1. DiesInAppend(p)
      BY <1>5, <2>2 DEF CrashInAppend, DiesInAppend, IInv, DiskInv
    <3> QED BY <1>2, <3>1 DEF Death, Does
  <2> QED BY <2>1, <2>2
<1>6. ASSUME NEW file \in Unreadable, CrashInSave(p, file) PROVE Does(p)
  BY <1>2, <1>6 DEF CrashInSave, DiesInSave, Death, Does
<1>7. ASSUME NEW k \in 0..MaxLog, NEW cut \in {"none", "line", "newline"},
             CrashInLedger(p, k, cut)
      PROVE  Does(p)
  <2>1. k \in Nat
    BY PackageAssumption DEF PackageAssumption
  <2> DEFINE o    == (cut = "newline")
             recs == proc[p].snap.recs
  <2>2. /\ o \in BOOLEAN /\ (IF o THEN k \in 1..Len(recs) ELSE k < Len(recs))
        /\ open' = [open EXCEPT ![proc[p].at] = o]
        /\ \/ log' = [log EXCEPT ![proc[p].at] = SubSeq(recs, 1, k)]
           \/ ~o /\ log' = [log EXCEPT ![proc[p].at] = Append(SubSeq(recs, 1, k), Torn)]
        /\ proc[p].pc = "chain" /\ UNCHANGED <<state, art, snaps>>
        /\ haslog' = [haslog EXCEPT ![proc[p].at] = TRUE]
    BY <1>7 DEF CrashInLedger
  <2> HIDE DEF o
  <2>3. DiesInChain(p)
    BY <2>1, <2>2 DEF DiesInChain
  <2> QED BY <1>2, <2>3 DEF Death, Does
<1> QED BY <1>2, <1>3, <1>4, <1>5, <1>6, <1>7 DEF Failure

(* Every step of the specification is one of these.                        *)
LEMMA NextDoes == IInv /\ Next => \E p \in Procs : Alone(p) /\ Does(p)
<1> SUFFICES ASSUME IInv, NEW p \in Procs,
                    \/ Run(p)
                    \/ \E n \in Nodes, op \in PlainOps : PlainAppend(p, n, op)
                    \/ AppendLine(p)
                    \/ SaveState(p)
                    \/ \E n \in Nodes, x \in Notes : MemoryLoad(p, n, x)
                    \/ \E n \in Nodes, a \in Agents : ExportState(p, n, a)
                    \/ ExportLedger(p)
                    \/ Import(p)
                    \/ Exit(p)
                    \/ Failure(p)
             PROVE  Alone(p) /\ Does(p)
  BY Zenon DEF Next
<1>1. ASSUME Run(p) PROVE Alone(p) /\ Does(p)
  BY <1>1, RunLoadDoes, RunExecDoes, RunAccountDoes, RunRefusedDoes DEF Run
<1>2. ASSUME Import(p) PROVE Alone(p) /\ Does(p)
  BY <1>2, ImportCheckDoes, ImportInstallDoes, ImportLedgerDoes DEF Import
<1> QED BY <1>1, <1>2, PlainAppendDoes, AppendLineDoes, SaveStateDoes, MemoryLoadDoes,
           ExportStateDoes, ExportLedgerDoes, ExitDoes, FailureDoes
-----------------------------------------------------------------------------
(* What is known of the invocation that moves.                             *)
LEMMA Mover ==
  ASSUME IInv, NEW p \in Procs
  PROVE  /\ proc[p] \in Invocation /\ proc[p].st \in State /\ Stage(p)
         /\ proc[p].pc \notin Final => proc[p].at \in Nodes
BY DEF IInv, ProcInv, Stage, Active, Invocation

(* A state that is written is what state.json then holds.                  *)
LEMMA StateHolds ==
  ASSUME IInv, NEW n \in Nodes, NEW st \in State, state' = [state EXCEPT ![n] = st]
  PROVE  /\ Readable(n)' /\ St(n)' = st /\ state'[n] = st
         /\ \A m \in Nodes \ {n} : state'[m] = state[m]
<1>1. state'[n] = st /\ \A m \in Nodes \ {n} : state'[m] = state[m]
  BY DEF IInv, DiskInv
<1> QED BY <1>1, PackageAssumption DEF PackageAssumption, Readable, St, Loaded

(* What is cut short is unreadable.                                        *)
LEMMA StateLost ==
  ASSUME IInv, NEW n \in Nodes, NEW file \in Unreadable, state' = [state EXCEPT ![n] = file]
  PROVE  /\ ~Readable(n)'
         /\ \A m \in Nodes \ {n} : state'[m] = state[m]
BY DEF IInv, DiskInv, Readable

LEMMA Kept ==
  ASSUME NEW n \in Nodes, state'[n] = state[n]
  PROVE  Readable(n)' = Readable(n) /\ St(n)' = St(n)
BY DEF Readable, St

(* Four things are to be shown of a step that it keep the names.           *)
LEMMA NamesOf ==
  ASSUME NamesInv, NEW p \in Procs, Alone(p),
         \A n \in Nodes : Readable(n)' => Named(St(n)'),
         \A s \in snaps' : Named(s.st),
         Carrying(p)' => Named(proc'[p].st),
         Charging(p)' =>
            proc'[p].rec.body.op = "charge" /\ proc'[p].rec.body.ses = proc'[p].st.ses
  PROVE  NamesInv'
<1> SUFFICES ASSUME NEW q \in Procs \ {p}
             PROVE  /\ Carrying(q)' => Named(proc'[q].st)
                    /\ Charging(q)' =>
                         proc'[q].rec.body.op = "charge" /\ proc'[q].rec.body.ses = proc'[q].st.ses
  BY DEF NamesInv
<1>1. proc'[q] = proc[q]
  BY DEF Alone
<1> QED BY <1>1 DEF NamesInv, Carrying, Charging

LEMMA NamesWhereKept ==
  ASSUME NamesInv, UNCHANGED state
  PROVE  \A n \in Nodes : Readable(n)' => Named(St(n)')
BY DEF NamesInv, Readable, St

(* The charge that a run appended names the session of its state.          *)
LEMMA ChargeNames ==
  ASSUME IInv, NamesInv, NEW p \in Procs, Charging(p)
  PROVE  /\ proc[p].rec.h # None /\ ChargeOf(proc[p].rec.h) = proc[p].rec.body
         /\ proc[p].rec.body.op = "charge" /\ proc[p].rec.body.ses = proc[p].st.ses
<1> DEFINE r == proc[p].rec
<1>1. proc[p].pc = "append" /\ r \in Record /\ r = NextRecord(log[proc[p].at], r.body)
  BY Mover DEF Charging, Stage
<1>2. r.prev \in Digest /\ r.h \in Digest /\ r.seq \in Nat /\ r.body \in Body
  BY <1>1 DEF Record
<1>3. r.h = Hash(r.prev, r.seq, r.body)
  <2> DEFINE b == r.body
             l == log[proc[p].at]
  <2>1. r = [seq |-> Len(l) + 1, prev |-> PredecessorHash(l), body |-> b,
             h |-> Hash(PredecessorHash(l), Len(l) + 1, b)]
    BY <1>1 DEF NextRecord
  <2> HIDE DEF r, b, l
  <2>2. r.seq = Len(l) + 1 /\ r.prev = PredecessorHash(l)
        /\ r.h = Hash(PredecessorHash(l), Len(l) + 1, b)
    BY <2>1
  <2> QED BY <2>2 DEF b
<1> DEFINE e == [seq |-> r.seq, body |-> r.body]
           d == r.prev
           a == Append(d, e)
<1>4. e \in Entry /\ d \in Seq(Entry) /\ r.h = a /\ e.body = r.body
  BY <1>2, <1>3 DEF Entry, Digest, Hash
<1> HIDE DEF e, d, r
<1>5. Len(a) = Len(d) + 1 /\ a[Len(d) + 1] = e
  BY <1>4, AppendProperties
<1>6. ChargeOf(r.h) = r.body
  <2> HIDE DEF a
  <2> QED BY <1>4, <1>5 DEF ChargeOf
<1>7. r.h # None
  BY <1>2, PackageAssumption DEF PackageAssumption
<1>8. r.body.op = "charge" /\ r.body.ses = proc[p].st.ses
  BY DEF NamesInv, r
<1> QED BY <1>6, <1>7, <1>8 DEF r

LEMMA NamesStep ==
  ASSUME IInv, NamesInv, NEW p \in Procs, Alone(p), Does(p)
  PROVE  NamesInv'
<1>0. /\ proc[p] \in Invocation /\ proc[p].st \in State /\ Stage(p)
      /\ proc[p].pc \notin Final => proc[p].at \in Nodes
  BY Mover
<1>1. ASSUME Ends(p) PROVE ~Carrying(p)' /\ ~Charging(p)'
  BY <1>1 DEF Ends, Carrying, Charging, Final
<1>2. ASSUME Ends(p), UNCHANGED <<state, snaps>> PROVE NamesInv'
  <2>1. \A s \in snaps' : Named(s.st)
    BY <1>2 DEF NamesInv
  <2> QED BY <1>1, <1>2, <2>1, NamesOf, NamesWhereKept
<1>3. CASE Quits(p)
  BY <1>2, <1>3 DEF Quits, disk
<1>4. ASSUME UNCHANGED <<state, snaps>>, Named(proc'[p].st), proc'[p].pc # "append"
      PROVE  NamesInv'
  <2>1. \A s \in snaps' : Named(s.st)
    BY <1>4 DEF NamesInv
  <2>2. ~Charging(p)'
    BY <1>4 DEF Charging
  <2> QED BY <1>4, <2>1, <2>2, NamesOf, NamesWhereKept
<1>5. ASSUME NEW n \in Nodes, StartsRun(p, n) \/ StartsMemory(p, n) PROVE NamesInv'
  <2>1. Named(St(n)) /\ proc'[p].st.ses = St(n).ses /\ proc'[p].st.tip = St(n).tip
    BY <1>5 DEF NamesInv, StartsRun, StartsMemory
  <2>2. Named(proc'[p].st)
    BY <2>1 DEF Named
  <2> QED BY <1>4, <1>5, <2>2 DEF StartsRun, StartsMemory, Starts, Becomes, disk
<1>6. ASSUME NEW n \in Nodes, StartsPlain(p, n) PROVE NamesInv'
  <2>1. ~Carrying(p)' /\ ~Charging(p)' /\ UNCHANGED <<state, snaps>>
    BY <1>6 DEF StartsPlain, Starts, Becomes, Carrying, Charging, disk
  <2>2. \A s \in snaps' : Named(s.st)
    BY <2>1 DEF NamesInv
  <2> QED BY <2>1, <2>2, NamesOf, NamesWhereKept
<1>7. ASSUME NEW n \in Nodes, StartsExport(p, n) PROVE NamesInv'
  <2>1. Named(proc'[p].st)
    BY <1>7 DEF StartsExport, NamesInv, Named, EmptyState
  <2> QED BY <1>4, <1>7, <2>1 DEF StartsExport, Starts, Becomes, disk
<1>8. ASSUME NEW n \in Nodes, NEW s \in snaps, StartsImport(p, n, s) PROVE NamesInv'
  <2>1. Named(proc'[p].st)
    BY <1>8 DEF StartsImport, NamesInv
  <2> QED BY <1>4, <1>8, <2>1 DEF StartsImport, Starts, Becomes, disk
<1>9. CASE Executes(p)
  <2>1. Named(proc[p].st)
    BY <1>9 DEF Executes, NamesInv, Carrying
  <2> QED BY <1>2, <1>4, <1>9, <2>1 DEF Executes, GoesOn, Becomes
<1>10. CASE Accounts(p)
  <2>1. ~Carrying(p)' /\ UNCHANGED <<state, snaps>>
    BY <1>10 DEF Accounts, GoesOn, Becomes, Carrying, disk
  <2>2. proc'[p].rec.body.op = "charge" /\ proc'[p].rec.body.ses = proc'[p].st.ses
    BY <1>10 DEF Accounts, Charge
  <2>3. \A s \in snaps' : Named(s.st)
    BY <2>1 DEF NamesInv
  <2> QED BY <2>1, <2>2, <2>3, NamesOf, NamesWhereKept
<1>11. CASE Writes(p)
  <2>1. CASE proc[p].cmd = "run"
    <3>1. /\ proc'[p].st.ses = proc[p].st.ses /\ proc'[p].st.tip = proc[p].rec.h
          /\ proc'[p].pc = "save" /\ UNCHANGED <<state, snaps>>
      BY <1>11, <2>1 DEF Writes, GoesOn, Becomes
    <3>2. Charging(p)
      BY <1>11, <2>1 DEF Writes, Charging
    <3>3. Named(proc'[p].st)
      BY <3>1, <3>2, ChargeNames DEF Named
    <3> QED BY <1>4, <3>1, <3>3
  <2>2. CASE proc[p].cmd # "run"
    BY <1>2, <1>11, <2>2 DEF Writes
  <2> QED BY <2>1, <2>2
<1>12. ASSUME proc[p].pc \in {"save", "install"}, UNCHANGED snaps,
              state' = [state EXCEPT ![proc[p].at] = proc[p].st],
              Ends(p) \/ (proc'[p].st = proc[p].st /\ proc'[p].pc # "append")
       PROVE  NamesInv'
  <2>1. Named(proc[p].st) /\ proc[p].at \in Nodes
    BY <1>0, <1>12 DEF NamesInv, Carrying, Final
  <2>2. \A n \in Nodes : Readable(n)' => Named(St(n)')
    <3> TAKE n \in Nodes
    <3>1. CASE n = proc[p].at
      BY <1>0, <1>12, <2>1, <3>1, StateHolds
    <3>2. CASE n # proc[p].at
      <4>1. state'[n] = state[n]
        BY <1>0, <1>12, <2>1, <3>2, StateHolds
      <4> QED BY <4>1, Kept DEF NamesInv
    <3> QED BY <3>1, <3>2
  <2>3. \A s \in snaps' : Named(s.st)
    BY <1>12 DEF NamesInv
  <2>4. ~Charging(p)' /\ (Carrying(p)' => Named(proc'[p].st))
    BY <1>1, <1>12, <2>1 DEF Charging
  <2> QED BY <2>2, <2>3, <2>4, NamesOf
<1>13. CASE Saves(p)
  BY <1>12, <1>13 DEF Saves
<1>14. CASE Exports(p)
  <2>1. Named(proc[p].st)
    BY <1>14 DEF Exports, NamesInv, Carrying
  <2>2. \A s \in snaps' : Named(s.st)
    BY <1>14, <2>1 DEF Exports, NamesInv
  <2> QED BY <1>1, <1>14, <2>2, NamesOf, NamesWhereKept DEF Exports
<1>15. CASE Skips(p) \/ Adopts(p)
  <2>1. Named(proc[p].st)
    BY <1>15 DEF Skips, Adopts, NamesInv, Carrying
  <2> QED BY <1>4, <1>15, <2>1 DEF Skips, Adopts, GoesOn, Becomes, disk
<1>16. CASE Installs(p)
  BY <1>12, <1>16 DEF Installs, GoesOn, Becomes
<1>17. CASE Death(p)
  <2>1. CASE UNCHANGED <<state, snaps>>
    BY <1>2, <1>17, <2>1 DEF Death
  <2>2. CASE DiesInSave(p)
    <3>1. PICK file \in Unreadable : state' = [state EXCEPT ![proc[p].at] = file]
      BY <2>2 DEF DiesInSave
    <3>2. proc[p].at \in Nodes
      BY <1>0, <2>2 DEF DiesInSave, WritesState, Final
    <3>3. \A n \in Nodes : Readable(n)' => Named(St(n)')
      <4> TAKE n \in Nodes
      <4>1. n # proc[p].at => state'[n] = state[n]
        BY <3>1, <3>2, StateLost
      <4> QED BY <3>1, <3>2, <4>1, StateLost, Kept DEF NamesInv
    <3>4. \A s \in snaps' : Named(s.st)
      BY <2>2 DEF NamesInv, DiesInSave
    <3> QED BY <1>1, <1>17, <3>3, <3>4, NamesOf DEF Death
  <2> QED BY <1>17, <2>1, <2>2
          DEF Death, DiesBetween, DiesInExec, DiesInAppend, DiesUnended, DiesInChain, disk
<1> QED BY <1>3, <1>5, <1>6, <1>7, <1>8, <1>9, <1>10, <1>11, <1>13, <1>14, <1>15, <1>16, <1>17
        DEF Does
(* The tip that state.json carries names the charge of its last session,   *)
(* whichever command wrote it and whoever else was at work (RFC-004 D6).   *)
LEMMA NamesAlways == Spec => []NamesInv
<1>1. Init => NamesInv
  <2> SUFFICES ASSUME Init PROVE NamesInv
    OBVIOUS
  <2>1. \A n \in Nodes : St(n) = EmptyState
    BY DEF Init, St, Loaded
  <2>2. \A p \in Procs : proc[p] = Idle
    BY DEF Init
  <2>3. snaps = {}
    BY DEF Init
  <2> QED BY <2>1, <2>2, <2>3 DEF NamesInv, Named, EmptyState, Idle, Carrying, Charging
<1>2. IInv /\ NamesInv /\ [Next]_vars => NamesInv'
  <2>1. CASE UNCHANGED vars
    BY <2>1 DEF vars, NamesInv, Readable, St, Carrying, Charging
  <2>2. IInv /\ NamesInv /\ Next => NamesInv'
    BY NextDoes, NamesStep
  <2> QED BY <2>1, <2>2
<1> QED BY <1>1, <1>2, Invariance, PTL DEF Spec

(* A state and its tip are saved together: the tip is the charge of the    *)
(* last session, or there is none and no session either (RFC-002 D4).      *)
THEOREM TipNames == Spec => []TipNamesLastSession
<1>1. NamesInv => TipNamesLastSession
  BY DEF NamesInv, Named, TipNamesLastSession
<1> QED BY <1>1, NamesAlways, PTL

-----------------------------------------------------------------------------
(* A step that changes a ledger is taken by the invocation that is there.  *)
LEMMA LedgersStand ==
  ASSUME IInv, NEW p \in Procs, Does(p), NEW n \in Nodes,
         proc[p].pc \in Final \/ proc[p].at # n
  PROVE  log'[n] = log[n] /\ open'[n] = open[n] /\ haslog'[n] = haslog[n]
<1>1. ASSUME UNCHANGED <<log, open, haslog>>
      PROVE  log'[n] = log[n] /\ open'[n] = open[n] /\ haslog'[n] = haslog[n]
  BY <1>1
<1>2. CASE Writes(p) \/ Adopts(p) \/ DiesInAppend(p) \/ DiesUnended(p) \/ DiesInChain(p)
  <2>1. proc[p].pc \notin Final
    BY <1>2 DEF Writes, Adopts, DiesInAppend, DiesUnended, DiesInChain, Final
  <2> QED BY <1>2, <2>1 DEF Writes, Adopts, DiesInAppend, DiesUnended, DiesInChain, IInv, DiskInv
<1> QED BY <1>1, <1>2
        DEF Does, Quits, StartsRun, StartsPlain, StartsMemory, StartsExport, StartsImport,
            Starts, Executes, Accounts, Saves, Exports, Skips, Installs,
            Death, DiesBetween, DiesInExec, DiesInSave, disk

LEMMA SnapsGrow ==
  ASSUME NEW p \in Procs, Does(p)
  PROVE  snaps \subseteq snaps'
BY DEF Does, Quits, StartsRun, StartsPlain, StartsMemory, StartsExport, StartsImport,
       Starts, Executes, Accounts, Writes, Saves, Exports, Skips, Installs, Adopts,
       Death, DiesBetween, DiesInExec, DiesInAppend, DiesUnended, DiesInSave, DiesInChain, disk

(* Nothing but an export adds a snapshot.                                  *)
LEMMA NewSnap ==
  ASSUME NEW p \in Procs, Does(p), NEW s \in snaps', s \notin snaps
  PROVE  /\ Exports(p) /\ proc[p].pc = "collect"
         /\ s.recs = log[proc[p].at] /\ s.st = proc[p].st
<1>1. CASE Exports(p)
  BY <1>1 DEF Exports
<1>2. ASSUME ~Exports(p) PROVE snaps' = snaps
  <2>1. CASE Quits(p)
    BY <2>1 DEF Quits, disk
  <2>2. ASSUME NEW n \in Nodes,
               StartsRun(p, n) \/ StartsPlain(p, n) \/ StartsMemory(p, n) \/ StartsExport(p, n)
        PROVE  snaps' = snaps
    BY <2>2 DEF StartsRun, StartsPlain, StartsMemory, StartsExport, Starts, disk
  <2>3. ASSUME NEW n \in Nodes, NEW x \in snaps, StartsImport(p, n, x) PROVE snaps' = snaps
    BY <2>3 DEF StartsImport, Starts, disk
  <2>4. CASE Executes(p) \/ Accounts(p) \/ Writes(p) \/ Saves(p)
    BY <2>4 DEF Executes, Accounts, Writes, Saves, disk
  <2>5. CASE Skips(p) \/ Installs(p) \/ Adopts(p)
    BY <2>5 DEF Skips, Installs, Adopts, disk
  <2>6. CASE Death(p)
    BY <2>6 DEF Death, DiesBetween, DiesInExec, DiesInAppend, DiesUnended, DiesInSave,
                DiesInChain, disk
  <2> QED BY <1>2, <2>1, <2>2, <2>3, <2>4, <2>5, <2>6 DEF Does
<1> QED BY <1>1, <1>2

LEMMA FreshStep ==
  ASSUME IInv, FreshInv, NEW p \in Procs, Alone(p), Does(p)
  PROVE  FreshInv'
<1>0. /\ proc[p] \in Invocation /\ proc[p].st \in State /\ Stage(p)
      /\ proc[p].pc \notin Final => proc[p].at \in Nodes
  BY Mover
<1>1. \A n \in Nodes : (~haslog'[n] => log'[n] = << >>) /\ (open'[n] => crashes' # 0)
  <2> TAKE n \in Nodes
  <2>0. crashes' # 0 \/ (crashes' = crashes /\ ~Death(p))
    <3>1. crashes \in Nat
      BY DEF IInv, CountInv
    <3> QED BY <3>1 DEF Does, Quits, StartsRun, StartsPlain, StartsMemory, StartsExport,
            StartsImport, Starts, Executes, Accounts, Writes, Saves, Exports, Skips, Installs,
            Adopts, Death
  <2>1. CASE proc[p].pc \in Final \/ proc[p].at # n
    BY <2>0, <2>1, LedgersStand DEF FreshInv
  <2>2. CASE proc[p].pc \notin Final /\ proc[p].at = n
    <3>1. CASE UNCHANGED <<log, open, haslog>>
      BY <2>0, <3>1 DEF FreshInv
    <3>2. CASE Writes(p) \/ Adopts(p) \/ DiesInAppend(p)
      BY <2>2, <3>2 DEF Writes, Adopts, DiesInAppend, IInv, DiskInv
    <3>3. CASE Death(p) /\ (DiesUnended(p) \/ DiesInChain(p))
      BY <2>0, <2>2, <3>3 DEF DiesUnended, DiesInChain, IInv, DiskInv
    <3> QED BY <3>1, <3>2, <3>3
        DEF Does, Quits, StartsRun, StartsPlain, StartsMemory, StartsExport, StartsImport,
            Starts, Executes, Accounts, Saves, Exports, Skips, Installs,
            Death, DiesBetween, DiesInExec, DiesInSave, disk
  <2> QED BY <2>1, <2>2
<1>2. ASSUME NEW q \in Procs \ {p}
      PROVE  /\ proc'[q].cmd = "import" /\ Active(q)' =>
                  proc'[q].snap \in snaps' /\ proc'[q].st = proc'[q].snap.st
             /\ proc'[q].pc = "chain" => proc'[q].cmd = "import" /\ ~haslog'[proc'[q].at]
  <2>1. proc'[q] = proc[q]
    BY DEF Alone
  <2>2. ASSUME proc[q].pc = "chain" PROVE ~haslog'[proc[q].at]
    <3>1. Active(q) /\ proc[q].cmd = "import" /\ ~haslog[proc[q].at] /\ proc[q].at \in Nodes
      BY <2>2, Mover DEF FreshInv, Active, Final
    <3>2. proc[p].pc \in Final \/ proc[p].at # proc[q].at
      BY <3>1 DEF IInv, ProcInv, ImportAlone, Active
    <3> QED BY <3>1, <3>2, LedgersStand
  <2> QED BY <2>1, <2>2, SnapsGrow DEF FreshInv, Active
<1>3. /\ proc'[p].cmd = "import" /\ Active(p)' =>
           proc'[p].snap \in snaps' /\ proc'[p].st = proc'[p].snap.st
      /\ proc'[p].pc = "chain" => proc'[p].cmd = "import" /\ ~haslog'[proc'[p].at]
  <2>1. ASSUME Ends(p) PROVE ~Active(p)' /\ proc'[p].pc # "chain"
    BY <2>1 DEF Ends, Active, Final
  <2>2. CASE \E n \in Nodes : StartsRun(p, n) \/ StartsPlain(p, n) \/ StartsMemory(p, n)
                              \/ StartsExport(p, n)
    BY <2>2 DEF StartsRun, StartsPlain, StartsMemory, StartsExport, Starts, Becomes
  <2>3. ASSUME NEW n \in Nodes, NEW s \in snaps, StartsImport(p, n, s)
        PROVE  /\ proc'[p].snap \in snaps' /\ proc'[p].st = proc'[p].snap.st
               /\ proc'[p].pc # "chain"
    BY <2>3 DEF StartsImport, Starts, Becomes, disk
  <2>4. CASE Executes(p) \/ Accounts(p)
    BY <1>0, <2>1, <2>4 DEF Executes, Accounts, GoesOn, Becomes, Stage
  <2>5. CASE Writes(p)
    BY <2>1, <2>5 DEF Writes, GoesOn, Becomes
  <2>6. CASE Skips(p) \/ Adopts(p) \/ Installs(p)
    <3>1. proc[p].cmd = "import" /\ Active(p)
      BY <1>0, <2>6 DEF Skips, Adopts, Installs, Stage, Active, Final
    <3>2. proc[p].snap \in snaps /\ proc[p].st = proc[p].snap.st
      BY <3>1 DEF FreshInv
    <3> QED BY <2>6, <3>1, <3>2, SnapsGrow DEF Skips, Adopts, Installs, GoesOn, Becomes
  <2> QED BY <2>1, <2>2, <2>3, <2>4, <2>5, <2>6 DEF Does, Quits, Saves, Exports, Death
<1> QED BY <1>1, <1>2, <1>3 DEF FreshInv

LEMMA FreshAlways == Spec => []FreshInv
<1>1. Init => FreshInv
  <2> SUFFICES ASSUME Init PROVE FreshInv
    OBVIOUS
  <2>1. \A p \in Procs : proc[p] = Idle
    BY DEF Init
  <2>2. \A n \in Nodes : log[n] = << >>
    BY DEF Init
  <2>3. \A n \in Nodes : ~open[n]
    BY DEF Init
  <2> QED BY <2>1, <2>2, <2>3 DEF FreshInv, Idle, Active, Final
<1>2. IInv /\ FreshInv /\ [Next]_vars => FreshInv'
  <2>1. CASE UNCHANGED vars
    BY <2>1 DEF vars, FreshInv, Active
  <2>2. IInv /\ FreshInv /\ Next => FreshInv'
    BY NextDoes, FreshStep
  <2> QED BY <2>1, <2>2
<1> QED BY <1>1, <1>2, Invariance, PTL DEF Spec

-----------------------------------------------------------------------------
(***************************************************************************)
(* What the verifier accepts of a ledger.                                  *)
(***************************************************************************)
\* The first k lines link, and no more.
Reaches(l, k) ==
  /\ k \in 0..Len(l)
  /\ \A i \in 1..k : Links(l, i)
  /\ k < Len(l) => ~Links(l, k + 1)

\* What the first k records of a chain say.
Told(l, k) == [j \in 1..k |-> [seq |-> j, body |-> l[j].body]]

LEMMA ReachExists ==
  ASSUME NEW l \in Seq(Line)
  PROVE  \E k \in Nat : Reaches(l, k)
<1> DEFINE T == {i \in Nat : i < Len(l) /\ ~Links(l, i + 1)}
<1>0. Len(l) \in Nat
  BY LenProperties
<1>1. CASE T = {}
  <2>1. \A i \in 1..Len(l) : Links(l, i)
    <3> SUFFICES ASSUME NEW i \in 1..Len(l), ~Links(l, i) PROVE FALSE
      OBVIOUS
    <3>1. (i - 1) + 1 = i /\ i - 1 \in Nat /\ i - 1 < Len(l)
      BY <1>0
    <3>2. i - 1 \in T
      BY <3>1
    <3> QED BY <1>1, <3>2
  <2> QED BY <1>0, <2>1 DEF Reaches
<1>2. CASE T # {}
  <2>1. PICK k \in T : \A i \in T : k <= i
    <3>1. T \in SUBSET Nat
      OBVIOUS
    <3> HIDE DEF T
    <3> QED BY <1>2, <3>1, FirstExists
  <2>2. \A i \in 1..k : Links(l, i)
    <3> SUFFICES ASSUME NEW i \in 1..k, ~Links(l, i) PROVE FALSE
      OBVIOUS
    <3>1. (i - 1) + 1 = i /\ i - 1 \in Nat /\ i - 1 < Len(l) /\ i - 1 < k
      BY <1>0
    <3>2. i - 1 \in T
      BY <3>1
    <3> QED BY <2>1, <3>1, <3>2
  <2> QED BY <1>0, <2>2 DEF Reaches
<1> QED BY <1>1, <1>2

LEMMA Telling ==
  ASSUME NEW l \in Seq(Line), NEW k \in Nat, k <= Len(l), \A i \in 1..k : Links(l, i)
  PROVE  \A i \in 1..k : l[i].h \in Digest /\ l[i].h = Told(l, i)
<1> DEFINE e == [i \in 1..k |-> [seq |-> i, body |-> l[i].body]]
           h == [i \in 1..k |-> l[i].h]
<1>1. \A i \in 1..k : l[i] \in Record
  <2>1. Len(l) \in Nat
    BY LenProperties
  <2>2. \A i \in 1..k : l[i] \in Line /\ IsRecord(l[i])
    BY <2>1, ElementOfSeq DEF Links
  <2> QED BY <2>2 DEF Line, IsRecord
<1>2. e \in [1..k -> Entry]
  <2>1. \A i \in 1..k : l[i].body \in Body
    BY <1>1 DEF Record
  <2> QED BY <2>1 DEF Entry
<1>3. \A i \in 1..k : h[i] = Append(IF i = 1 THEN << >> ELSE h[i - 1], e[i])
  <2> SUFFICES ASSUME NEW i \in 1..k
               PROVE  h[i] = Append(IF i = 1 THEN << >> ELSE h[i - 1], e[i])
    OBVIOUS
  <2>1. /\ l[i].prev = IF i = 1 THEN << >> ELSE l[i - 1].h
        /\ l[i].h = Append(l[i].prev, [seq |-> i, body |-> l[i].body])
    BY DEF Links, Hash, Genesis
  <2>2. i # 1 => i - 1 \in 1..k
    OBVIOUS
  <2>3. h[i] = l[i].h /\ e[i] = [seq |-> i, body |-> l[i].body]
        /\ (i # 1 => h[i - 1] = l[i - 1].h)
    BY <2>2
  <2> DEFINE before == IF i = 1 THEN << >> ELSE h[i - 1]
  <2>4. l[i].prev = before
    BY <2>1, <2>3
  <2> HIDE DEF h, e, before
  <2>5. h[i] = Append(before, e[i])
    BY <2>1, <2>3, <2>4
  <2> QED BY <2>5 DEF before
<1>4. \A i \in 1..k : h[i] \in Seq(Entry) /\ h[i] = Firsts(e, i)
  <2>1. Grows(h, e, k)
    BY <1>3 DEF Grows
  <2> HIDE DEF e, h
  <2> QED BY <1>2, <2>1, DigestsByPlace
<1>5. ASSUME NEW i \in 1..k PROVE Firsts(e, i) = Told(l, i)
  <2>1. \A j \in 1..i : j \in 1..k
    OBVIOUS
  <2>2. \A j \in 1..i : e[j] = [seq |-> j, body |-> l[j].body]
    BY <2>1
  <2> HIDE DEF e
  <2> QED BY <2>2, Zenon DEF Firsts, Told
<1>6. \A i \in 1..k : h[i] = l[i].h
  OBVIOUS
<1> HIDE DEF e, h
<1> QED BY <1>4, <1>5, <1>6 DEF Digest

LEMMA BeginningType ==
  ASSUME NEW S, NEW l \in Seq(S), NEW k \in 0..Len(l)
  PROVE  /\ SubSeq(l, 1, k) \in Seq(S) /\ Len(SubSeq(l, 1, k)) = k
         /\ \A i \in 1..k : SubSeq(l, 1, k)[i] = l[i]
<1>1. Len(l) \in Nat /\ k \in Nat
  BY LenProperties
<1>2. \A i \in 1..k : l[i] \in S
  BY <1>1, ElementOfSeq
<1>3. /\ SubSeq(l, 1, k) \in Seq(S)
      /\ Len(SubSeq(l, 1, k)) = IF 1 <= k THEN k - 1 + 1 ELSE 0
      /\ \A i \in 1..(k - 1 + 1) : SubSeq(l, 1, k)[i] = l[1 + i - 1]
  BY <1>1, <1>2, SubSeqProperties
<1> QED BY <1>1, <1>3

(* The verifier's tip of a ledger is what its linked records say.          *)
LEMMA VerifiedIs ==
  ASSUME NEW l \in Seq(Line), NEW k \in Nat, Reaches(l, k)
  PROVE  Verified(l) = Told(l, k) /\ Verified(l) \in Digest /\ Len(Verified(l)) = k
<1>0. Len(l) \in Nat /\ k <= Len(l)
  BY LenProperties DEF Reaches
<1>1. {j \in 1..Len(l) : \A i \in 1..j : Links(l, i)} = 1..k
  <2>1. ASSUME NEW j \in 1..Len(l), \A i \in 1..j : Links(l, i) PROVE j <= k
    <3>1. k < j => k + 1 \in 1..j
      BY <1>0
    <3> QED BY <1>0, <2>1, <3>1 DEF Reaches
  <2>2. \A j \in 1..k : j \in 1..Len(l) /\ \A i \in 1..j : Links(l, i)
    BY <1>0 DEF Reaches
  <2> QED BY <1>0, <2>1, <2>2
<1>2. Cardinality(1..k) = k
  <2>1. Cardinality(1..k) = IF 1 > k THEN 0 ELSE k - 1 + 1
    BY FS_Interval
  <2> QED BY <2>1
<1>3. Verified(l) = ChainTip(SubSeq(l, 1, k))
  BY <1>1, <1>2 DEF Verified
<1> DEFINE m == SubSeq(l, 1, k)
<1>4. Len(m) = k /\ m \in Seq(Line) /\ \A i \in 1..k : m[i] = l[i]
  BY <1>0, BeginningType
<1>5. CASE k = 0
  <2>1. m = << >>
    <3> HIDE DEF m
    <3> QED BY <1>4, <1>5, EmptySeq
  <2>2. Told(l, k) = << >>
    <3>1. Told(l, 0) = << >>
      BY DEF Told
    <3> QED BY <1>5, <3>1
  <2>3. << >> \in Digest /\ Len(<< >>) = 0
    BY EmptySeq DEF Digest
  <2> HIDE DEF m
  <2> QED BY <1>3, <1>5, <2>1, <2>2, <2>3 DEF ChainTip, Genesis, m
<1>6. CASE k # 0
  <2>1. m # << >> /\ ChainTip(m) = l[k].h
    <3> HIDE DEF m
    <3> QED BY <1>4, <1>6, EmptySeq DEF ChainTip
  <2>2. l[k].h \in Digest /\ l[k].h = Told(l, k)
    <3>1. k \in 1..k
      BY <1>6
    <3> QED BY <1>0, <3>1, Telling DEF Reaches
  <2>3. DOMAIN Told(l, k) = 1..k
    BY DEF Told
  <2>4. Len(l[k].h) = k
    BY <2>2, <2>3, LenProperties DEF Digest
  <2> QED BY <1>3, <2>1, <2>2, <2>4
<1> QED BY <1>5, <1>6

(* Two ledgers that link as far and say the same there.                    *)
LEMMA SameTold ==
  ASSUME NEW l \in Seq(Line), NEW m \in Seq(Line), NEW k \in Nat,
         Reaches(l, k), Reaches(m, k), \A i \in 1..k : m[i] = l[i]
  PROVE  Verified(m) = Verified(l)
<1>1. Told(l, k) = Told(m, k)
  BY Zenon DEF Told
<1> QED BY <1>1, VerifiedIs

(* Behind what links, nothing counts.                                      *)
LEMMA SameBeginning ==
  ASSUME NEW l \in Seq(Line), NEW m \in Seq(Line), NEW k \in Nat,
         Reaches(l, k), k <= Len(m), \A i \in 1..k : m[i] = l[i],
         k < Len(m) => ~IsRecord(m[k + 1]) \/ (k < Len(l) /\ m[k + 1] = l[k + 1])
  PROVE  Verified(m) = Verified(l)
<1>0. Len(l) \in Nat /\ Len(m) \in Nat
  BY LenProperties
<1>1. ASSUME NEW i \in 1..(k + 1), m[i] = l[i] PROVE Links(m, i) <=> Links(l, i)
  <2>1. i # 1 => m[i - 1] = l[i - 1]
    <3>1. i # 1 => i - 1 \in 1..k
      OBVIOUS
    <3> QED BY <3>1
  <2> QED BY <1>1, <2>1 DEF Links
<1>2. \A i \in 1..k : Links(m, i)
  BY <1>1 DEF Reaches
<1>3. k < Len(m) => ~Links(m, k + 1)
  <2>1. k + 1 \in 1..(k + 1)
    OBVIOUS
  <2>2. k < Len(l) => ~Links(l, k + 1)
    BY DEF Reaches
  <2>3. ~IsRecord(m[k + 1]) => ~Links(m, k + 1)
    BY DEF Links
  <2> QED BY <1>1, <2>1, <2>2, <2>3
<1>4. Reaches(m, k)
  BY <1>0, <1>2, <1>3 DEF Reaches
<1> QED BY <1>4, SameTold

(* A chain that verifies is accepted to its end ...                        *)
LEMMA WholeChain ==
  ASSUME NEW l \in Seq(Line), ChainOk(l)
  PROVE  Len(l) \in Nat /\ Reaches(l, Len(l))
<1>1. Len(l) \in Nat
  BY LenProperties
<1> QED BY <1>1 DEF Reaches, ChainOk

(* ... and of a part that is installed, as far as it goes.                 *)
LEMMA PartOfChain ==
  ASSUME NEW l \in Seq(Line), ChainOk(l), NEW k \in 0..Len(l), NEW m \in Seq(Line),
         k <= Len(m), \A i \in 1..k : m[i] = l[i], k < Len(m) => ~IsRecord(m[k + 1])
  PROVE  Verified(m) = SubSeq(Verified(l), 1, k)
<1>0. Len(l) \in Nat /\ Len(m) \in Nat /\ k \in Nat /\ k <= Len(l)
  BY LenProperties
<1>1. \A i \in 1..k : Links(m, i)
  <2> TAKE i \in 1..k
  <2>1. Links(l, i)
    BY <1>0 DEF ChainOk
  <2>2. i # 1 => m[i - 1] = l[i - 1]
    <3>1. i # 1 => i - 1 \in 1..k
      BY <1>0
    <3> QED BY <3>1
  <2> QED BY <2>1, <2>2 DEF Links
<1>2. k < Len(m) => ~Links(m, k + 1)
  BY DEF Links
<1>3. Reaches(m, k)
  BY <1>0, <1>1, <1>2 DEF Reaches
<1>4. Verified(m) = Told(m, k)
  BY <1>0, <1>3, VerifiedIs
<1>5. Told(m, k) = Told(l, k)
  BY Zenon DEF Told
<1> DEFINE v == Verified(l)
           part == SubSeq(v, 1, k)
<1>6. v = Told(l, Len(l)) /\ v \in Seq(Entry) /\ Len(v) = Len(l)
  BY <1>0, WholeChain, VerifiedIs DEF Digest
<1>7. part \in Seq(Entry) /\ Len(part) = k /\ \A i \in 1..k : part[i] = v[i]
  <2> HIDE DEF v
  <2>1. k \in 0..Len(v)
    BY <1>0, <1>6
  <2> QED BY <1>6, <2>1, BeginningType
<1>8. \A i \in 1..k : v[i] = [seq |-> i, body |-> l[i].body]
  <2>1. \A i \in 1..k : i \in 1..Len(l)
    BY <1>0
  <2> HIDE DEF v
  <2> QED BY <1>6, <2>1 DEF Told
<1>9. part = [i \in 1..k |-> part[i]]
  <2> HIDE DEF part
  <2> QED BY <1>7, LenProperties
<1>10. part = Told(l, k)
  <2>1. \A i \in 1..k : part[i] = [seq |-> i, body |-> l[i].body]
    <3> HIDE DEF v, part
    <3> QED BY <1>7, <1>8
  <2> HIDE DEF part
  <2> QED BY <1>9, <2>1, Zenon DEF Told
<1> QED BY <1>4, <1>5, <1>10

(* A line of its own commits one entry, or nothing if the ledger is damaged. *)
LEMMA AppendCommits ==
  ASSUME NEW l \in Seq(Line), NEW r \in Record, r = NextRecord(l, r.body),
         AllRecords(l) => ChainOk(l), NEW v, v = Verified(Append(l, r))
  PROVE  IF AllRecords(l)
         THEN /\ Len(v) = Len(Verified(l)) + 1
              /\ SubSeq(v, 1, Len(Verified(l))) = Verified(l)
              /\ v[Len(v)] \in [seq : {Len(v)}, body : Body]
         ELSE v = Verified(l) /\ ~AllRecords(Append(l, r))
<1> DEFINE m == Append(l, r)
<1>0. Len(l) \in Nat /\ r \in Line /\ r.body \in Body
  BY LenProperties DEF Line, Record
<1>1. /\ m \in Seq(Line) /\ Len(m) = Len(l) + 1 /\ m[Len(l) + 1] = r
      /\ \A i \in 1..Len(l) : m[i] = l[i]
  BY <1>0, AppendProperties
<1>2. PICK k \in Nat : Reaches(l, k)
  BY ReachExists
<1>3. CASE ~AllRecords(l)
  <2>1. PICK i \in 1..Len(l) : ~IsRecord(l[i])
    BY <1>3 DEF AllRecords
  <2>2. k < Len(l)
    <3>1. ~Links(l, i)
      BY <2>1 DEF Links
    <3> QED BY <1>0, <1>2, <3>1 DEF Reaches
  <2> HIDE DEF m
  <2>3. \A j \in 1..k : m[j] = l[j]
    BY <1>0, <1>1, <2>2
  <2>4. k <= Len(m) /\ m[k + 1] = l[k + 1]
    BY <1>0, <1>1, <2>2
  <2>5. Verified(m) = Verified(l)
    BY <1>1, <1>2, <2>2, <2>3, <2>4, SameBeginning
  <2>6. ~AllRecords(m)
    <3>1. i \in 1..Len(m) /\ m[i] = l[i]
      BY <1>0, <1>1
    <3> QED BY <2>1, <3>1 DEF AllRecords
  <2> QED BY <1>3, <2>5, <2>6 DEF m
<1>4. CASE AllRecords(l)
  <2> DEFINE n == Len(l)
             old == Verified(l)
  <2>1. ChainOk(l) /\ ChainOk(m)
    BY <1>4, AppendKeepsChain
  <2> HIDE DEF m
  <2>2. old = SubSeq(Verified(m), 1, n)
    <3>1. n \in 0..Len(m) /\ n <= Len(l) /\ ~(n < Len(l)) /\ \A i \in 1..n : l[i] = m[i]
      BY <1>0, <1>1
    <3> HIDE DEF n
    <3> QED BY <1>1, <2>1, <3>1, PartOfChain
  <2>3. Verified(m) = Told(m, n + 1) /\ Len(Verified(m)) = n + 1
    BY <1>0, <1>1, <2>1, WholeChain, VerifiedIs
  <2>4. Len(old) = n
    BY <1>0, <2>1, WholeChain, VerifiedIs
  <2>5. Told(m, n + 1)[n + 1] = [seq |-> n + 1, body |-> r.body]
    <3> HIDE DEF n
    <3> QED BY <1>0, <1>1 DEF Told, n
  <2>6. v = Verified(m)
    BY DEF m
  <2> HIDE DEF old, n
  <2>7. Len(v) = n + 1 /\ v[n + 1] = [seq |-> n + 1, body |-> r.body]
    BY <2>3, <2>5, <2>6
  <2>8. v[Len(v)] \in [seq : {Len(v)}, body : Body]
    BY <1>0, <2>7
  <2>9. Len(v) = Len(old) + 1 /\ SubSeq(v, 1, Len(old)) = old
    BY <2>2, <2>4, <2>6, <2>7
  <2> QED BY <1>4, <2>8, <2>9 DEF old
<1> QED BY <1>3, <1>4

(* A line that joins another withdraws it, where it was the last of a chain. *)
LEMMA JoinCommits ==
  ASSUME NEW l \in Seq(Line), NEW o \in BOOLEAN, o => l # << >>, ~Ended(l, o),
         AllRecords(l) => ChainOk(l), NEW x \in {Torn, Junk},
         NEW v, v = Verified([l EXCEPT ![Len(l)] = x])
  PROVE  IF AllRecords(l)
         THEN o /\ v = SubSeq(Verified(l), 1, Len(Verified(l)) - 1)
         ELSE v = Verified(l)
<1> DEFINE m == [l EXCEPT ![Len(l)] = x]
<1>1. /\ Len(l) \in Nat /\ Len(l) \in 1..Len(l) /\ x \in Line /\ ~IsRecord(x)
  BY JoinedLine, LenProperties DEF Line, IsRecord
<1>2. /\ m \in Seq(Line) /\ Len(m) = Len(l) /\ m[Len(l)] = x
      /\ \A i \in 1..Len(l) : i # Len(l) => m[i] = l[i]
  BY <1>1, ExceptSeq
<1> HIDE DEF m
<1>3. CASE AllRecords(l)
  <2> DEFINE k == Len(l) - 1
  <2>1. o
    BY <1>1, <1>3 DEF Ended, EndsTorn, AllRecords, IsRecord
  <2>2. /\ k \in 0..Len(l) /\ k <= Len(m) /\ (k < Len(m) => ~IsRecord(m[k + 1]))
        /\ \A i \in 1..k : m[i] = l[i]
    BY <1>1, <1>2
  <2>3. Len(Verified(l)) - 1 = k
    BY <1>1, <1>3, WholeChain, VerifiedIs
  <2> HIDE DEF k
  <2>4. Verified(m) = SubSeq(Verified(l), 1, k)
    BY <1>2, <1>3, <2>2, PartOfChain
  <2> QED BY <1>3, <2>1, <2>3, <2>4 DEF m
<1>4. CASE ~AllRecords(l)
  <2>1. PICK k \in Nat : Reaches(l, k)
    BY ReachExists
  <2>2. k < Len(l)
    <3>1. PICK i \in 1..Len(l) : ~IsRecord(l[i])
      BY <1>4 DEF AllRecords
    <3>2. ~Links(l, i)
      BY <3>1 DEF Links
    <3> QED BY <1>1, <2>1, <3>2 DEF Reaches
  <2>3. \A i \in 1..k : m[i] = l[i]
    BY <1>1, <1>2, <2>2
  <2>4. ~IsRecord(m[k + 1]) \/ (k < Len(l) /\ m[k + 1] = l[k + 1])
    BY <1>1, <1>2, <2>2
  <2>5. Verified(m) = Verified(l)
    BY <1>2, <2>1, <2>2, <2>3, <2>4, SameBeginning
  <2> QED BY <1>4, <2>5 DEF m
<1> QED BY <1>3, <1>4

(* A line of its own that is cut short commits nothing.                    *)
LEMMA TearCommits ==
  ASSUME NEW l \in Seq(Line)
  PROVE  Verified(Append(l, Torn)) = Verified(l)
<1> DEFINE m == Append(l, Torn)
<1>1. Len(l) \in Nat /\ Torn \in Line /\ ~IsRecord(Torn)
  BY LenProperties DEF Line, IsRecord
<1>2. /\ m \in Seq(Line) /\ Len(m) = Len(l) + 1 /\ m[Len(l) + 1] = Torn
      /\ \A i \in 1..Len(l) : m[i] = l[i]
  BY <1>1, AppendProperties
<1>3. PICK k \in Nat : Reaches(l, k)
  BY ReachExists
<1> HIDE DEF m
<1>4. \A i \in 1..k : m[i] = l[i]
  BY <1>1, <1>2, <1>3 DEF Reaches
<1>5. k <= Len(m) /\ (~IsRecord(m[k + 1]) \/ (k < Len(l) /\ m[k + 1] = l[k + 1]))
  BY <1>1, <1>2, <1>3 DEF Reaches
<1>6. Verified(m) = Verified(l)
  BY <1>2, <1>3, <1>4, <1>5, SameBeginning
<1> QED BY <1>6 DEF m

-----------------------------------------------------------------------------
(* The nodes whose last record may yet be destroyed.                       *)
Loose == {n \in Nodes : open[n] /\ AllRecords(log[n])}

LEMMA LooseStep ==
  ASSUME NEW n \in Nodes, \A m \in Nodes \ {n} : log'[m] = log[m] /\ open'[m] = open[m]
  PROVE  Loose' = IF open'[n] /\ AllRecords(log'[n]) THEN Loose \cup {n} ELSE Loose \ {n}
BY DEF Loose

(* A step of p, as LedgerHistory sees it: one of the ledgers changes ...   *)
LEMMA HistoryStep ==
  ASSUME IInv, FreshInv, NEW p \in Procs, Does(p), UNCHANGED snaps
  PROVE  [History!Next]_(History!vars)
<1>0. /\ proc[p] \in Invocation /\ proc[p].st \in State /\ Stage(p)
      /\ proc[p].pc \notin Final => proc[p].at \in Nodes
  BY Mover
<1> DEFINE n == proc[p].at
           before == [m \in Nodes |-> Verified(log[m])]
           after == [m \in Nodes |-> Verified(log'[m])]
           out == {Verified(s.recs) : s \in snaps}
<1>1. ASSUME \A m \in Nodes : Verified(log'[m]) = Verified(log[m]), Loose' = Loose
      PROVE  [History!Next]_(History!vars)
  <2>1. before' = before
    BY <1>1
  <2>2. out' = out
    OBVIOUS
  <2> QED BY <1>1, <2>1, <2>2 DEF History!vars, Loose
<1>2. CASE UNCHANGED <<log, open>>
  <2>1. Loose' = Loose
    BY <1>2 DEF Loose
  <2> QED BY <1>1, <1>2, <2>1
<1>3. ASSUME Writes(p) \/ Adopts(p) \/ DiesInAppend(p) \/ DiesUnended(p) \/ DiesInChain(p)
      PROVE  /\ n \in Nodes /\ proc[p].pc \notin Final /\ log \in [Nodes -> Seq(Line)]
             /\ open \in [Nodes -> BOOLEAN] /\ (open[n] => log[n] # << >>)
             /\ AllRecords(log[n]) => ChainOk(log[n])
             /\ \A m \in Nodes \ {n} : log'[m] = log[m] /\ open'[m] = open[m]
  <2>1. proc[p].pc \notin Final
    BY <1>3 DEF Writes, Adopts, DiesInAppend, DiesUnended, DiesInChain, Final
  <2> QED BY <1>0, <1>3, <2>1, LedgersStand DEF IInv, DiskInv, OpenEnds, ChainIntact
<1> DEFINE o == open[n]
           l == log[n]
<1>7. ASSUME Writes(p) \/ DiesUnended(p), Ended(l, o), log'[n] = Append(l, proc[p].rec)
      PROVE  [History!Next]_(History!vars)
  <2> DEFINE v == Verified(Append(l, proc[p].rec))
             old == Verified(l)
  <2>1. IF AllRecords(l)
        THEN /\ Len(v) = Len(old) + 1 /\ SubSeq(v, 1, Len(old)) = old
             /\ v[Len(v)] \in [seq : {Len(v)}, body : Body]
        ELSE v = old /\ ~AllRecords(Append(l, proc[p].rec))
    <3>1. /\ proc[p].rec \in Record /\ proc[p].rec = NextRecord(l, proc[p].rec.body)
      BY <1>0, <1>7 DEF Stage, Writes, DiesUnended
    <3>2. l \in Seq(Line) /\ (AllRecords(l) => ChainOk(l))
      BY <1>3, <1>7
    <3> HIDE DEF l
    <3> QED BY <3>1, <3>2, AppendCommits
  <2>2. /\ n \in Nodes /\ n \notin Loose
        /\ Loose' = IF open'[n] /\ AllRecords(log'[n]) THEN Loose \cup {n} ELSE Loose \ {n}
    <3>1. n \in Nodes /\ n \notin Loose
      BY <1>3, <1>7 DEF Loose, Ended
    <3> HIDE DEF n
    <3> QED BY <1>3, <1>7, <3>1, LooseStep
  <2>3. CASE ~AllRecords(l)
    <3>1. \A m \in Nodes : Verified(log'[m]) = Verified(log[m])
      BY <1>3, <1>7, <2>1, <2>3
    <3>2. Loose' = Loose
      BY <1>7, <2>1, <2>2, <2>3
    <3> QED BY <1>1, <3>1, <3>2
  <2>4. CASE AllRecords(l)
    <3>1. after[n] = v /\ before[n] = old /\ n \in Nodes
      BY <1>3, <1>7
    <3>2. \A m \in Nodes \ {n} : after[m] = before[m]
      BY <1>3, <1>7
    <3>3. out' = out
      OBVIOUS
    <3>4. before' = after
      OBVIOUS
    <3>6. Loose' \in {Loose, Loose \cup {n}}
      BY <2>2
    <3> HIDE DEF v, old, before, after, out
    <3>5. /\ Len(before'[n]) = Len(before[n]) + 1
          /\ SubSeq(before'[n], 1, Len(before[n])) = before[n]
          /\ before'[n][Len(before'[n])] \in [seq : {Len(before'[n])}, body : Body]
          /\ \A m \in Nodes \ {n} : before'[m] = before[m]
          /\ UNCHANGED out
      BY <2>1, <2>4, <3>1, <3>2, <3>3, <3>4
    <3> QED BY <2>2, <3>5, <3>6 DEF History!Next, History!Commit, before, out, Loose
  <2> QED BY <2>3, <2>4
<1>8. ASSUME Writes(p) \/ DiesInAppend(p), ~Ended(l, o), NEW x \in {Torn, Junk},
             log'[n] = [l EXCEPT ![Len(l)] = x], ~open'[n]
      PROVE  [History!Next]_(History!vars)
  <2> DEFINE v == Verified([l EXCEPT ![Len(l)] = x])
             old == Verified(l)
  <2>1. IF AllRecords(l) THEN o /\ v = SubSeq(old, 1, Len(old) - 1) ELSE v = old
    <3>1. /\ l \in Seq(Line) /\ (AllRecords(l) => ChainOk(l))
          /\ o \in BOOLEAN /\ (o => l # << >>)
      BY <1>3, <1>8
    <3> HIDE DEF l, o
    <3> QED BY <1>8, <3>1, JoinCommits
  <2>2. n \in Nodes /\ Loose' = Loose \ {n}
    <3>1. n \in Nodes
      BY <1>3, <1>8
    <3> HIDE DEF n
    <3> QED BY <1>3, <1>8, <3>1, LooseStep
  <2>3. CASE ~AllRecords(l)
    <3>1. \A m \in Nodes : Verified(log'[m]) = Verified(log[m])
      BY <1>3, <1>8, <2>1, <2>3
    <3>2. Loose' = Loose
      BY <2>2, <2>3 DEF Loose
    <3> QED BY <1>1, <3>1, <3>2
  <2>4. CASE AllRecords(l)
    <3>1. n \in Loose
      BY <2>1, <2>2, <2>4 DEF Loose
    <3>2. before' = [before EXCEPT ![n] = SubSeq(before[n], 1, Len(before[n]) - 1)]
      <4>1. /\ before' = after /\ before[n] = old
            /\ after[n] = SubSeq(old, 1, Len(old) - 1)
            /\ \A m \in Nodes \ {n} : after[m] = before[m]
        BY <1>3, <1>8, <2>1, <2>2, <2>4
      <4>2. after = [m \in Nodes |-> after[m]] /\ before = [m \in Nodes |-> before[m]]
        OBVIOUS
      <4> HIDE DEF after, before, old
      <4> QED BY <2>2, <4>1, <4>2
    <3>3. out' = out
      OBVIOUS
    <3> QED BY <2>2, <3>1, <3>2, <3>3 DEF History!Next, History!Withdraw, before, out, Loose
  <2> QED BY <2>3, <2>4
<1>4. CASE Writes(p)
  <2>1. log'[n] = WithLine(l, o, proc[p].rec) /\ ~open'[n]
    BY <1>3, <1>4 DEF Writes
  <2>2. CASE Ended(l, o)
    BY <1>4, <1>7, <2>1, <2>2 DEF WithLine
  <2>3. CASE ~Ended(l, o)
    BY <1>4, <1>8, <2>1, <2>3 DEF WithLine
  <2> QED BY <2>2, <2>3
<1>9. CASE DiesUnended(p)
  <2>1. log'[n] = Append(l, proc[p].rec) /\ Ended(l, o)
    BY <1>3, <1>9 DEF DiesUnended
  <2> QED BY <1>7, <1>9, <2>1
<1>5. CASE DiesInAppend(p)
  <2>1. log'[n] = WithTornLine(l, o) /\ ~open'[n]
    BY <1>3, <1>5 DEF DiesInAppend
  <2>2. CASE Ended(l, o)
    <3>1. Verified(log'[n]) = Verified(log[n])
      BY <1>3, <1>5, <2>1, <2>2, TearCommits DEF WithTornLine
    <3>2. \A m \in Nodes : Verified(log'[m]) = Verified(log[m])
      BY <1>3, <1>5, <3>1
    <3>3. n \in Nodes /\ n \notin Loose
      BY <1>3, <1>5, <2>2 DEF Loose, Ended
    <3>4. Loose' = Loose
      <4> HIDE DEF n
      <4>1. Loose' = Loose \ {n}
        BY <1>3, <1>5, <2>1, <3>3, LooseStep
      <4> QED BY <3>3, <4>1
    <3> QED BY <1>1, <3>2, <3>4
  <2>3. CASE ~Ended(l, o)
    BY <1>5, <1>8, <2>1, <2>3 DEF WithTornLine
  <2> QED BY <2>2, <2>3
<1>6. CASE Adopts(p) \/ DiesInChain(p)
  <2> DEFINE recs == proc[p].snap.recs
             h == Verified(recs)
  <2>1. /\ proc[p].snap \in snaps /\ log[n] = << >> /\ recs \in Seq(Record)
        /\ recs \in Seq(Line) /\ ChainOk(recs)
    <3>1. proc[p].pc = "chain" /\ n \in Nodes
      BY <1>0, <1>6 DEF Adopts, DiesInChain, Final
    <3>2. proc[p].snap \in snaps /\ log[n] = << >>
      BY <3>1 DEF FreshInv, Active, Final
    <3>3. proc[p].snap \in Snapshot /\ ChainOk(recs)
      BY <1>0, <3>1 DEF Stage
    <3>4. recs \in Seq(Record)
      BY <3>3 DEF Snapshot
    <3> QED BY <3>2, <3>3, <3>4, LinesAndRecords
  <2>2. Len(recs) \in Nat /\ Len(h) = Len(recs) /\ h \in Seq(Entry)
    BY <2>1, WholeChain, VerifiedIs DEF Digest
  <2>12. /\ n \in Nodes /\ n \notin Loose
         /\ Loose' = IF open'[n] /\ AllRecords(log'[n]) THEN Loose \cup {n} ELSE Loose \ {n}
    <3>1. n \in Nodes /\ n \notin Loose
      BY <1>3, <1>6, <2>1 DEF Loose
    <3> HIDE DEF n
    <3> QED BY <1>3, <1>6, <3>1, LooseStep
  <2>3. \E k \in 0..Len(recs) :
          Verified(log'[n]) = SubSeq(h, 1, k) /\ (k > 0 \/ Loose' = Loose)
    <3>1. CASE Adopts(p)
      <4>1. log'[n] = recs /\ ~open'[n]
        BY <1>3, <3>1 DEF Adopts
      <4>2. Verified(recs) = SubSeq(h, 1, Len(recs))
        <5> HIDE DEF recs
        <5> QED BY <2>1, <2>2, PartOfChain
      <4>3. Loose' = Loose
        BY <2>12, <4>1
      <4> QED BY <2>2, <4>1, <4>2, <4>3
    <3>2. CASE DiesInChain(p)
      <4>1. PICK k \in Nat, c \in BOOLEAN :
              /\ IF c THEN k \in 1..Len(recs) ELSE k < Len(recs)
              /\ open' = [open EXCEPT ![n] = c]
              /\ \/ log' = [log EXCEPT ![n] = SubSeq(recs, 1, k)]
                 \/ ~c /\ log' = [log EXCEPT ![n] = Append(SubSeq(recs, 1, k), Torn)]
        BY <3>2 DEF DiesInChain
      <4> DEFINE head == SubSeq(recs, 1, k)
                 cut == Append(head, Torn)
      <4>2. head \in Seq(Line) /\ Len(head) = k /\ \A i \in 1..k : head[i] = recs[i]
        <5>1. k \in 0..Len(recs)
          BY <2>2, <4>1, LenProperties
        <5> HIDE DEF recs
        <5> QED BY <2>1, <5>1, BeginningType
      <4>3. /\ cut \in Seq(Line) /\ Len(cut) = k + 1 /\ cut[k + 1] = Torn
            /\ \A i \in 1..k : cut[i] = recs[i]
        <5>1. Torn \in Line
          BY DEF Line
        <5> HIDE DEF head, recs
        <5> QED BY <4>2, <5>1, AppendProperties
      <4>4. ~IsRecord(Torn) /\ k \in 0..Len(recs)
        BY <2>2, <4>1 DEF IsRecord
      <4> HIDE DEF recs, head, cut
      <4>5. Verified(head) = SubSeq(Verified(recs), 1, k)
        BY <2>1, <4>2, <4>4, PartOfChain
      <4>6. Verified(cut) = SubSeq(Verified(recs), 1, k)
        BY <2>1, <4>3, <4>4, PartOfChain
      <4>7. log'[n] = head \/ log'[n] = cut
        BY <1>3, <3>2, <4>1 DEF head, cut, recs
      <4>8. k > 0 \/ Loose' = Loose
        <5>1. open'[n] = c
          BY <1>3, <3>2, <4>1
        <5>2. c => k > 0
          BY <2>2, <4>1
        <5> QED BY <2>12, <5>1, <5>2
      <4> QED BY <4>4, <4>5, <4>6, <4>7, <4>8 DEF recs
    <3> QED BY <1>6, <3>1, <3>2
  <2>4. PICK k \in 0..Len(recs) :
          Verified(log'[n]) = SubSeq(h, 1, k) /\ (k > 0 \/ Loose' = Loose)
    BY <2>3
  <2>5. Verified(log[n]) = << >>
    <3>1. Len(<< >>) = 0 /\ << >> \in Seq(Line)
      BY EmptySeq
    <3>2. ChainOk(<< >>)
      BY <3>1 DEF ChainOk
    <3>3. Verified(<< >>) = Told(<< >>, 0)
      BY <3>1, <3>2, WholeChain, VerifiedIs
    <3>4. Told(<< >>, 0) = << >>
      BY DEF Told
    <3> QED BY <2>1, <3>3, <3>4
  <2>6. h \in out
    BY <2>1
  <2>7. before[n] = << >> /\ n \in Nodes
    BY <1>3, <1>6, <2>5
  <2>8. before' = [before EXCEPT ![n] = SubSeq(h, 1, k)]
    <3>1. before' = after
      OBVIOUS
    <3>2. after[n] = SubSeq(h, 1, k) /\ \A m \in Nodes \ {n} : after[m] = before[m]
      BY <1>3, <1>6, <2>4
    <3>3. after = [m \in Nodes |-> after[m]] /\ before = [m \in Nodes |-> before[m]]
      OBVIOUS
    <3> HIDE DEF after, before, h
    <3> QED BY <2>7, <3>1, <3>2, <3>3
  <2>9. out' = out
    OBVIOUS
  <2>10. k \in 0..Len(h)
    BY <2>2, <2>4
  <2>13. Loose' = Loose \/ (k > 0 /\ Loose' = Loose \cup {n})
    <3>1. Loose' = Loose \/ Loose' = Loose \cup {n}
      BY <2>12
    <3> QED BY <2>4, <3>1
  <2> HIDE DEF h, recs
  <2>11. \E x \in out : \E i \in 0..Len(x) :
           /\ before[n] = << >> /\ n \notin Loose
           /\ before' = [before EXCEPT ![n] = SubSeq(x, 1, i)] /\ UNCHANGED out
           /\ Loose' = Loose \/ (i > 0 /\ Loose' = Loose \cup {n})
    BY <2>6, <2>7, <2>8, <2>9, <2>10, <2>12, <2>13
  <2> QED BY <2>7, <2>11 DEF History!Next, History!Adopt, Loose
<1> QED BY <1>2, <1>4, <1>5, <1>6, <1>9
        DEF Does, Quits, StartsRun, StartsPlain, StartsMemory, StartsExport, StartsImport,
            Starts, Executes, Accounts, Saves, Exports, Skips, Installs,
            Death, DiesBetween, DiesInExec, DiesInSave, disk

(* ... or the snapshots do.                                                *)
LEMMA SnapshotStep ==
  ASSUME IInv, NEW p \in Procs, Exports(p)
  PROVE  [History!Next]_(History!vars)
<1> DEFINE n == proc[p].at
           before == [m \in Nodes |-> Verified(log[m])]
           out == {Verified(s.recs) : s \in snaps}
           new == [agent |-> proc[p].agent, st |-> proc[p].st, recs |-> log[n]]
<1>1. n \in Nodes
  BY Mover DEF Exports, Final
<1>2. before' = before
  BY DEF Exports
<1>3. out' = out \cup {before[n]}
  <2>1. snaps' = snaps \cup {new}
    BY DEF Exports
  <2>2. out' = {Verified(s.recs) : s \in snaps'}
    OBVIOUS
  <2>3. new.recs = log[n]
    OBVIOUS
  <2>4. before[n] = Verified(log[n])
    BY <1>1
  <2> HIDE DEF new, before
  <2> QED BY <2>1, <2>2, <2>3, <2>4
<1>4. Loose' = Loose
  BY DEF Exports, Loose
<1> QED BY <1>1, <1>2, <1>3, <1>4 DEF History!Next, History!Publish, Loose

(* What the verifier accepts of the ledgers grows by one record at a time, *)
(* or by the adoption of an exported chain where there was none, for any   *)
(* number of nodes, commands, crashes and snapshots (D4, E-9); nothing but *)
(* a last record that lost its newline with its writer is ever taken back. *)
THEOREM Refinement == Spec => ImplementsHistory
<1>1. Init => History!Init
  <2> SUFFICES ASSUME Init PROVE History!Init
    OBVIOUS
  <2>1. Verified(<< >>) = << >>
    <3>1. Len(<< >>) = 0 /\ << >> \in Seq(Line)
      BY EmptySeq
    <3>2. ChainOk(<< >>)
      BY <3>1 DEF ChainOk
    <3>3. Verified(<< >>) = Told(<< >>, 0)
      BY <3>1, <3>2, WholeChain, VerifiedIs
    <3>4. Told(<< >>, 0) = << >>
      BY DEF Told
    <3> QED BY <3>3, <3>4
  <2>2. [n \in Nodes |-> Verified(log[n])] = [n \in Nodes |-> << >>]
    BY <2>1 DEF Init
  <2>3. {Verified(s.recs) : s \in snaps} = {}
    BY DEF Init
  <2>4. {n \in Nodes : open[n] /\ AllRecords(log[n])} = {}
    BY DEF Init
  <2> QED BY <2>2, <2>3, <2>4 DEF History!Init
<1>2. IInv /\ FreshInv /\ [Next]_vars => [History!Next]_(History!vars)
  <2> SUFFICES ASSUME IInv, FreshInv, [Next]_vars PROVE [History!Next]_(History!vars)
    OBVIOUS
  <2>1. CASE UNCHANGED vars
    BY <2>1 DEF vars, History!vars
  <2>2. CASE Next
    <3>1. PICK p \in Procs : Alone(p) /\ Does(p)
      BY <2>2, NextDoes
    <3>2. CASE Exports(p)
      BY <3>2, SnapshotStep
    <3>3. CASE ~Exports(p)
      <4>1. UNCHANGED snaps
        BY <3>1, <3>3 DEF Does, Quits, StartsRun, StartsPlain, StartsMemory, StartsExport,
               StartsImport, Starts, Executes, Accounts, Writes, Saves, Skips, Installs,
               Adopts, Death, DiesBetween, DiesInExec, DiesInAppend, DiesUnended, DiesInSave,
               DiesInChain, disk
      <4> QED BY <3>1, <4>1, HistoryStep
    <3> QED BY <3>2, <3>3
  <2> QED BY <2>1, <2>2
<1> QED BY <1>1, <1>2, Invariance, FreshAlways, PTL DEF Spec, ImplementsHistory, History!Spec

-----------------------------------------------------------------------------
(* A state that is written is the one of the invocation that is there.     *)
LEMMA StatesStand ==
  ASSUME IInv, NEW p \in Procs, Does(p), NEW n \in Nodes,
         proc[p].pc \in Final \/ proc[p].at # n
  PROVE  state'[n] = state[n]
<1>1. CASE Saves(p) \/ Installs(p) \/ DiesInSave(p)
  <2>1. proc[p].pc \notin Final
    BY <1>1 DEF Saves, Installs, DiesInSave, WritesState, Final
  <2> QED BY <1>1, <2>1 DEF Saves, Installs, DiesInSave, IInv, DiskInv
<1> QED BY <1>1
        DEF Does, Quits, StartsRun, StartsPlain, StartsMemory, StartsExport, StartsImport,
            Starts, Executes, Accounts, Writes, Exports, Skips, Adopts,
            Death, DiesBetween, DiesInExec, DiesInAppend, DiesUnended, DiesInChain, disk

(* Nothing starts beside an import.                                        *)
LEMMA NobodyImports ==
  ASSUME IInv, NEW p \in Procs, NEW cmd, NEW n \in Nodes, MayStart(p, cmd, n)
  PROVE  \A q \in Procs : proc[q].at = n /\ Active(q) => proc[q].cmd # "import"
<1> SUFFICES ASSUME NEW q \in Procs, proc[q].at = n, Active(q), proc[q].cmd = "import"
             PROVE  FALSE
  OBVIOUS
<1>1. q # p
  BY DEF MayStart, Active, Idle, Final
<1>2. {cmd, proc[q].cmd} \subseteq Concurrent
  BY <1>1 DEF MayStart
<1> QED BY <1>2, ImportRunsAlone DEF ImportRunsAlone

(* Where all lines parse and no invocation died, a line is a line.         *)
LEMMA EndsWell ==
  ASSUME IInv, FreshInv, crashes = 0, NEW n \in Nodes, AllRecords(log[n])
  PROVE  Ended(log[n], open[n])
<1>1. log[n] \in Seq(Line) /\ ~open[n]
  BY DEF IInv, DiskInv, FreshInv
<1>2. log[n] # << >> => Len(log[n]) \in 1..Len(log[n])
  BY <1>1, LenProperties, EmptySeq
<1> QED BY <1>1, <1>2 DEF Ended, EndsTorn, AllRecords, IsRecord

(* As long as no invocation dies, a ledger keeps the tips it holds.        *)
LEMMA CarriedOn ==
  ASSUME IInv, FreshInv, NEW p \in Procs, Does(p), crashes = 0, crashes' = crashes,
         NEW n \in Nodes, AllRecords(log[n])
  PROVE  /\ AllRecords(log'[n])
         /\ \A st : Carried(log[n], st) => Carried(log'[n], st)
<1>1. CASE log'[n] = log[n]
  BY <1>1
<1>2. CASE proc[p].pc \in Final \/ proc[p].at # n
  BY <1>1, <1>2, LedgersStand
<1>3. CASE Writes(p) /\ proc[p].at = n
  <2> DEFINE l == log[n]
             r == proc[p].rec
             m == Append(l, r)
  <2>1. r \in Record /\ r \in Line /\ l \in Seq(Line) /\ Len(l) \in Nat
    BY <1>3, Mover, LenProperties DEF Stage, Writes, IInv, DiskInv, Line
  <2>2. log'[n] = m
    BY <1>3, EndsWell DEF Writes, WithLine, IInv, DiskInv
  <2>3. /\ Len(m) = Len(l) + 1 /\ m[Len(l) + 1] = r
        /\ \A i \in 1..Len(l) : m[i] = l[i]
    BY <2>1, AppendProperties
  <2>4. IsRecord(r)
    BY <2>1, PackageAssumption DEF PackageAssumption, IsRecord
  <2> HIDE DEF m
  <2>5. AllRecords(m)
    BY <2>1, <2>3, <2>4 DEF AllRecords
  <2>6. ASSUME NEW st, Carried(l, st) PROVE Carried(m, st)
    <3>1. \A i \in 1..Len(l) : i \in 1..Len(m)
      BY <2>1, <2>3
    <3> QED BY <2>3, <2>6, <3>1 DEF Carried, TipInChain
  <2> QED BY <2>2, <2>5, <2>6
<1>4. CASE Adopts(p) /\ proc[p].at = n
  <2>1. proc[p].pc = "chain" /\ n \in Nodes
    BY <1>4 DEF Adopts
  <2>2. log[n] = << >>
    BY <1>4, <2>1 DEF FreshInv
  <2>3. proc[p].snap.recs \in Seq(Record)
    BY <2>1, Mover DEF Stage, Snapshot
  <2>4. log'[n] = proc[p].snap.recs
    BY <1>4 DEF Adopts, IInv, DiskInv
  <2>5. AllRecords(log'[n])
    BY <2>3, <2>4, PackageAssumption, ElementOfSeq, LenProperties
       DEF AllRecords, IsRecord, PackageAssumption
  <2>6. \A st : ~TipInChain(log[n], st.tip)
    <3>1. Len(<< >>) = 0
      BY EmptySeq
    <3> QED BY <2>2, <3>1 DEF TipInChain
  <2> QED BY <2>5, <2>6 DEF Carried
<1>5. CASE Death(p)
  BY <1>5 DEF Death, IInv, CountInv
<1>6. CASE UNCHANGED log
  BY <1>1, <1>6
<1> QED BY <1>2, <1>3, <1>4, <1>5, <1>6
        DEF Does, Quits, StartsRun, StartsPlain, StartsMemory, StartsExport, StartsImport,
            Starts, Executes, Accounts, Saves, Exports, Skips, Installs, disk

LEMMA NoneUnknown ==
  ASSUME SameRelease, IInv, NEW p \in Procs, proc[p].pc = "chain"
  PROVE  ~Unknown(p)
<1>1. proc[p].snap.recs \in Seq(Record) /\ proc[p].at \in Nodes
  BY Mover DEF Stage, Snapshot, Final
<1>2. \A i \in 1..Len(proc[p].snap.recs) : proc[p].snap.recs[i] \in Record
  BY <1>1, ElementOfSeq, LenProperties
<1>3. \A i \in 1..Len(proc[p].snap.recs) : proc[p].snap.recs[i].body.op \in Ops
  BY <1>2 DEF Record, Body
<1> QED BY <1>1, <1>3 DEF Unknown, SameRelease

LEMMA CarriedStep ==
  ASSUME SameRelease, IInv, FreshInv, CarriedInv, NEW p \in Procs, Alone(p), Does(p)
  PROVE  CarriedInv'
<1>0. /\ proc[p] \in Invocation /\ proc[p].st \in State /\ Stage(p)
      /\ proc[p].pc \notin Final => proc[p].at \in Nodes
  BY Mover
<1> SUFFICES ASSUME crashes' = 0 PROVE CarriedInv'
  BY DEF CarriedInv
<1>1. crashes = 0 /\ ~Death(p)
  <2>1. crashes \in Nat
    BY DEF IInv, CountInv
  <2>2. crashes' = crashes + 1 \/ (crashes' = crashes /\ ~Death(p))
    BY <2>1 DEF Does, Quits, StartsRun, StartsPlain, StartsMemory, StartsExport, StartsImport,
           Starts, Executes, Accounts, Writes, Saves, Exports, Skips, Installs, Adopts, Death
  <2> QED BY <2>1, <2>2
<1>2. \A n \in Nodes :
        /\ AllRecords(log[n]) /\ AllRecords(log'[n])
        /\ \A st : Carried(log[n], st) => Carried(log'[n], st)
  BY <1>1, CarriedOn DEF CarriedInv
<1>3. ASSUME NEW s \in snaps' PROVE Carried(s.recs, s.st)
  <2>1. CASE s \in snaps
    BY <1>1, <2>1 DEF CarriedInv
  <2>2. CASE s \notin snaps
    <3>1. Exports(p)
      BY <1>1, <2>2 DEF Does, Quits, StartsRun, StartsPlain, StartsMemory, StartsExport,
             StartsImport, Starts, Executes, Accounts, Writes, Saves, Skips, Installs, Adopts, disk
    <3>2. s.recs = log[proc[p].at] /\ s.st = proc[p].st
      BY <2>2, <3>1 DEF Exports
    <3> QED BY <1>1, <3>1, <3>2 DEF CarriedInv, Exports
  <2> QED BY <2>1, <2>2
<1>4. CASE Adopts(p)
  <2>0. PICK n \in Nodes : n = proc[p].at
    BY <1>0, <1>4 DEF Adopts, Final
  <2>1. proc[p].pc = "chain" /\ n \in Nodes /\ n = proc[p].at
    BY <1>4, <2>0 DEF Adopts
  <2>2. proc[p].snap \in snaps /\ proc[p].st = proc[p].snap.st
    BY <2>1 DEF FreshInv, Active, Final
  <2>3. log'[n] = proc[p].snap.recs
    BY <1>4, <2>1 DEF Adopts, IInv, DiskInv
  <2>4. Carried(log'[n], proc[p].st) /\ state[n] = proc[p].st
    BY <1>1, <2>1, <2>2, <2>3 DEF CarriedInv
  <2>5. Carried(log'[n], St(n)') /\ state' = state
    BY <1>0, <1>4, <2>4, PackageAssumption DEF St, Loaded, Adopts, PackageAssumption
  <2>6. ASSUME NEW m \in Nodes \ {n}, Readable(m)', ~Importing(m)' PROVE Carried(log'[m], St(m)')
    <3>1. ~Importing(m)
      <4> SUFFICES ASSUME NEW q \in Procs, proc[q].pc = "chain", proc[q].at = m PROVE FALSE
        BY DEF Importing
      <4>1. q # p
        BY <2>1
      <4> QED BY <2>6, <4>1 DEF Alone, Importing
    <3> QED BY <1>1, <1>2, <2>5, <2>6, <3>1 DEF CarriedInv, Readable, St
  <2>7. ASSUME NEW q \in Procs \ {p}
        PROVE  /\ proc'[q].pc \in {"save", "collect"} => Carried(log'[proc'[q].at], proc'[q].st)
               /\ proc'[q].pc = "install" /\ haslog'[proc'[q].at]
                    => Carried(log'[proc'[q].at], proc'[q].st)
               /\ proc'[q].pc = "chain" => state'[proc'[q].at] = proc'[q].st
    <3>1. proc'[q] = proc[q] /\ (proc[q].pc \notin Final => proc[q].at \in Nodes) /\ Stage(q)
      BY Mover DEF Alone
    <3>2. ASSUME proc[q].pc = "install", haslog'[proc[q].at] PROVE haslog[proc[q].at]
      <4>1. proc[q].cmd = "import" /\ Active(q) /\ proc[q].at \in Nodes
        BY <3>1, <3>2 DEF Stage, Active, Final
      <4>2. proc[p].at # proc[q].at
        BY <2>1, <4>1 DEF IInv, ProcInv, ImportAlone, Active, Final
      <4> QED BY <3>2, <4>1, <4>2, LedgersStand
    <3> QED BY <1>1, <1>2, <2>5, <3>1, <3>2 DEF CarriedInv, Final
  <2>8. proc'[p].pc = "save" /\ proc'[p].at = n /\ proc'[p].st = proc[p].st
    BY <1>4, <2>1 DEF Adopts, GoesOn, Becomes
  <2>9. \A m \in Nodes : Readable(m)' /\ ~Importing(m)' => Carried(log'[m], St(m)')
    BY <2>5, <2>6
  <2>10. Carried(log'[proc'[p].at], proc'[p].st)
    BY <2>4, <2>8
  <2>11. \A q \in Procs :
               /\ proc'[q].pc \in {"save", "collect"} => Carried(log'[proc'[q].at], proc'[q].st)
               /\ proc'[q].pc = "install" /\ haslog'[proc'[q].at]
                    => Carried(log'[proc'[q].at], proc'[q].st)
               /\ proc'[q].pc = "chain" => state'[proc'[q].at] = proc'[q].st
    BY <2>7, <2>8, <2>10
  <2> QED BY <1>2, <1>3, <2>9, <2>11 DEF CarriedInv
<1>5. CASE ~Adopts(p)
  <2>1. ASSUME NEW q \in Procs, proc[q].pc = "chain" PROVE proc'[q].pc = "chain" /\ proc'[q].at = proc[q].at
    <3>1. CASE q # p
      BY <2>1, <3>1 DEF Alone
    <3>2. CASE q = p
      <4>1. ~Unknown(p)
        BY <2>1, <3>2, NoneUnknown
      <4>2. proc[p] # Idle
        BY <2>1, <3>2 DEF Idle
      <4> QED BY <1>1, <1>5, <2>1, <3>2, <4>1, <4>2
              DEF Does, Quits, StartsRun, StartsPlain, StartsMemory, StartsExport, StartsImport,
                  Starts, MayStart, Executes, Accounts, Writes, Saves, Exports, Skips, Installs
    <3> QED BY <3>1, <3>2
  <2>2. ASSUME NEW n \in Nodes PROVE Importing(n) => Importing(n)'
    BY <2>1 DEF Importing
  <2>3. ASSUME NEW n \in Nodes, Readable(n)', ~Importing(n)' PROVE Carried(log'[n], St(n)')
    <3>1. CASE state'[n] = state[n]
      BY <1>1, <1>2, <2>2, <2>3, <3>1 DEF CarriedInv, Readable, St
    <3>2. CASE state'[n] # state[n]
      <4>1. proc[p].pc \notin Final /\ proc[p].at = n
        BY <3>2, StatesStand
      <4>2. Saves(p) \/ Installs(p)
        BY <1>1, <3>2 DEF Does, Quits, StartsRun, StartsPlain, StartsMemory, StartsExport,
               StartsImport, Starts, Executes, Accounts, Writes, Exports, Skips, Adopts, disk
      <4>3. ~Installs(p)
        BY <2>3, <4>1 DEF Installs, GoesOn, Becomes, Importing
      <4>4. Carried(log[n], proc[p].st) /\ St(n)' = proc[p].st
        BY <1>0, <1>1, <4>1, <4>2, <4>3, StateHolds DEF CarriedInv, Saves
      <4> QED BY <1>2, <4>4
    <3> QED BY <3>1, <3>2
  <2>4. ASSUME NEW q \in Procs \ {p}
        PROVE  /\ proc'[q].pc \in {"save", "collect"} => Carried(log'[proc'[q].at], proc'[q].st)
               /\ proc'[q].pc = "install" /\ haslog'[proc'[q].at]
                    => Carried(log'[proc'[q].at], proc'[q].st)
               /\ proc'[q].pc = "chain" => state'[proc'[q].at] = proc'[q].st
    <3>1. proc'[q] = proc[q] /\ (proc[q].pc \notin Final => proc[q].at \in Nodes) /\ Stage(q)
      BY Mover DEF Alone
    <3>2. ASSUME proc[q].pc \in {"install", "chain"}
          PROVE  haslog'[proc[q].at] = haslog[proc[q].at] /\ state'[proc[q].at] = state[proc[q].at]
      <4>1. proc[q].cmd = "import" /\ Active(q) /\ proc[q].at \in Nodes
        BY <3>1, <3>2 DEF Stage, Active, Final
      <4>2. proc[p].pc \in Final \/ proc[p].at # proc[q].at
        BY <4>1 DEF IInv, ProcInv, ImportAlone, Active
      <4> QED BY <4>1, <4>2, LedgersStand, StatesStand
    <3> QED BY <1>1, <1>2, <3>1, <3>2 DEF CarriedInv, Final
  <2>5. /\ proc'[p].pc \in {"save", "collect"} => Carried(log'[proc'[p].at], proc'[p].st)
        /\ proc'[p].pc = "install" /\ haslog'[proc'[p].at]
             => Carried(log'[proc'[p].at], proc'[p].st)
        /\ proc'[p].pc = "chain" => state'[proc'[p].at] = proc'[p].st
    <3>1. CASE Ends(p) \/ \E n \in Nodes : StartsRun(p, n) \/ StartsPlain(p, n)
      BY <3>1 DEF Ends, Final, StartsRun, StartsPlain, Starts, Becomes
    <3>2. ASSUME NEW n \in Nodes, NEW cmd, NEW pc, Starts(p, n, cmd, pc), Readable(n)
          PROVE  Carried(log[n], St(n)) /\ log' = log /\ haslog' = haslog
      <4>1. ~Importing(n)
        <5> SUFFICES ASSUME NEW q \in Procs, proc[q].pc = "chain", proc[q].at = n PROVE FALSE
          BY DEF Importing
        <5>1. proc[q].cmd = "import" /\ Active(q)
          BY DEF FreshInv, Active, Final
        <5> QED BY <3>2, <5>1, NobodyImports DEF Starts
      <4> QED BY <1>1, <3>2, <4>1 DEF CarriedInv, Starts, disk
    <3>3. ASSUME NEW n \in Nodes, StartsMemory(p, n) \/ StartsExport(p, n)
          PROVE  /\ proc'[p].pc \in {"save", "collect"} /\ proc'[p].at = n
                 /\ Carried(log'[n], proc'[p].st)
      <4>1. CASE StartsMemory(p, n)
        BY <3>2, <4>1 DEF StartsMemory, Starts, Becomes, Carried
      <4>2. CASE StartsExport(p, n)
        <5>1. CASE Readable(n) /\ proc'[p].st = St(n)
          BY <3>2, <4>2, <5>1 DEF StartsExport, Starts, Becomes
        <5>2. CASE proc'[p].st = EmptyState
          BY <4>2, <5>2 DEF StartsExport, Starts, Becomes, Carried, EmptyState
        <5> QED BY <4>2, <5>1, <5>2 DEF StartsExport
      <4> QED BY <3>3, <4>1, <4>2
    <3>4. ASSUME NEW n \in Nodes, NEW s \in snaps, StartsImport(p, n, s)
          PROVE  /\ proc'[p].pc = "install" /\ proc'[p].at = n
                 /\ haslog'[n] => Carried(log'[n], proc'[p].st)
      BY <3>4 DEF StartsImport, Starts, Becomes, ImportRejects, Carried, disk
    <3>5. CASE Executes(p) \/ Accounts(p)
      BY <3>1, <3>5 DEF Executes, Accounts, GoesOn, Becomes
    <3>6. CASE Writes(p)
      <4>1. CASE Ends(p)
        BY <3>1, <4>1
      <4>2. CASE ~Ends(p)
        <5> DEFINE l == log[proc[p].at]
                   r == proc[p].rec
                   m == Append(l, r)
        <5>1. proc'[p].at = proc[p].at /\ proc'[p].pc = "save" /\ proc'[p].st.tip = r.h
          BY <3>6, <4>2 DEF Writes, GoesOn, Becomes
        <5>2. r \in Record /\ r \in Line /\ l \in Seq(Line) /\ Len(l) \in Nat /\ proc[p].at \in Nodes
          BY <1>0, <3>6, LenProperties DEF Stage, Writes, IInv, DiskInv, Line, Final
        <5>3. log'[proc[p].at] = m
          <6>1. Ended(l, open[proc[p].at])
            BY <1>1, <1>2, <5>2, EndsWell
          <6> QED BY <3>6, <5>2, <6>1 DEF Writes, WithLine, IInv, DiskInv
        <5>4. Len(m) = Len(l) + 1 /\ m[Len(l) + 1] = r
          BY <5>2, AppendProperties
        <5>5. IsRecord(r) /\ Len(l) + 1 \in 1..Len(m)
          <6> HIDE DEF m
          <6> QED BY <5>2, <5>4, PackageAssumption DEF PackageAssumption, IsRecord
        <5>6. TipInChain(m, r.h)
          <6> HIDE DEF m
          <6> QED BY <5>4, <5>5 DEF TipInChain
        <5> QED BY <5>1, <5>3, <5>6 DEF Carried
      <4> QED BY <4>1, <4>2
    <3>7. CASE Saves(p) \/ Exports(p) \/ Quits(p)
      BY <3>1, <3>7 DEF Saves, Exports, Quits
    <3>8. CASE Skips(p)
      BY <1>1, <3>8 DEF Skips, GoesOn, Becomes, CarriedInv, disk
    <3>9. CASE Installs(p)
      <4>1. proc[p].at \in Nodes
        BY <1>0, <3>9 DEF Installs, Final
      <4> QED BY <1>0, <3>9, <4>1, StateHolds DEF Installs, GoesOn, Becomes
    <3>10. ASSUME NEW n \in Nodes, StartsRun(p, n) \/ StartsPlain(p, n) PROVE proc'[p].pc \in {"exec", "append"}
      BY <3>10 DEF StartsRun, StartsPlain, Starts, Becomes
    <3> QED BY <1>1, <1>5, <3>3, <3>4, <3>5, <3>6, <3>7, <3>8, <3>9, <3>10 DEF Does
  <2>6. \A n \in Nodes : Readable(n)' /\ ~Importing(n)' => Carried(log'[n], St(n)')
    BY <2>3
  <2>7. \A q \in Procs :
               /\ proc'[q].pc \in {"save", "collect"} => Carried(log'[proc'[q].at], proc'[q].st)
               /\ proc'[q].pc = "install" /\ haslog'[proc'[q].at]
                    => Carried(log'[proc'[q].at], proc'[q].st)
               /\ proc'[q].pc = "chain" => state'[proc'[q].at] = proc'[q].st
    BY <2>4, <2>5
  <2> QED BY <1>2, <1>3, <2>6, <2>7 DEF CarriedInv
<1> QED BY <1>4, <1>5

LEMMA CarriedAlways ==
  ASSUME SameRelease
  PROVE  Spec => []CarriedInv
<1>1. Init => CarriedInv
  <2> SUFFICES ASSUME Init PROVE CarriedInv
    OBVIOUS
  <2>1. \A n \in Nodes : log[n] = << >> /\ St(n) = EmptyState
    BY DEF Init, St, Loaded
  <2>2. \A p \in Procs : proc[p].pc = "idle"
    BY DEF Init, Idle
  <2>3. snaps = {} /\ AllRecords(<< >>)
    <3>1. Len(<< >>) = 0
      BY EmptySeq
    <3> QED BY <3>1 DEF Init, AllRecords
  <2> QED BY <2>1, <2>2, <2>3 DEF CarriedInv, Carried, EmptyState
<1>2. IInv /\ FreshInv /\ CarriedInv /\ [Next]_vars => CarriedInv'
  <2>1. CASE UNCHANGED vars
    BY <2>1 DEF vars, CarriedInv, Readable, St, Importing
  <2>2. IInv /\ FreshInv /\ CarriedInv /\ Next => CarriedInv'
    BY NextDoes, CarriedStep
  <2> QED BY <2>1, <2>2
<1> QED BY <1>1, <1>2, Invariance, FreshAlways, PTL DEF Spec

(* No order of commands on any number of nodes separates a state from the  *)
(* ledger it was accounted in, as long as no invocation dies and no import *)
(* meets a record that its release does not know.                          *)
THEOREM TipKept ==
  ASSUME SameRelease
  PROVE  Spec => []TipInLedger
<1>1. CarriedInv => TipInLedger
  BY DEF CarriedInv, Carried, TipInLedger
<1> QED BY <1>1, CarriedAlways, PTL

(* A snapshot verifies, and holds the tip of the state it travels with.    *)
THEOREM SnapshotComplete ==
  ASSUME SameRelease
  PROVE  Spec => []SnapshotSelfContained
<1>1. IInv /\ CarriedInv => SnapshotSelfContained
  BY DEF IInv, DiskInv, SnapshotsIntact, CarriedInv, Carried, SnapshotSelfContained
<1> QED BY <1>1, Invariance, CarriedAlways, PTL

-----------------------------------------------------------------------------
(* Where all lines parse after an append, they did before it.              *)
LEMMA WrittenWhole ==
  ASSUME IInv, NEW p \in Procs, Writes(p) \/ DiesUnended(p), NEW n \in Nodes,
         proc[p].at = n, AllRecords(log'[n])
  PROVE  /\ log'[n] = Append(log[n], proc[p].rec) /\ AllRecords(log[n])
         /\ proc[p].rec \in Record /\ proc[p].rec \in Line
         /\ log[n] \in Seq(Line) /\ Len(log[n]) \in Nat
<1> DEFINE l == log[n]
           r == proc[p].rec
           m == Append(l, r)
<1>1. r \in Record /\ r \in Line /\ l \in Seq(Line) /\ Len(l) \in Nat
  BY Mover, LenProperties DEF Stage, Writes, DiesUnended, IInv, DiskInv, Line
<1>2. log'[n] = m
  <2>1. CASE Writes(p)
    <3>1. log'[n] = WithLine(l, open[n], r) /\ open[n] \in BOOLEAN /\ (open[n] => l # << >>)
      BY <2>1 DEF Writes, IInv, DiskInv, OpenEnds
    <3>2. Ended(l, open[n])
      <4> SUFFICES ASSUME ~Ended(l, open[n]) PROVE FALSE
        OBVIOUS
      <4>1. log'[n] = [l EXCEPT ![Len(l)] = Junk]
        BY <3>1 DEF WithLine
      <4> HIDE DEF l
      <4> QED BY <1>1, <3>1, <4>1, JoinedLine
    <3> QED BY <3>1, <3>2 DEF WithLine
  <2>2. CASE DiesUnended(p)
    BY <2>2 DEF DiesUnended, IInv, DiskInv
  <2> QED BY <2>1, <2>2
<1>3. Len(m) = Len(l) + 1 /\ \A i \in 1..Len(l) : m[i] = l[i]
  BY <1>1, AppendProperties
<1> HIDE DEF m
<1>4. \A i \in 1..Len(l) : i \in 1..Len(m)
  BY <1>1, <1>3
<1>5. AllRecords(l)
  BY <1>2, <1>3, <1>4 DEF AllRecords
<1> QED BY <1>1, <1>2, <1>5 DEF m

(* A ledger that still parses has lost no charge.                          *)
LEMMA CoveredOn ==
  ASSUME IInv, FreshInv, NEW p \in Procs, Does(p), NEW k, Covered(k)
  PROVE  Covered(k)'
<1> SUFFICES ASSUME NEW n \in Nodes, AllRecords(log'[n]), NEW s \in 1..k
             PROVE  \E i \in ChargesAt(n)' : log'[n][i].body.ses = s
  BY DEF Covered
<1>1. CASE log'[n] = log[n]
  BY <1>1 DEF Covered, ChargesAt
<1>2. CASE proc[p].pc \in Final \/ proc[p].at # n
  BY <1>1, <1>2, LedgersStand
<1>3. ASSUME proc[p].at = n, Writes(p) \/ DiesUnended(p)
      PROVE  \E i \in ChargesAt(n)' : log'[n][i].body.ses = s
  <2> DEFINE l == log[n]
             m == Append(l, proc[p].rec)
  <2>1. /\ proc[p].rec \in Line /\ l \in Seq(Line) /\ Len(l) \in Nat
        /\ log'[n] = m /\ AllRecords(l)
    BY <1>3, WrittenWhole
  <2>4. log'[n] = m /\ Len(m) = Len(l) + 1 /\ \A i \in 1..Len(l) : m[i] = l[i]
    BY <2>1, AppendProperties
  <2> HIDE DEF m
  <2>5. \A i \in 1..Len(l) : i \in 1..Len(m)
    BY <2>1, <2>4
  <2>7. PICK i \in ChargesAt(n) : l[i].body.ses = s
    BY <2>1 DEF Covered
  <2>8. i \in 1..Len(l) /\ IsRecord(l[i]) /\ l[i].body.op = "charge"
    BY <2>7 DEF ChargesAt, RecordsIn
  <2> QED BY <2>4, <2>5, <2>7, <2>8 DEF ChargesAt, RecordsIn
<1>4. ASSUME proc[p].at = n, Adopts(p) \/ DiesInChain(p) PROVE FALSE
  <2>1. log[n] = << >>
    BY <1>4 DEF Adopts, DiesInChain, FreshInv
  <2>2. Len(<< >>) = 0
    BY EmptySeq
  <2> QED BY <2>1, <2>2 DEF Covered, AllRecords, ChargesAt, RecordsIn
<1>5. ASSUME proc[p].at = n, DiesInAppend(p) PROVE FALSE
  <2>1. /\ log'[n] = WithTornLine(log[n], open[n]) /\ log[n] \in Seq(Line)
        /\ open[n] \in BOOLEAN /\ (open[n] => log[n] # << >>)
    BY <1>5 DEF DiesInAppend, IInv, DiskInv, OpenEnds
  <2> QED BY <2>1, WithTornLineType
<1>6. CASE UNCHANGED log
  BY <1>1, <1>6
<1> QED BY <1>2, <1>3, <1>4, <1>5, <1>6
        DEF Does, Quits, StartsRun, StartsPlain, StartsMemory, StartsExport, StartsImport,
            Starts, Executes, Accounts, Saves, Exports, Skips, Installs,
            Death, DiesBetween, DiesInExec, DiesInSave, disk

(* Four things are to be shown of a step, as for the names.                *)
LEMMA CoveredOf ==
  ASSUME IInv, FreshInv, CoveredInv, NEW p \in Procs, Alone(p), Does(p),
         \A n \in Nodes : Readable(n)' /\ state'[n] # state[n] => Covered(St(n).ses)',
         \A s \in snaps' \ snaps : Covered(s.st.ses)',
         Carrying(p)' => Covered(proc[p].st.ses)',
         Charging(p)' => Covered(proc[p].st.ses - 1)'
  PROVE  CoveredInv'
<1>1. ASSUME NEW n \in Nodes, Readable(n)' PROVE Covered(St(n).ses)'
  <2>1. CASE state'[n] = state[n]
    <3>1. Readable(n) /\ St(n)' = St(n)
      BY <1>1, <2>1 DEF Readable, St
    <3>2. Covered(St(n).ses)
      BY <3>1 DEF CoveredInv
    <3> DEFINE k == St(n).ses
    <3>3. k' = k
      BY <3>1
    <3> HIDE DEF k
    <3>4. \E x : x = k /\ Covered(x)
      BY <3>2 DEF k
    <3>5. PICK x : x = k /\ Covered(x)
      BY <3>4
    <3>6. Covered(x)' /\ k' = x
      BY <3>3, <3>5, CoveredOn
    <3> QED BY <3>6 DEF k, Covered
  <2> QED BY <1>1, <2>1
<1>2. ASSUME NEW s \in snaps' PROVE Covered(s.st.ses)'
  <2>1. CASE s \in snaps
    BY <2>1, CoveredOn DEF CoveredInv
  <2> QED BY <1>2, <2>1
<1>3. ASSUME NEW q \in Procs \ {p}
      PROVE  /\ Carrying(q)' => Covered(proc[q].st.ses)'
             /\ Charging(q)' => Covered(proc[q].st.ses - 1)'
  <2>1. PICK x : x = proc[q].st.ses
    OBVIOUS
  <2>2. proc'[q] = proc[q]
    BY DEF Alone
  <2>3. Carrying(q)' => Covered(x)'
    BY <2>1, <2>2, CoveredOn DEF CoveredInv, Carrying
  <2>4. Charging(q)' => Covered(x - 1)'
    BY <2>1, <2>2, CoveredOn DEF CoveredInv, Charging
  <2> QED BY <2>1, <2>2, <2>3, <2>4 DEF Covered
<1> QED BY <1>1, <1>2, <1>3 DEF CoveredInv

LEMMA CoveredStep ==
  ASSUME OnePackage, IInv, NamesInv, FreshInv, CoveredInv, NEW p \in Procs, Alone(p), Does(p)
  PROVE  CoveredInv'
<1>0. /\ proc[p] \in Invocation /\ proc[p].st \in State /\ Stage(p)
      /\ proc[p].pc \notin Final => proc[p].at \in Nodes
  BY Mover
<1>1. ASSUME Ends(p) PROVE ~Carrying(p)' /\ ~Charging(p)'
  BY <1>1 DEF Ends, Carrying, Charging, Final
<1>2. ASSUME NEW k, Covered(k), UNCHANGED <<state, snaps>>, proc'[p].st.ses = k, ~Charging(p)'
      PROVE  CoveredInv'
  <2>1. Covered(k)'
    BY <1>2, CoveredOn
  <2>2. Covered(proc[p].st.ses)'
    BY <1>2, <2>1 DEF Covered
  <2> QED BY <1>2, <2>2, CoveredOf
<1>3. ASSUME Ends(p), UNCHANGED <<state, snaps>> PROVE CoveredInv'
  BY <1>1, <1>3, CoveredOf
<1>4. CASE Quits(p)
  BY <1>3, <1>4 DEF Quits, disk
<1>5. ASSUME NEW n \in Nodes, StartsRun(p, n) \/ StartsMemory(p, n) \/ StartsExport(p, n)
      PROVE  CoveredInv'
  <2>1. ~Charging(p)' /\ UNCHANGED <<state, snaps>>
    BY <1>5 DEF StartsRun, StartsMemory, StartsExport, Starts, Becomes, Charging, disk
  <2>2. CASE Readable(n) /\ proc'[p].st.ses = St(n).ses
    <3>1. PICK k : k = St(n).ses
      OBVIOUS
    <3>2. Covered(k)
      BY <2>2, <3>1 DEF CoveredInv, Covered
    <3> QED BY <1>2, <2>1, <2>2, <3>1, <3>2
  <2>3. CASE proc'[p].st = EmptyState
    <3>1. Covered(0) /\ proc'[p].st.ses = 0
      BY <2>3 DEF Covered, EmptyState
    <3> QED BY <1>2, <2>1, <3>1
  <2> QED BY <1>5, <2>2, <2>3 DEF StartsRun, StartsMemory, StartsExport
<1>6. ASSUME NEW n \in Nodes, StartsPlain(p, n) PROVE CoveredInv'
  <2>1. ~Carrying(p)' /\ ~Charging(p)' /\ UNCHANGED <<state, snaps>>
    BY <1>6 DEF StartsPlain, Starts, Becomes, Carrying, Charging, disk
  <2> QED BY <2>1, CoveredOf
<1>7. ASSUME NEW n \in Nodes, NEW s \in snaps, StartsImport(p, n, s) PROVE CoveredInv'
  <2>1. ~Charging(p)' /\ UNCHANGED <<state, snaps>> /\ proc'[p].st.ses = s.st.ses
    BY <1>7 DEF StartsImport, Starts, Becomes, Charging, disk
  <2>2. Covered(s.st.ses)
    BY DEF CoveredInv
  <2> QED BY <1>2, <2>1, <2>2
<1>8. PICK k : k = proc[p].st.ses
  OBVIOUS
<1>9. k \in Nat /\ (Carrying(p) => Covered(k)) /\ (Charging(p) => Covered(k - 1))
  <2>1. k \in Nat
    BY <1>0, <1>8, PackageAssumption DEF State, PackageAssumption
  <2> QED BY <1>8, <2>1 DEF CoveredInv, Covered
<1>10. ASSUME Carrying(p), UNCHANGED <<state, snaps>>, proc'[p].st = proc[p].st, proc'[p].pc # "append"
       PROVE  CoveredInv'
  <2>1. ~Charging(p)'
    BY <1>10 DEF Charging
  <2> QED BY <1>2, <1>8, <1>9, <1>10, <2>1
<1>11. CASE Executes(p)
  <2>1. Carrying(p)
    BY <1>11 DEF Executes, Carrying
  <2> QED BY <1>3, <1>10, <1>11, <2>1 DEF Executes, GoesOn, Becomes
<1>12. CASE Accounts(p)
  <2>1. ~Carrying(p)' /\ UNCHANGED <<state, snaps>> /\ proc'[p].st.ses = k + 1
    BY <1>8, <1>12 DEF Accounts, GoesOn, Becomes, Carrying, Session, disk
  <2>2. Covered(k)
    BY <1>9, <1>12 DEF Accounts, Carrying
  <2>3. Covered(k)'
    BY <2>2, CoveredOn
  <2>4. (k + 1) - 1 = k
    BY <1>9
  <2>5. Covered(proc[p].st.ses - 1)'
    BY <2>1, <2>3, <2>4 DEF Covered
  <2> QED BY <2>1, <2>5, CoveredOf
<1>13. CASE Writes(p)
  <2>1. CASE proc[p].cmd # "run"
    BY <1>3, <1>13, <2>1 DEF Writes
  <2>2. CASE proc[p].cmd = "run"
    <3>1. /\ Charging(p) /\ proc'[p].st.ses = k /\ ~Charging(p)' /\ UNCHANGED <<state, snaps>>
      BY <1>8, <1>13, <2>2 DEF Writes, Charging, GoesOn, Becomes
    <3>2. Covered(k - 1)'
      BY <1>9, <3>1, CoveredOn
    <3>3. /\ proc[p].rec.body.op = "charge" /\ proc[p].rec.body.ses = k
      BY <1>8, <3>1 DEF NamesInv
    <3>4. Covered(k)'
      <4> SUFFICES ASSUME NEW n \in Nodes, AllRecords(log'[n]), NEW s \in 1..k
                   PROVE  \E i \in ChargesAt(n)' : log'[n][i].body.ses = s
        BY DEF Covered
      <4>1. CASE s # k
        <5>1. s \in 1..(k - 1)
          BY <1>9, <4>1
        <5> QED BY <3>2, <5>1 DEF Covered
      <4>2. CASE s = k
        <5> DEFINE l == log[n]
                   r == proc[p].rec
                   m == Append(l, r)
        <5>1. proc[p].at = n
          BY <1>0, <1>13 DEF OnePackage, Writes, Final
        <5>2. /\ r \in Record /\ r \in Line /\ l \in Seq(Line) /\ Len(l) \in Nat
              /\ log'[n] = m
          BY <1>13, <5>1, WrittenWhole
        <5>5. log'[n] = m /\ Len(m) = Len(l) + 1 /\ m[Len(l) + 1] = r
          BY <5>2, AppendProperties
        <5>6. IsRecord(r)
          BY <5>2, PackageAssumption DEF PackageAssumption, IsRecord
        <5> HIDE DEF m, r
        <5>7. Len(l) + 1 \in 1..Len(m)
          BY <5>2, <5>5
        <5>8. r.body.op = "charge" /\ r.body.ses = s
          BY <3>3, <4>2 DEF r
        <5> QED BY <5>5, <5>6, <5>7, <5>8 DEF ChargesAt, RecordsIn
      <4> QED BY <4>1, <4>2
    <3>5. Covered(proc[p].st.ses)'
      BY <3>1, <3>4 DEF Covered
    <3> QED BY <3>1, <3>5, CoveredOf
  <2> QED BY <2>1, <2>2
<1>14. ASSUME proc[p].pc \in {"save", "install"}, UNCHANGED snaps,
              state' = [state EXCEPT ![proc[p].at] = proc[p].st],
              Ends(p) \/ (proc'[p].st = proc[p].st /\ proc'[p].pc # "append")
       PROVE  CoveredInv'
  <2>1. proc[p].at \in Nodes /\ Covered(k)
    BY <1>0, <1>9, <1>14 DEF Carrying, Final
  <2>2. Covered(k)'
    BY <2>1, CoveredOn
  <2>3. ASSUME NEW n \in Nodes, state'[n] # state[n] PROVE Covered(St(n).ses)'
    <3>1. n = proc[p].at
      BY <1>0, <1>14, <2>1, <2>3, StateHolds
    <3>2. St(n)' = proc[p].st
      BY <1>0, <1>14, <2>1, <3>1, StateHolds
    <3> QED BY <1>8, <2>2, <3>2 DEF Covered
  <2>4. ~Charging(p)' /\ (Carrying(p)' => Covered(proc[p].st.ses)')
    BY <1>1, <1>8, <1>14, <2>2 DEF Charging, Covered
  <2> QED BY <1>14, <2>3, <2>4, CoveredOf
<1>15. CASE Saves(p)
  BY <1>14, <1>15 DEF Saves
<1>16. CASE Exports(p)
  <2>1. Covered(k)'
    BY <1>9, <1>16, CoveredOn DEF Exports, Carrying
  <2>2. \A s \in snaps' \ snaps : Covered(s.st.ses)'
    BY <1>8, <1>16, <2>1 DEF Exports
  <2> QED BY <1>1, <1>16, <2>2, CoveredOf DEF Exports
<1>17. CASE Skips(p) \/ Adopts(p)
  <2>1. Carrying(p)
    BY <1>17 DEF Skips, Adopts, Carrying
  <2> QED BY <1>10, <1>17, <2>1 DEF Skips, Adopts, GoesOn, Becomes, disk
<1>18. CASE Installs(p)
  BY <1>14, <1>18 DEF Installs, GoesOn, Becomes
<1>19. CASE Death(p)
  <2>1. CASE UNCHANGED <<state, snaps>>
    BY <1>3, <1>19, <2>1 DEF Death
  <2>2. CASE DiesInSave(p)
    <3>1. \A n \in Nodes : Readable(n)' => state'[n] = state[n]
      <4>1. PICK file \in Unreadable : state' = [state EXCEPT ![proc[p].at] = file]
        BY <2>2 DEF DiesInSave
      <4>2. proc[p].at \in Nodes
        BY <1>0, <2>2 DEF DiesInSave, WritesState, Final
      <4> QED BY <4>1, <4>2, StateLost
    <3> QED BY <1>1, <1>19, <2>2, <3>1, CoveredOf DEF Death, DiesInSave
  <2> QED BY <1>19, <2>1, <2>2
          DEF Death, DiesBetween, DiesInExec, DiesInAppend, DiesUnended, DiesInChain, disk
<1> QED BY <1>4, <1>5, <1>6, <1>7, <1>11, <1>12, <1>13, <1>15, <1>16, <1>17, <1>18, <1>19
        DEF Does

LEMMA CoveredAlways ==
  ASSUME OnePackage
  PROVE  Spec => []CoveredInv
<1>1. Init => CoveredInv
  <2> SUFFICES ASSUME Init PROVE CoveredInv
    OBVIOUS
  <2>1. \A n \in Nodes : St(n).ses = 0
    BY DEF Init, St, Loaded, EmptyState
  <2>2. Covered(0)
    BY DEF Covered
  <2> QED BY <2>1, <2>2 DEF Init, CoveredInv, Carrying, Charging, Idle
<1>2. IInv /\ NamesInv /\ FreshInv /\ CoveredInv /\ [Next]_vars => CoveredInv'
  <2>1. CASE UNCHANGED vars
    BY <2>1 DEF vars, CoveredInv, Covered, ChargesAt, Readable, St, Carrying, Charging
  <2>2. IInv /\ NamesInv /\ FreshInv /\ CoveredInv /\ Next => CoveredInv'
    BY NextDoes, CoveredStep
  <2> QED BY <2>1, <2>2
<1> QED BY <1>1, <1>2, Invariance, NamesAlways, FreshAlways, PTL DEF Spec

(* Accounting comes first: a session that reached state.json is charged in *)
(* the ledger, although invocations die between the two writes.            *)
THEOREM Accounted ==
  ASSUME OnePackage
  PROVE  Spec => []NoSessionUncharged
<1>1. CoveredInv => NoSessionUncharged
  BY DEF CoveredInv, Covered, NoSessionUncharged
<1> QED BY <1>1, CoveredAlways, PTL

-----------------------------------------------------------------------------
(* Beside a writer nobody is at work; a reader may have other readers.     *)
LEMMA ForwardStarts ==
  ASSUME WritersAlone, NEW p \in Procs, NEW cmd, NEW n, MayStart(p, cmd, n),
         NEW q \in Procs \ {p}, Active(q), proc[q].at = n
  PROVE  cmd \in {"plain", "export"} /\ proc[q].cmd \in {"plain", "export"}
BY DEF WritersAlone, MayStart

LEMMA WriterAloneStep ==
  ASSUME WritersAlone, IInv, ForwardInv, NEW p \in Procs, Alone(p), Does(p)
  PROVE  WriterAlone'
<1>1. \/ ~Active(p)'
      \/ Active(p) /\ proc'[p].cmd = proc[p].cmd /\ proc'[p].at = proc[p].at
      \/ MayStart(p, proc'[p].cmd, proc'[p].at)
  <2>1. CASE Ends(p)
    BY <2>1 DEF Ends, Active
  <2>2. CASE ~Ends(p)
    BY <2>2 DEF Does, Quits, StartsRun, StartsPlain, StartsMemory, StartsExport, StartsImport,
           Starts, Becomes, Executes, Accounts, Writes, Saves, Exports, Skips, Installs, Adopts,
           Death, GoesOn, Active, Final
  <2> QED BY <2>1, <2>2
<1>2. ASSUME NEW q \in Procs \ {p}, Active(q)', Active(p)', proc'[q].at = proc'[p].at
      PROVE  proc'[q].cmd \in {"plain", "export"} /\ proc'[p].cmd \in {"plain", "export"}
  <2>1. proc'[q] = proc[q] /\ Active(q)
    BY <1>2 DEF Alone, Active
  <2>2. CASE Active(p) /\ proc'[p].cmd = proc[p].cmd /\ proc'[p].at = proc[p].at
    BY <1>2, <2>1, <2>2 DEF ForwardInv, WriterAlone
  <2>3. CASE MayStart(p, proc'[p].cmd, proc'[p].at)
    BY <1>2, <2>1, <2>3, ForwardStarts
  <2> QED BY <1>1, <1>2, <2>2, <2>3
<1>3. ASSUME NEW q \in Procs \ {p}, NEW r \in Procs \ {p}, q # r,
             Active(q)', Active(r)', proc'[q].at = proc'[r].at
      PROVE  proc'[q].cmd \in {"plain", "export"}
  BY <1>3 DEF Alone, Active, ForwardInv, WriterAlone
<1> SUFFICES ASSUME NEW q \in Procs, NEW r \in Procs, q # r,
                    Active(q)', Active(r)', proc'[q].at = proc'[r].at
             PROVE  proc'[q].cmd \in {"plain", "export"}
  BY DEF WriterAlone
<1> QED BY <1>2, <1>3

LEMMA ForwardStep ==
  ASSUME WritersAlone, IInv, ForwardInv, NEW p \in Procs, Alone(p), Does(p)
  PROVE  ForwardInv'
<1>0. /\ proc[p] \in Invocation /\ proc[p].st \in State /\ Stage(p)
      /\ proc[p].pc \notin Final => proc[p].at \in Nodes
  BY Mover
<1>1. ASSUME NEW q \in Procs \ {p}
      PROVE  /\ proc'[q].pc \in {"save", "install", "chain"} => Writer(q)'
             /\ Writer(q)' => Forward(q)'
  <2>1. proc'[q] = proc[q] /\ (proc[q].pc \notin Final => proc[q].at \in Nodes)
    BY Mover DEF Alone
  <2>2. ASSUME Writer(q) PROVE state'[proc[q].at] = state[proc[q].at]
    <3>1. proc[p].pc \in Final \/ proc[p].at # proc[q].at
      BY <2>2 DEF ForwardInv, WriterAlone, Writer, Active
    <3> QED BY <2>1, <2>2, <3>1, StatesStand DEF Writer, Active
  <2> QED BY <2>1, <2>2 DEF ForwardInv, Writer, Forward, Active, Readable, St, Charging
<1>2. /\ proc'[p].pc \in {"save", "install", "chain"} => Writer(p)'
      /\ Writer(p)' => Forward(p)'
  <2>1. CASE Ends(p)
    BY <2>1 DEF Ends, Final, Writer, Active
  <2>2. ASSUME NEW n \in Nodes, StartsPlain(p, n) \/ StartsExport(p, n)
        PROVE  proc'[p].pc \in {"append", "collect"} /\ ~Writer(p)'
    BY <2>2 DEF StartsPlain, StartsExport, Starts, Becomes, Writer
  <2>3. ASSUME NEW n \in Nodes, StartsRun(p, n) PROVE Writer(p)' /\ Forward(p)'
    <3>1. /\ proc'[p].pc = "exec" /\ proc'[p].cmd = "run" /\ proc'[p].at = n
          /\ Readable(n) /\ proc'[p].st = St(n) /\ state' = state
      BY <2>3 DEF StartsRun, Starts, Becomes, disk
    <3> QED BY <3>1 DEF Writer, Active, Final, Forward, Charging, Readable, St
  <2>4. ASSUME NEW n \in Nodes, StartsMemory(p, n) PROVE Writer(p)' /\ Forward(p)'
    <3>1. /\ proc'[p].pc = "save" /\ proc'[p].cmd = "memory" /\ proc'[p].at = n
          /\ Readable(n) /\ proc'[p].st.ses = St(n).ses /\ state' = state
      BY <2>4 DEF StartsMemory, Starts, Becomes, disk
    <3> QED BY <3>1 DEF Writer, Active, Final, Forward, Charging, Readable, St
  <2>5. ASSUME NEW n \in Nodes, NEW s \in snaps, StartsImport(p, n, s)
        PROVE  Writer(p)' /\ Forward(p)'
    <3>1. /\ proc'[p].pc = "install" /\ proc'[p].cmd = "import" /\ proc'[p].at = n
          /\ Readable(n) /\ proc'[p].st = s.st /\ state' = state /\ ~(s.st.ses < St(n).ses)
      BY <2>5 DEF StartsImport, Starts, Becomes, disk, ImportRejects, St
    <3>2. s.st.ses \in Nat /\ St(n).ses \in Nat
      <4>1. s.st \in State
        BY DEF IInv, DiskInv, Snapshot
      <4>2. St(n) \in State
        BY <3>1, LoadedType DEF IInv, DiskInv, Readable, St
      <4> QED BY <4>1, <4>2, PackageAssumption DEF State, PackageAssumption
    <3>3. s.st.ses >= St(n).ses
      BY <3>1, <3>2
    <3> QED BY <3>1, <3>3 DEF Writer, Active, Final, Forward, Charging, Readable, St
  <2>6. ASSUME Writer(p), Forward(p), state'[proc[p].at] = state[proc[p].at],
               GoesOn(p, proc'[p].pc), proc'[p].pc \notin Final,
               proc'[p].pc \in {"exec", "account"} => proc'[p].st.ses = St(proc[p].at).ses,
               Charging(p)' => proc'[p].st.ses = St(proc[p].at).ses + 1,
               proc'[p].pc = "save" /\ proc[p].cmd = "run" => proc'[p].st.ses = St(proc[p].at).ses + 1,
               proc'[p].pc = "save" => proc[p].cmd # "memory",
               proc'[p].pc = "save" /\ proc[p].cmd = "import"
                 => proc'[p].st.ses >= St(proc[p].at).ses,
               proc'[p].pc \notin {"install", "chain"}
        PROVE  Writer(p)' /\ Forward(p)'
    BY <2>6 DEF Writer, Active, Forward, GoesOn, Becomes, Readable, St
  <2>7. CASE Executes(p)
    <3>1. Writer(p) /\ Forward(p) /\ proc[p].pc = "exec" /\ state' = state
      BY <1>0, <2>7 DEF Executes, Stage, ForwardInv, Writer, Active, Final
    <3>2. CASE ~Ends(p)
      <4>1. GoesOn(p, "account") /\ proc'[p].st = proc[p].st /\ proc'[p].pc = "account"
        BY <2>7, <3>2 DEF Executes, GoesOn, Becomes
      <4>2. proc'[p].st.ses = St(proc[p].at).ses
        BY <3>1, <4>1 DEF Forward
      <4>3. Writer(p)' /\ Forward(p)'
        BY <2>6, <3>1, <4>1, <4>2 DEF Final, Charging
      <4> QED BY <4>3
    <3> QED BY <2>1, <3>2
  <2>8. CASE Accounts(p)
    <3>1. Writer(p) /\ Forward(p) /\ proc[p].pc = "account" /\ state' = state
      BY <1>0, <2>8 DEF Accounts, Stage, ForwardInv, Writer, Active, Final, disk
    <3>2. GoesOn(p, "append") /\ proc'[p].st.ses = proc[p].st.ses + 1 /\ proc'[p].pc = "append"
      BY <2>8 DEF Accounts, GoesOn, Becomes, Session
    <3>3. proc'[p].st.ses = St(proc[p].at).ses + 1
      BY <3>1, <3>2 DEF Forward
    <3>4. Writer(p)' /\ Forward(p)'
      BY <2>6, <3>1, <3>2, <3>3 DEF Final
    <3> QED BY <3>4
  <2>9. CASE Writes(p)
    <3>1. CASE proc[p].cmd = "run"
      <4>1. Writer(p) /\ Forward(p) /\ Charging(p) /\ state' = state
        BY <2>9, <3>1 DEF Writes, ForwardInv, Writer, Active, Final, Charging
      <4>2. GoesOn(p, "save") /\ proc'[p].st.ses = proc[p].st.ses /\ proc'[p].pc = "save"
        BY <2>9, <3>1 DEF Writes, GoesOn, Becomes
      <4>3. proc'[p].st.ses = St(proc[p].at).ses + 1
        BY <4>1, <4>2 DEF Forward
      <4>4. Writer(p)' /\ Forward(p)'
        BY <2>6, <3>1, <4>1, <4>2, <4>3 DEF Final, Charging
      <4> QED BY <4>4
    <3>2. CASE proc[p].cmd # "run"
      BY <2>1, <2>9, <3>2 DEF Writes
    <3> QED BY <3>1, <3>2
  <2>10. CASE Skips(p)
    <3>1. Writer(p) /\ Forward(p) /\ proc[p].pc = "install" /\ state' = state
          /\ proc[p].cmd = "import"
      BY <1>0, <2>10 DEF Skips, Stage, ForwardInv, disk
    <3>2. GoesOn(p, "save") /\ proc'[p].st = proc[p].st /\ proc'[p].pc = "save"
      BY <2>10 DEF Skips, GoesOn, Becomes
    <3>3. proc'[p].st.ses >= St(proc[p].at).ses
      BY <3>1, <3>2 DEF Forward
    <3>4. Writer(p)' /\ Forward(p)'
      BY <2>6, <3>1, <3>2, <3>3 DEF Final, Charging
    <3> QED BY <3>4
  <2>11. CASE Installs(p)
    <3>1. PICK n \in Nodes : n = proc[p].at
      BY <1>0, <2>11 DEF Installs, Final
    <3>2. /\ proc'[p].pc = "chain" /\ proc'[p].cmd = "import" /\ proc'[p].at = n
          /\ proc'[p].st = proc[p].st
      BY <1>0, <2>11, <3>1 DEF Installs, Stage, GoesOn, Becomes
    <3>3. Readable(n)' /\ state'[n] = proc[p].st
      BY <1>0, <2>11, <3>1, StateHolds DEF Installs
    <3> QED BY <3>2, <3>3 DEF Writer, Active, Final, Forward, Charging, Readable
  <2>12. CASE Adopts(p)
    <3>1. Writer(p) /\ Forward(p) /\ proc[p].pc = "chain" /\ state' = state
          /\ proc[p].cmd = "import" /\ proc[p].at \in Nodes
      BY <1>0, <2>12 DEF Adopts, Stage, ForwardInv, Final
    <3>2. GoesOn(p, "save") /\ proc'[p].st = proc[p].st /\ proc'[p].pc = "save"
      BY <2>12 DEF Adopts, GoesOn, Becomes
    <3>3. St(proc[p].at) = proc[p].st
      BY <1>0, <3>1, PackageAssumption DEF Forward, St, Loaded, PackageAssumption
    <3>4. proc'[p].st.ses >= St(proc[p].at).ses
      <4>1. proc[p].st.ses \in Nat
        BY <1>0, PackageAssumption DEF State, PackageAssumption
      <4> QED BY <3>2, <3>3, <4>1
    <3>5. Writer(p)' /\ Forward(p)'
      BY <2>6, <3>1, <3>2, <3>4 DEF Final, Charging
    <3> QED BY <3>5
  <2> QED BY <2>1, <2>2, <2>3, <2>4, <2>5, <2>7, <2>8, <2>9, <2>10, <2>11, <2>12
          DEF Does, Quits, Saves, Exports, Death
<1> QED BY <1>1, <1>2, WriterAloneStep DEF ForwardInv

LEMMA ForwardAlways ==
  ASSUME WritersAlone
  PROVE  Spec => []ForwardInv
<1>1. Init => ForwardInv
  BY DEF Init, ForwardInv, WriterAlone, Writer, Active, Idle, Final
<1>2. IInv /\ ForwardInv /\ [Next]_vars => ForwardInv'
  <2>1. CASE UNCHANGED vars
    BY <2>1 DEF vars, ForwardInv, WriterAlone, Writer, Forward, Active, Readable, St, Charging
  <2>2. IInv /\ ForwardInv /\ Next => ForwardInv'
    BY NextDoes, ForwardStep
  <2> QED BY <2>1, <2>2
<1> QED BY <1>1, <1>2, Invariance, PTL DEF Spec

(* A state that can be read is no older than the one before.               *)
LEMMA NeverBack ==
  ASSUME IInv, ForwardInv, NEW p \in Procs, Does(p), NEW n \in Nodes, Readable(n)'
  PROVE  Readable(n) /\ St(n).ses \in Nat /\ St(n)'.ses \in Nat /\ St(n).ses <= St(n)'.ses
<1>1. ASSUME Readable(n) PROVE St(n).ses \in Nat
  <2>1. St(n) \in State
    BY <1>1, LoadedType DEF IInv, DiskInv, Readable, St
  <2> QED BY <2>1, PackageAssumption DEF State, PackageAssumption
<1>2. CASE state'[n] = state[n]
  BY <1>1, <1>2 DEF St, Readable
<1>3. CASE state'[n] # state[n]
  <2>1. proc[p].pc \notin Final /\ proc[p].at = n
    BY <1>3, StatesStand
  <2>2. ~DiesInSave(p)
    BY <2>1, StateLost DEF DiesInSave
  <2>3. Saves(p) \/ Installs(p)
    BY <1>3, <2>2 DEF Does, Quits, StartsRun, StartsPlain, StartsMemory, StartsExport,
           StartsImport, Starts, Executes, Accounts, Writes, Exports, Skips, Adopts,
           Death, DiesBetween, DiesInExec, DiesInAppend, DiesUnended, DiesInChain, disk
  <2>4. St(n)' = proc[p].st /\ proc[p].st \in State
    <3>1. proc[p].st \in State
      BY Mover
    <3> QED BY <2>1, <2>3, <3>1, StateHolds DEF Saves, Installs
  <2>5. Writer(p) /\ Forward(p) /\ proc[p].pc \in {"save", "install"}
    BY <2>3 DEF Saves, Installs, ForwardInv
  <2>6. Readable(n)
    BY <2>1, <2>5 DEF Forward
  <2>7. proc[p].st.ses >= St(n).ses
    BY <1>1, <2>1, <2>5, <2>6 DEF Writer, Forward
  <2>8. proc[p].st.ses \in Nat
    BY <2>4, PackageAssumption DEF State, PackageAssumption
  <2> QED BY <1>1, <2>4, <2>6, <2>7, <2>8
<1> QED BY <1>2, <1>3

(* No command takes the session counter back: neither an old snapshot nor  *)
(* a command that started from an older copy of the state.                 *)
THEOREM SessionsOnlyGrow ==
  ASSUME WritersAlone
  PROVE  Spec => SessionsMonotone
<1> DEFINE Grow == \A n \in Nodes : Readable(n) /\ Readable(n)' => St(n).ses <= St(n)'.ses
<1>1. IInv /\ ForwardInv /\ [Next]_vars => [Grow]_state
  <2> SUFFICES ASSUME IInv, ForwardInv, [Next]_vars, state' # state PROVE Grow
    OBVIOUS
  <2>1. PICK p \in Procs : Alone(p) /\ Does(p)
    BY NextDoes DEF vars
  <2> QED BY <2>1, NeverBack
<1> QED BY <1>1, Invariance, ForwardAlways, PTL DEF Spec, SessionsMonotone

-----------------------------------------------------------------------------
(* What a command other than run appends is no charge.                     *)
LEMMA AppendAlways == Spec => []AppendInv
<1>1. Init => AppendInv
  BY DEF Init, Idle, AppendInv
<1>2. ASSUME IInv, AppendInv, NEW p \in Procs, Alone(p), Does(p) PROVE AppendInv'
  <2>1. ASSUME proc'[p].pc = "append"
        PROVE  proc'[p].cmd = "run" \/ proc'[p].rec.body.op \in PlainOps
    <3>1. CASE Ends(p)
      BY <2>1, <3>1 DEF Ends, Final
    <3>2. CASE Accounts(p)
      BY <1>2, <3>2, Mover DEF Accounts, GoesOn, Becomes, Stage
    <3>3. ASSUME NEW n \in Nodes, StartsPlain(p, n) PROVE proc'[p].rec.body.op \in PlainOps
      BY <3>3 DEF StartsPlain
    <3> QED BY <1>2, <2>1, <3>1, <3>2, <3>3
        DEF Does, Quits, StartsRun, StartsMemory, StartsExport, StartsImport,
            Starts, Becomes, Executes, Writes, Saves, Exports, Skips, Installs, Adopts,
            Death, GoesOn
  <2> QED BY <1>2, <2>1 DEF AppendInv, Alone
<1>3. IInv /\ AppendInv /\ [Next]_vars => AppendInv'
  <2>1. CASE UNCHANGED vars
    BY <2>1 DEF vars, AppendInv
  <2>2. IInv /\ AppendInv /\ Next => AppendInv'
    BY NextDoes, <1>2
  <2> QED BY <2>1, <2>2
<1> QED BY <1>1, <1>3, Invariance, PTL DEF Spec

(* With one package, what was exported is never ahead of it.               *)
LEMMA PastStep ==
  ASSUME OnePackage, IInv, FreshInv, ForwardInv, PastInv, NEW p \in Procs, Alone(p), Does(p)
  PROVE  PastInv'
<1>0. /\ proc[p] \in Invocation /\ proc[p].st \in State /\ Stage(p)
      /\ proc[p].pc \notin Final => proc[p].at \in Nodes
  BY Mover
<1> SUFFICES ASSUME NEW n \in Nodes
             PROVE  /\ ~haslog'[n] => \A s \in snaps' : s.recs = << >>
                    /\ Readable(n)' =>
                         /\ \A s \in snaps' : s.st.ses <= St(n)'.ses
                         /\ \A q \in Procs : proc'[q].pc = "collect" => proc'[q].st.ses <= St(n)'.ses
  BY DEF PastInv
<1>1. \A s \in snaps' \ snaps : /\ Exports(p) /\ proc[p].pc = "collect"
                                /\ s.recs = log[proc[p].at] /\ s.st = proc[p].st
  BY NewSnap
<1>2. ASSUME ~haslog'[n], NEW s \in snaps' PROVE s.recs = << >>
  <2>1. ~haslog[n]
    <3>1. CASE Writes(p) \/ Adopts(p) \/ DiesInAppend(p) \/ DiesUnended(p) \/ DiesInChain(p)
      <4>1. haslog' = [haslog EXCEPT ![proc[p].at] = TRUE]
        BY <3>1 DEF Writes, Adopts, DiesInAppend, DiesUnended, DiesInChain
      <4> QED BY <1>2, <4>1 DEF IInv, DiskInv
    <3> QED BY <1>2, <3>1
        DEF Does, Quits, StartsRun, StartsPlain, StartsMemory, StartsExport, StartsImport,
            Starts, Executes, Accounts, Saves, Exports, Skips, Installs,
            Death, DiesBetween, DiesInExec, DiesInSave, disk
  <2>2. CASE s \in snaps
    BY <2>1, <2>2 DEF PastInv
  <2>3. CASE s \notin snaps
    <3>1. s.recs = log[proc[p].at] /\ proc[p].at \in Nodes
      BY <1>0, <1>1, <1>2, <2>3 DEF Final
    <3>2. proc[p].at = n
      BY <3>1 DEF OnePackage
    <3> QED BY <2>1, <3>1, <3>2 DEF FreshInv
  <2> QED BY <2>2, <2>3
<1>3. ASSUME Readable(n)'
      PROVE  /\ Readable(n) /\ St(n).ses \in Nat /\ St(n)'.ses \in Nat
             /\ St(n).ses <= St(n)'.ses
             /\ \A x \in Nat : x <= St(n).ses => x <= St(n)'.ses
  <2>1. Readable(n) /\ St(n).ses \in Nat /\ St(n)'.ses \in Nat /\ St(n).ses <= St(n)'.ses
    BY <1>3, NeverBack
  <2> QED BY <2>1
<1>4. \A st \in State : st.ses \in Nat
  BY PackageAssumption DEF State, PackageAssumption
<1>5. ASSUME Readable(n)', NEW s \in snaps' PROVE s.st.ses <= St(n)'.ses
  <2>1. CASE s \in snaps
    <3>1. s.st \in State
      BY <2>1 DEF IInv, DiskInv, Snapshot
    <3>2. s.st.ses <= St(n).ses
      BY <1>3, <1>5, <2>1 DEF PastInv
    <3> QED BY <1>3, <1>4, <1>5, <3>1, <3>2
  <2>2. CASE s \notin snaps
    <3>1. s.st = proc[p].st /\ proc[p].st.ses <= St(n).ses
      BY <1>1, <1>3, <1>5, <2>2 DEF PastInv
    <3> QED BY <1>0, <1>3, <1>4, <1>5, <3>1
  <2> QED BY <2>1, <2>2
<1>6. ASSUME Readable(n)', NEW q \in Procs, proc'[q].pc = "collect"
      PROVE  proc'[q].st.ses <= St(n)'.ses
  <2>1. CASE q # p
    <3>1. proc'[q] = proc[q] /\ proc[q].st \in State
      BY <2>1, Mover DEF Alone
    <3>2. proc[q].st.ses <= St(n).ses
      BY <1>3, <1>6, <3>1 DEF PastInv
    <3> QED BY <1>3, <1>4, <1>6, <3>1, <3>2
  <2>2. CASE q = p
    <3>1. ~Ends(p)
      BY <1>6, <2>2 DEF Ends, Final
    <3>2. PICK m \in Nodes : StartsExport(p, m)
      BY <1>6, <2>2, <3>1
         DEF Does, Quits, StartsRun, StartsPlain, StartsMemory, StartsImport, Starts, Becomes,
             Executes, Accounts, Writes, Saves, Exports, Skips, Installs, Adopts, Death, GoesOn
    <3>3. m = n
      BY DEF OnePackage
    <3>4. proc'[p].st.ses = St(n).ses \/ proc'[p].st.ses = 0
      BY <3>2, <3>3 DEF StartsExport, EmptyState
    <3> QED BY <1>3, <1>6, <2>2, <3>4
  <2> QED BY <2>1, <2>2
<1> QED BY <1>2, <1>5, <1>6

LEMMA PastAlways ==
  ASSUME OnePackage, WritersAlone
  PROVE  Spec => []PastInv
<1>1. Init => PastInv
  <2> SUFFICES ASSUME Init PROVE PastInv
    OBVIOUS
  <2>1. snaps = {} /\ \A p \in Procs : proc[p].pc = "idle"
    BY DEF Init, Idle
  <2> QED BY <2>1 DEF PastInv
<1>2. IInv /\ FreshInv /\ ForwardInv /\ PastInv /\ [Next]_vars => PastInv'
  <2>1. CASE UNCHANGED vars
    BY <2>1 DEF vars, PastInv, Readable, St
  <2>2. IInv /\ FreshInv /\ ForwardInv /\ PastInv /\ Next => PastInv'
    BY NextDoes, PastStep
  <2> QED BY <2>1, <2>2
<1> QED BY <1>1, <1>2, Invariance, FreshAlways, ForwardAlways, PTL DEF Spec

-----------------------------------------------------------------------------
(* The evidence that a run overwrites is of a session nobody saved yet.    *)
LEMMA EvidenceStands ==
  ASSUME OnePackage, IInv, ForwardInv, NEW p \in Procs, Does(p), NEW n \in Nodes,
         NEW k \in 0..MaxSession, k > 0,
         \/ proc[p].pc # "exec"
         \/ k <= St(n).ses
  PROVE  art'[n][k] = art[n][k]
<1>1. CASE UNCHANGED art
  BY <1>1
<1>2. CASE ~UNCHANGED art
  <2>1. /\ proc[p].pc = "exec"
        /\ \E o \in Outputs \cup {None} : art' = [art EXCEPT ![proc[p].at][Session(p)] = o]
    BY <1>2 DEF Does, Quits, StartsRun, StartsPlain, StartsMemory, StartsExport,
         StartsImport, Starts, Executes, Accounts, Writes, Saves, Exports, Skips, Installs, Adopts,
         Death, DiesBetween, DiesInExec, DiesInAppend, DiesUnended, DiesInSave, DiesInChain, disk
  <2>2. PICK o \in Outputs \cup {None} : art' = [art EXCEPT ![proc[p].at][Session(p)] = o]
    BY <2>1
  <2>3. proc[p].at = n /\ Writer(p)
    <3>1. proc[p].at \in Nodes /\ proc[p].cmd = "run"
      BY <2>1, Mover DEF Stage, Final
    <3> QED BY <2>1, <3>1 DEF OnePackage, Writer, Active, Final
  <2>4. Session(p) = St(n).ses + 1 /\ St(n).ses \in Nat
    <3>1. proc[p].st.ses = St(n).ses
      BY <2>1, <2>3 DEF ForwardInv, Forward
    <3>2. proc[p].st.ses \in Nat
      BY Mover, PackageAssumption DEF State, PackageAssumption
    <3> QED BY <3>1, <3>2 DEF Session
  <2>5. k # Session(p) /\ k \in Sessions
    BY <2>1, <2>4, PackageAssumption DEF Sessions, PackageAssumption
  <2>6. art[n] \in [Sessions -> Outputs \cup {None}] /\ art \in [Nodes -> [Sessions -> Outputs \cup {None}]]
    BY DEF IInv, DiskInv
  <2>7. art'[n] = [art[n] EXCEPT ![Session(p)] = o]
    BY <2>2, <2>3, <2>6
  <2> QED BY <2>5, <2>6, <2>7
<1> QED BY <1>1, <1>2

LEMMA EvidenceStep ==
  ASSUME OnePackage, IInv, NamesInv, FreshInv, ForwardInv, PastInv, EvidenceInv,
         NEW p \in Procs, Alone(p), Does(p)
  PROVE  EvidenceInv'
<1>0. /\ proc[p] \in Invocation /\ proc[p].st \in State /\ Stage(p)
      /\ proc[p].pc \notin Final => proc[p].at \in Nodes
  BY Mover
<1>1. \A st \in State : st.ses \in 0..MaxSession /\ st.ses \in Nat
  BY PackageAssumption DEF State, PackageAssumption
<1> SUFFICES ASSUME NEW n \in Nodes
             PROVE  /\ Readable(n)' => Evident(n, St(n))'
                    /\ \A s \in snaps' : Evident(n, s.st)'
                    /\ \A q \in Procs :
                         /\ proc'[q].pc \in {"save", "collect", "install", "chain"}
                              => Evident(n, proc[q].st)'
                         /\ Charging(q)' => proc'[q].rec.body.out = art'[n][proc'[q].st.ses]
  BY DEF EvidenceInv
<1>2. ASSUME proc[p].pc = "exec"
      PROVE  /\ proc[p].at = n /\ Readable(n) /\ St(n) \in State
             /\ \A q \in Procs \ {p} : Active(q) => proc[q].cmd \in {"plain", "export"}
             /\ state' = state /\ snaps' = snaps
             /\ proc'[p].pc \notin {"save", "collect", "install", "chain", "append"}
  <2>1. proc[p].at = n /\ Writer(p)
    <3>1. proc[p].at \in Nodes /\ proc[p].cmd = "run"
      BY <1>0, <1>2 DEF Stage, Final
    <3> QED BY <1>2, <3>1 DEF OnePackage, Writer, Active, Final
  <2>2. Readable(n)
    BY <2>1 DEF ForwardInv, Forward
  <2>3. ASSUME NEW q \in Procs \ {p}, Active(q) PROVE proc[q].cmd \in {"plain", "export"}
    <3>1. proc[q].at = n
      BY <2>3, Mover DEF OnePackage, Active
    <3> QED BY <2>1, <2>3, <3>1 DEF ForwardInv, WriterAlone, Writer
  <2>4. state' = state /\ snaps' = snaps
        /\ proc'[p].pc \notin {"save", "collect", "install", "chain", "append"}
    <3>1. CASE Quits(p)
      BY <3>1 DEF Quits, Ends, Final, disk
    <3>2. CASE Executes(p)
      BY <3>2 DEF Executes, GoesOn, Becomes, Ends, Final
    <3>3. CASE Death(p)
      BY <1>2, <3>3 DEF Death, Ends, Final, DiesBetween, DiesInExec, DiesInAppend, DiesUnended,
                        DiesInSave, DiesInChain, WritesState, disk
    <3>4. \A m \in Nodes : /\ ~StartsRun(p, m) /\ ~StartsPlain(p, m) /\ ~StartsMemory(p, m)
                           /\ ~StartsExport(p, m)
                           /\ \A s \in snaps : ~StartsImport(p, m, s)
      BY <1>2 DEF StartsRun, StartsPlain, StartsMemory, StartsExport, StartsImport, Starts,
                  MayStart, Idle
    <3>5. /\ ~Accounts(p) /\ ~Writes(p) /\ ~Saves(p) /\ ~Exports(p)
          /\ ~Skips(p) /\ ~Installs(p) /\ ~Adopts(p)
      BY <1>2 DEF Accounts, Writes, Saves, Exports, Skips, Installs, Adopts
    <3> QED BY <3>1, <3>2, <3>3, <3>4, <3>5 DEF Does
  <2> QED BY <2>1, <2>2, <2>3, <2>4, LoadedType DEF IInv, DiskInv, Readable, St
<1>3. ASSUME NEW st \in State, Evident(n, st), proc[p].pc # "exec" \/ st.ses <= St(n).ses
      PROVE  st.tip # None /\ st.ses > 0 => art'[n][st.ses] = ChargeOf(st.tip).out
  BY <1>1, <1>3, EvidenceStands DEF Evident
<1>4. ASSUME NEW st \in State, proc[p].pc # "exec",
             st.tip # None /\ st.ses > 0 => art[n][st.ses] = ChargeOf(st.tip).out
      PROVE  st.tip # None /\ st.ses > 0 => art'[n][st.ses] = ChargeOf(st.tip).out
  BY <1>1, <1>4, EvidenceStands
<1>5. ASSUME NEW s \in snaps' PROVE Evident(n, s.st)'
  <2>1. CASE s \in snaps
    <3>1. s.st \in State /\ Evident(n, s.st)
      BY <2>1 DEF IInv, DiskInv, Snapshot, EvidenceInv
    <3>2. proc[p].pc = "exec" => s.st.ses <= St(n).ses
      BY <1>2, <2>1 DEF PastInv
    <3>3. s.st.tip # None /\ s.st.ses > 0 => art'[n][s.st.ses] = ChargeOf(s.st.tip).out
      BY <1>3, <3>1, <3>2
    <3> QED BY <3>3 DEF Evident
  <2>2. CASE s \notin snaps
    <3>1. Exports(p) /\ s.st = proc[p].st
      BY <1>5, <2>2, NewSnap
    <3>2. proc[p].pc = "collect" /\ Evident(n, proc[p].st)
      BY <3>1 DEF Exports, EvidenceInv
    <3>3. s.st.tip # None /\ s.st.ses > 0 => art'[n][s.st.ses] = ChargeOf(s.st.tip).out
      BY <1>0, <1>3, <3>1, <3>2
    <3> QED BY <3>3 DEF Evident
  <2> QED BY <2>1, <2>2
<1>6. ASSUME NEW q \in Procs \ {p}
      PROVE  /\ proc'[q].pc \in {"save", "collect", "install", "chain"} => Evident(n, proc[q].st)'
             /\ Charging(q)' => proc'[q].rec.body.out = art'[n][proc'[q].st.ses]
  <2>1. proc'[q] = proc[q] /\ proc[q].st \in State /\ Stage(q)
    BY Mover DEF Alone
  <2>2. ASSUME proc[q].pc \in {"save", "collect", "install", "chain"} PROVE Evident(n, proc[q].st)'
    <3>1. Evident(n, proc[q].st)
      BY <2>2 DEF EvidenceInv
    <3>2. proc[p].pc = "exec" => proc[q].st.ses <= St(n).ses
      <4>1. CASE proc[q].pc = "collect"
        BY <1>2, <4>1 DEF PastInv
      <4>2. CASE proc[q].pc # "collect"
        BY <1>2, <2>2, <4>2 DEF ForwardInv, Writer
      <4> QED BY <4>1, <4>2
    <3>3. proc[q].st.tip # None /\ proc[q].st.ses > 0
            => art'[n][proc[q].st.ses] = ChargeOf(proc[q].st.tip).out
      BY <1>3, <2>1, <3>1, <3>2
    <3> QED BY <2>1, <3>3 DEF Evident
  <2>3. ASSUME Charging(q) PROVE proc[q].rec.body.out = art'[n][proc[q].st.ses]
    <3>1. proc[p].pc # "exec"
      BY <1>2, <2>3 DEF Charging, Active, Final
    <3>2. proc[q].rec.body.out = art[n][proc[q].st.ses]
      BY <2>3 DEF EvidenceInv
    <3>3. proc[q].st.ses > 0
      <4>1. proc[q].at \in Nodes /\ Writer(q)
        BY <2>3, Mover DEF Charging, Writer, Active, Final
      <4>2. Readable(proc[q].at) /\ proc[q].st.ses = St(proc[q].at).ses + 1
        BY <2>3, <4>1 DEF ForwardInv, Forward
      <4>3. St(proc[q].at) \in State
        BY <4>1, <4>2, LoadedType DEF IInv, DiskInv, Readable, St
      <4> QED BY <1>1, <4>2, <4>3
    <3>4. art'[n][proc[q].st.ses] = art[n][proc[q].st.ses]
      BY <1>1, <2>1, <3>1, <3>3, EvidenceStands
    <3> QED BY <3>2, <3>4
  <2> QED BY <2>1, <2>2, <2>3 DEF Charging
<1>7. ASSUME proc'[p].pc \in {"save", "collect", "install", "chain"} PROVE Evident(n, proc[p].st)'
  <2>0. ~Ends(p) /\ proc[p].pc # "exec"
    BY <1>2, <1>7 DEF Ends, Final
  <2>1. ASSUME NEW st \in State, proc'[p].st.ses = st.ses, proc'[p].st.tip = st.tip,
               st.tip # None /\ st.ses > 0 => art[n][st.ses] = ChargeOf(st.tip).out
        PROVE  Evident(n, proc[p].st)'
    BY <1>4, <2>0, <2>1 DEF Evident
  <2>2. ASSUME NEW m \in Nodes, StartsMemory(p, m) \/ StartsExport(p, m)
        PROVE  Evident(n, proc[p].st)'
    <3>1. m = n
      BY DEF OnePackage
    <3>2. CASE Readable(n) /\ proc'[p].st.ses = St(n).ses /\ proc'[p].st.tip = St(n).tip
      <4>1. Evident(n, St(n)) /\ St(n) \in State
        BY <3>2, LoadedType DEF EvidenceInv, IInv, DiskInv, Readable, St
      <4> QED BY <2>1, <3>2, <4>1 DEF Evident
    <3>3. CASE proc'[p].st = EmptyState
      BY <3>3 DEF Evident, EmptyState
    <3> QED BY <2>2, <3>1, <3>2, <3>3 DEF StartsMemory, StartsExport
  <2>3. ASSUME NEW m \in Nodes, NEW s \in snaps, StartsImport(p, m, s) PROVE Evident(n, proc[p].st)'
    <3>1. Evident(n, s.st) /\ s.st \in State /\ proc'[p].st = s.st
      BY <2>3 DEF EvidenceInv, IInv, DiskInv, Snapshot, StartsImport
    <3> QED BY <2>1, <3>1 DEF Evident
  <2>4. CASE Writes(p)
    <3>1. Charging(p) /\ proc'[p].st.ses = proc[p].st.ses /\ proc'[p].st.tip = proc[p].rec.h
      BY <2>0, <2>4 DEF Writes, Charging
    <3>2. /\ ChargeOf(proc[p].rec.h) = proc[p].rec.body
          /\ proc[p].rec.body.out = art[n][proc[p].st.ses]
      BY <3>1, ChargeNames DEF EvidenceInv
    <3>3. art' = art
      BY <2>4 DEF Writes
    <3> QED BY <3>1, <3>2, <3>3 DEF Evident
  <2>5. CASE Skips(p) \/ Installs(p) \/ Adopts(p)
    <3>1. Evident(n, proc[p].st) /\ proc'[p].st = proc[p].st
      BY <2>5 DEF Skips, Installs, Adopts, EvidenceInv
    <3> QED BY <1>0, <2>1, <3>1 DEF Evident
  <2> QED BY <1>7, <2>0, <2>2, <2>3, <2>4, <2>5
          DEF Does, Quits, StartsRun, StartsPlain, Starts, Becomes, Executes, Accounts,
              Saves, Exports, Death, GoesOn
<1>8. ASSUME Charging(p)' PROVE proc'[p].rec.body.out = art'[n][proc'[p].st.ses]
  <2>0. ~Ends(p)
    BY <1>8 DEF Charging, Ends, Final
  <2>1. Accounts(p)
    BY <1>8, <2>0
       DEF Charging, Does, Quits, StartsRun, StartsPlain, StartsMemory, StartsExport, StartsImport,
           Starts, Becomes, Executes, Writes, Saves, Exports, Skips, Installs, Adopts, Death, GoesOn
  <2>2. proc[p].at = n
    BY <1>0, <2>1 DEF Accounts, Final, OnePackage
  <2> QED BY <2>1, <2>2 DEF Accounts, Charge, disk
<1>9. ASSUME Readable(n)' PROVE Evident(n, St(n))'
  <2>1. CASE state'[n] = state[n]
    <3>1. Readable(n) /\ St(n)' = St(n)
      BY <1>9, <2>1 DEF Readable, St
    <3>2. Evident(n, St(n)) /\ St(n) \in State
      BY <3>1, LoadedType DEF EvidenceInv, IInv, DiskInv, Readable, St
    <3>3. St(n).ses <= St(n).ses
      BY <1>1, <3>2
    <3>4. St(n).tip # None /\ St(n).ses > 0 => art'[n][St(n).ses] = ChargeOf(St(n).tip).out
      BY <1>3, <3>2, <3>3
    <3> QED BY <3>1, <3>4 DEF Evident
  <2>2. CASE state'[n] # state[n]
    <3>1. proc[p].pc \notin Final /\ proc[p].at = n
      BY <2>2, StatesStand
    <3>2. ~DiesInSave(p)
      BY <1>9, <3>1, StateLost DEF DiesInSave
    <3>3. Saves(p) \/ Installs(p)
      BY <2>2, <3>2 DEF Does, Quits, StartsRun, StartsPlain, StartsMemory, StartsExport,
             StartsImport, Starts, Executes, Accounts, Writes, Exports, Skips, Adopts,
             Death, DiesBetween, DiesInExec, DiesInAppend, DiesUnended, DiesInChain, disk
    <3>4. St(n)' = proc[p].st /\ art' = art
      BY <1>0, <3>1, <3>3, StateHolds DEF Saves, Installs
    <3>5. Evident(n, proc[p].st)
      BY <3>3 DEF Saves, Installs, EvidenceInv
    <3> QED BY <3>4, <3>5 DEF Evident
  <2> QED BY <2>1, <2>2
<1>10. \A q \in Procs :
         /\ proc'[q].pc \in {"save", "collect", "install", "chain"} => Evident(n, proc[q].st)'
         /\ Charging(q)' => proc'[q].rec.body.out = art'[n][proc'[q].st.ses]
  BY <1>6, <1>7, <1>8
<1> QED BY <1>5, <1>9, <1>10

LEMMA EvidenceAlways ==
  ASSUME OnePackage, WritersAlone
  PROVE  Spec => []EvidenceInv
<1>1. Init => EvidenceInv
  <2> SUFFICES ASSUME Init PROVE EvidenceInv
    OBVIOUS
  <2>1. snaps = {} /\ \A p \in Procs : proc[p].pc = "idle"
    BY DEF Init, Idle
  <2>2. \A n \in Nodes : St(n).tip = None
    BY DEF Init, St, Loaded, EmptyState
  <2> QED BY <2>1, <2>2 DEF EvidenceInv, Evident, Charging
<1>2. IInv /\ NamesInv /\ FreshInv /\ ForwardInv /\ PastInv /\ EvidenceInv /\ [Next]_vars
        => EvidenceInv'
  <2>1. CASE UNCHANGED vars
    BY <2>1 DEF vars, EvidenceInv, Evident, Readable, St, Charging
  <2>2. IInv /\ NamesInv /\ FreshInv /\ ForwardInv /\ PastInv /\ EvidenceInv /\ Next
          => EvidenceInv'
    BY NextDoes, EvidenceStep
  <2> QED BY <2>1, <2>2
<1> QED BY <1>1, <1>2, Invariance, NamesAlways, FreshAlways, ForwardAlways, PastAlways, PTL
        DEF Spec

(* The evidence of the last saved session is what its charge was computed  *)
(* from, however many attempts at later sessions failed or died (E-5).     *)
THEOREM EvidenceOfTip ==
  ASSUME OnePackage, WritersAlone
  PROVE  Spec => []TipEvidence
<1>1. EvidenceInv => TipEvidence
  BY DEF EvidenceInv, Evident, TipEvidence
<1> QED BY <1>1, EvidenceAlways, PTL

-----------------------------------------------------------------------------
(* What an append does to the charges of a ledger.                         *)
LEMMA ChargesAppend ==
  ASSUME NEW l \in Seq(Line), NEW r \in Record
  PROVE  /\ \A i \in Charges(l) : i \in 1..Len(l) /\ Append(l, r)[i] = l[i]
         /\ Len(l) \in Nat /\ Len(Append(l, r)) = Len(l) + 1 /\ Append(l, r)[Len(l) + 1] = r
         /\ r.body.op = "charge" => Charges(Append(l, r)) = Charges(l) \cup {Len(l) + 1}
         /\ r.body.op # "charge" => Charges(Append(l, r)) = Charges(l)
<1> DEFINE m == Append(l, r)
<1>1. Len(l) \in Nat /\ r \in Line
  BY LenProperties DEF Line
<1>2. Len(m) = Len(l) + 1 /\ m[Len(l) + 1] = r /\ \A i \in 1..Len(l) : m[i] = l[i]
  BY <1>1, AppendProperties
<1>3. IsRecord(r)
  BY PackageAssumption DEF PackageAssumption, IsRecord
<1>4. 1..(Len(l) + 1) = 1..Len(l) \cup {Len(l) + 1}
  BY <1>1
<1> HIDE DEF m
<1>5. \A i : i \in Charges(m) <=> i \in Charges(l) \/ (i = Len(l) + 1 /\ r.body.op = "charge")
  BY <1>1, <1>2, <1>3, <1>4 DEF Charges, RecordsIn
<1>6. \A i \in Charges(l) : i \in 1..Len(l) /\ m[i] = l[i]
  BY <1>2 DEF Charges, RecordsIn
<1> QED BY <1>1, <1>2, <1>5, <1>6 DEF m

(* A line that joins another destroys at most a charge.                    *)
LEMMA JoinedCharges ==
  ASSUME NEW l \in Seq(Line), NEW o \in BOOLEAN, o => l # << >>, ~Ended(l, o),
         NEW x \in {Torn, Junk}
  PROVE  Charges([l EXCEPT ![Len(l)] = x]) \subseteq Charges(l)
<1> DEFINE m == [l EXCEPT ![Len(l)] = x]
<1>1. Len(l) \in 1..Len(l) /\ x \in Line /\ ~IsRecord(x)
  BY JoinedLine DEF Line, IsRecord
<1>2. /\ Len(m) = Len(l) /\ m[Len(l)] = x
      /\ \A i \in 1..Len(l) : i # Len(l) => m[i] = l[i]
  BY <1>1, ExceptSeq
<1> HIDE DEF m
<1>3. \A i : i \in Charges(m) => i \in Charges(l)
  BY <1>1, <1>2 DEF Charges, RecordsIn
<1> QED BY <1>3 DEF m

(* An append adds at most its own charge.                                  *)
LEMMA WriteCases ==
  ASSUME NEW l \in Seq(Line), NEW o \in BOOLEAN, o => l # << >>, NEW r \in Record
  PROVE  \/ Charges(WithLine(l, o, r)) \subseteq Charges(l)
         \/ WithLine(l, o, r) = Append(l, r)
<1>1. CASE ~Ended(l, o)
  <2>1. WithLine(l, o, r) = [l EXCEPT ![Len(l)] = Junk]
    BY <1>1 DEF WithLine
  <2> QED BY <1>1, <2>1, JoinedCharges
<1>2. CASE Ended(l, o)
  BY <1>2 DEF WithLine
<1> QED BY <1>1, <1>2

LEMMA TearCharges ==
  ASSUME NEW l \in Seq(Line), NEW o \in BOOLEAN, o => l # << >>
  PROVE  Charges(WithTornLine(l, o)) \subseteq Charges(l)
<1>1. CASE ~Ended(l, o)
  <2>1. WithTornLine(l, o) = [l EXCEPT ![Len(l)] = Torn]
    BY <1>1 DEF WithTornLine
  <2> QED BY <1>1, <2>1, JoinedCharges
<1>2. CASE Ended(l, o)
  <2> DEFINE m == Append(l, Torn)
  <2>1. Len(l) \in Nat /\ Torn \in Line /\ ~IsRecord(Torn)
    BY LenProperties DEF Line, IsRecord
  <2>2. Len(m) = Len(l) + 1 /\ m[Len(l) + 1] = Torn /\ \A i \in 1..Len(l) : m[i] = l[i]
    BY <2>1, AppendProperties
  <2>3. 1..(Len(l) + 1) = 1..Len(l) \cup {Len(l) + 1}
    BY <2>1
  <2>4. WithTornLine(l, o) = m
    BY <1>2 DEF WithTornLine
  <2> HIDE DEF m
  <2>5. \A i : i \in Charges(m) => i \in Charges(l)
    BY <2>1, <2>2, <2>3 DEF Charges, RecordsIn
  <2> QED BY <2>4, <2>5
<1> QED BY <1>1, <1>2

(* The next session's charge keeps the order ...                           *)
LEMMA ChargeKeepsOrder ==
  ASSUME NEW l \in Seq(Line), NEW r \in Record, r.body.op = "charge", InOrder(l), NEW k \in Nat,
         \A i \in 1..Len(l) : LastCharge(l, i) => l[i].body.ses \in {k, k + 1},
         r.body.ses = k + 1
  PROVE  /\ InOrder(Append(l, r))
         /\ \A i \in 1..Len(Append(l, r)) :
              LastCharge(Append(l, r), i) => Append(l, r)[i].body.ses = k + 1
<1> DEFINE m == Append(l, r)
<1>1. /\ \A i \in Charges(l) : i \in 1..Len(l) /\ m[i] = l[i]
      /\ Len(l) \in Nat /\ Len(m) = Len(l) + 1 /\ m[Len(l) + 1] = r
      /\ Charges(m) = Charges(l) \cup {Len(l) + 1}
  BY ChargesAppend
<1> HIDE DEF m
<1>2. ASSUME NEW i \in Charges(m), NEW j \in Charges(m), i < j,
             \A c \in Charges(m) : c <= i \/ j <= c
      PROVE  m[j].body.ses \in {m[i].body.ses, m[i].body.ses + 1}
  <2>1. CASE j \in Charges(l)
    <3>1. i \in Charges(l)
      BY <1>1, <1>2, <2>1
    <3>2. \A c \in Charges(l) : c <= i \/ j <= c
      BY <1>1, <1>2
    <3>3. l[j].body.ses \in {l[i].body.ses, l[i].body.ses + 1}
      BY <1>2, <2>1, <3>1, <3>2 DEF InOrder
    <3> QED BY <1>1, <2>1, <3>1, <3>3
  <2>2. CASE j = Len(l) + 1
    <3>1. i \in Charges(l) /\ i \in 1..Len(l) /\ m[i] = l[i] /\ m[j] = r
      BY <1>1, <1>2, <2>2
    <3>2. \A c \in Charges(l) : c <= i
      BY <1>1, <1>2, <2>2
    <3>3. l[i].body.ses \in {k, k + 1}
      BY <3>1, <3>2 DEF LastCharge
    <3> QED BY <3>1, <3>3
  <2> QED BY <1>1, <2>1, <2>2
<1>3. ASSUME NEW i \in 1..Len(m), LastCharge(m, i) PROVE m[i].body.ses = k + 1
  <2>1. i = Len(l) + 1
    BY <1>1, <1>3 DEF LastCharge
  <2> QED BY <1>1, <2>1
<1> QED BY <1>2, <1>3 DEF InOrder, m

(* ... and what is no charge does not concern it.                          *)
LEMMA PlainKeepsOrder ==
  ASSUME NEW l \in Seq(Line), NEW r \in Record, r.body.op # "charge", InOrder(l)
  PROVE  /\ InOrder(Append(l, r))
         /\ \A i \in 1..Len(Append(l, r)) : LastCharge(Append(l, r), i) =>
              i \in 1..Len(l) /\ LastCharge(l, i) /\ Append(l, r)[i] = l[i]
<1> DEFINE m == Append(l, r)
<1>1. (\A i \in Charges(l) : i \in 1..Len(l) /\ m[i] = l[i]) /\ Charges(m) = Charges(l)
  BY ChargesAppend
<1> HIDE DEF m
<1>2. InOrder(m)
  <2> SUFFICES ASSUME NEW i \in Charges(m), NEW j \in Charges(m), i < j,
                      \A c \in Charges(m) : c <= i \/ j <= c
               PROVE  m[j].body.ses \in {m[i].body.ses, m[i].body.ses + 1}
    BY DEF InOrder
  <2>1. l[j].body.ses \in {l[i].body.ses, l[i].body.ses + 1}
    BY <1>1 DEF InOrder
  <2> QED BY <1>1, <2>1
<1>3. ASSUME NEW i \in 1..Len(m), LastCharge(m, i)
      PROVE  i \in 1..Len(l) /\ LastCharge(l, i) /\ m[i] = l[i]
  BY <1>1, <1>3 DEF LastCharge
<1> QED BY <1>2, <1>3 DEF m

-----------------------------------------------------------------------------
(* Who is about to save the state of a session it charged.                 *)
LEMMA SavingStep ==
  ASSUME IInv, NEW p \in Procs, Alone(p), Does(p), NEW n \in Nodes
  PROVE  Saving(n)' = IF Writes(p) /\ proc[p].cmd = "run" /\ proc[p].at = n
                      THEN Saving(n) \cup {p} ELSE Saving(n) \ {p}
<1> DEFINE W == Writes(p) /\ proc[p].cmd = "run" /\ proc[p].at = n
<1>1. \A q \in Procs \ {p} : q \in Saving(n)' <=> q \in Saving(n)
  BY DEF Alone, Saving
<1>2. p \in Saving(n)' <=> W
  <2>1. ASSUME W PROVE p \in Saving(n)'
    BY <2>1 DEF Writes, GoesOn, Becomes, Saving
  <2>2. ASSUME p \in Saving(n)' PROVE W
    <3>1. proc'[p].pc = "save" /\ proc'[p].cmd = "run" /\ proc'[p].at = n
      BY <2>2 DEF Saving
    <3>2. ~Ends(p)
      BY <3>1 DEF Ends, Final
    <3>3. ~Skips(p) /\ ~Adopts(p)
      BY <3>1, Mover DEF Skips, Adopts, GoesOn, Becomes, Stage
    <3> QED BY <3>1, <3>2, <3>3
            DEF Does, Quits, StartsRun, StartsPlain, StartsMemory, StartsExport, StartsImport,
                Starts, Becomes, Executes, Accounts, Writes, Saves, Exports, Installs, Death, GoesOn
  <2> QED BY <2>1, <2>2
<1>3. \A q : q \in Saving(n)' => q \in Procs
  BY DEF Saving
<1>4. \A q : q \in Saving(n) => q \in Procs
  BY DEF Saving
<1> QED BY <1>1, <1>2, <1>3, <1>4

(* It is the only writer there.                                            *)
LEMMA OneSaves ==
  ASSUME ForwardInv, NEW p \in Procs, Writer(p), NEW n \in Nodes, proc[p].at = n
  PROVE  Saving(n) \subseteq {p}
<1> SUFFICES ASSUME NEW q \in Saving(n), q # p PROVE FALSE
  OBVIOUS
<1>1. q \in Procs /\ proc[q].pc = "save" /\ proc[q].cmd = "run" /\ proc[q].at = n
  BY DEF Saving
<1> QED BY <1>1 DEF ForwardInv, WriterAlone, Writer, Active, Final

(* With one package, an import finds its own ledger.                       *)
LEMMA LogCases ==
  ASSUME IInv, FreshInv, PastInv, NEW p \in Procs, Does(p), NEW n \in Nodes
  PROVE  \/ log'[n] = log[n]
         \/ Writes(p) /\ proc[p].at = n
         \/ DiesInAppend(p) /\ Death(p) /\ proc[p].at = n
         \/ DiesUnended(p) /\ Death(p) /\ proc[p].at = n
<1>1. CASE proc[p].pc \in Final \/ proc[p].at # n
  BY <1>1, LedgersStand
<1>2. ASSUME proc[p].at = n, Adopts(p) \/ DiesInChain(p) PROVE log'[n] = log[n]
  <2>1. proc[p].pc = "chain"
    BY <1>2 DEF Adopts, DiesInChain
  <2>2. /\ ~haslog[n] /\ log[n] = << >> /\ proc[p].snap \in snaps
    BY <1>2, <2>1 DEF FreshInv, Active, Final
  <2>3. proc[p].snap.recs = << >> /\ Len(<< >>) = 0
    BY <2>2, EmptySeq DEF PastInv
  <2>4. ~DiesInChain(p)
    BY <2>3 DEF DiesInChain
  <2> QED BY <1>2, <2>2, <2>3, <2>4 DEF Adopts, IInv, DiskInv
<1>3. CASE UNCHANGED log
  BY <1>3
<1> QED BY <1>1, <1>2, <1>3
        DEF Does, Quits, StartsRun, StartsPlain, StartsMemory, StartsExport, StartsImport,
            Starts, Executes, Accounts, Writes, Saves, Exports, Skips, Installs,
            Death, DiesBetween, DiesInExec, DiesInSave, disk

(* ... and what changes a state that can be read.                          *)
LEMMA StateCases ==
  ASSUME IInv, NEW p \in Procs, Does(p), NEW n \in Nodes, Readable(n)'
  PROVE  \/ state'[n] = state[n]
         \/ /\ Saves(p) \/ Installs(p)
            /\ proc[p].at = n /\ St(n)' = proc[p].st
<1>1. CASE state'[n] # state[n]
  <2>1. proc[p].pc \notin Final /\ proc[p].at = n
    BY <1>1, StatesStand
  <2>2. ~DiesInSave(p)
    BY <2>1, StateLost DEF DiesInSave
  <2>3. Saves(p) \/ Installs(p)
    BY <1>1, <2>2 DEF Does, Quits, StartsRun, StartsPlain, StartsMemory, StartsExport,
           StartsImport, Starts, Executes, Accounts, Writes, Exports, Skips, Adopts,
           Death, DiesBetween, DiesInExec, DiesInAppend, DiesUnended, DiesInChain, disk
  <2>4. proc[p].st \in State
    BY Mover
  <2> QED BY <2>1, <2>3, <2>4, StateHolds DEF Saves, Installs
<1> QED BY <1>1

LEMMA OrderStep ==
  ASSUME OnePackage, IInv, NamesInv, FreshInv, AppendInv, ForwardInv, PastInv, OrderInv,
         NEW p \in Procs, Alone(p), Does(p)
  PROVE  OrderInv'
<1> SUFFICES ASSUME NEW n \in Nodes, AllRecords(log'[n])
             PROVE  /\ InOrder(log'[n])
                    /\ Readable(n)' =>
                         \A i \in 1..Len(log'[n]) : LastCharge(log'[n], i) =>
                           IF Saving(n)' = {}
                           THEN log'[n][i].body.ses \in {St(n)'.ses, St(n)'.ses + 1}
                           ELSE log'[n][i].body.ses = St(n)'.ses + 1
  BY DEF OrderInv
<1>1. Saving(n)' = IF Writes(p) /\ proc[p].cmd = "run" /\ proc[p].at = n
                   THEN Saving(n) \cup {p} ELSE Saving(n) \ {p}
  BY SavingStep
<1>2. CASE (Writes(p) \/ DiesUnended(p)) /\ proc[p].at = n
  <2> DEFINE l == log[n]
             r == proc[p].rec
             m == Append(l, r)
  <2>1. /\ l \in Seq(Line) /\ r \in Record /\ state' = state /\ proc[p].pc = "append"
        /\ log'[n] = m /\ AllRecords(l)
    BY <1>2, WrittenWhole DEF Writes, DiesUnended
  <2>2. log'[n] = m /\ AllRecords(l)
    BY <2>1
  <2>3. InOrder(l) /\ Readable(n)' = Readable(n) /\ St(n)' = St(n)
    BY <2>1, <2>2 DEF OrderInv, Readable, St
  <2>4. CASE proc[p].cmd = "run"
    <3>1. Writer(p) /\ Charging(p)
      BY <2>1, <2>4 DEF Writer, Charging, Active, Final
    <3>2. Readable(n) /\ proc[p].st.ses = St(n).ses + 1
      BY <1>2, <3>1 DEF ForwardInv, Forward
    <3>3. r.body.op = "charge" /\ r.body.ses = St(n).ses + 1
      BY <3>1, <3>2 DEF NamesInv
    <3>4. Saving(n) = {}
      <4>1. p \notin Saving(n)
        BY <2>1 DEF Saving
      <4> QED BY <1>2, <3>1, <4>1, OneSaves
    <3>6. St(n).ses \in Nat
      <4>1. St(n) \in State
        BY <3>2, LoadedType DEF IInv, DiskInv, Readable, St
      <4> QED BY <4>1, PackageAssumption DEF State, PackageAssumption
    <3>7. \A i \in 1..Len(l) : LastCharge(l, i) => l[i].body.ses \in {St(n).ses, St(n).ses + 1}
      BY <2>2, <3>2, <3>4 DEF OrderInv
    <3> HIDE DEF m, l, r
    <3>8. /\ InOrder(Append(l, r))
          /\ \A i \in 1..Len(Append(l, r)) :
               LastCharge(Append(l, r), i) => Append(l, r)[i].body.ses = St(n).ses + 1
      BY <2>1, <2>3, <3>3, <3>6, <3>7, ChargeKeepsOrder
    <3> QED BY <2>2, <2>3, <3>6, <3>8 DEF m
  <2>5. CASE proc[p].cmd # "run"
    <3>1. r.body.op # "charge"
      BY <2>1, <2>5, PackageAssumption DEF AppendInv, PackageAssumption
    <3>2. Saving(n)' = Saving(n)
      BY <1>1, <2>1, <2>5 DEF Saving
    <3>3. Readable(n) =>
            \A i \in 1..Len(l) : LastCharge(l, i) =>
              IF Saving(n) = {}
              THEN l[i].body.ses \in {St(n).ses, St(n).ses + 1}
              ELSE l[i].body.ses = St(n).ses + 1
      BY <2>2 DEF OrderInv
    <3> HIDE DEF m, l, r
    <3>4. /\ InOrder(Append(l, r))
          /\ \A i \in 1..Len(Append(l, r)) : LastCharge(Append(l, r), i) =>
               i \in 1..Len(l) /\ LastCharge(l, i) /\ Append(l, r)[i] = l[i]
      BY <2>1, <2>3, <3>1, PlainKeepsOrder
    <3> QED BY <2>2, <2>3, <3>2, <3>3, <3>4 DEF m
  <2> QED BY <2>4, <2>5
<1>3. CASE DiesInAppend(p) /\ proc[p].at = n
  <2>1. /\ log'[n] = WithTornLine(log[n], open[n]) /\ log[n] \in Seq(Line)
        /\ open[n] \in BOOLEAN /\ (open[n] => log[n] # << >>)
    BY <1>3 DEF DiesInAppend, IInv, DiskInv, OpenEnds
  <2> QED BY <2>1, WithTornLineType
<1>4. CASE log'[n] = log[n] /\ ~(Writes(p) /\ proc[p].at = n)
  <2>1. /\ InOrder(log[n])
        /\ Readable(n) =>
             \A i \in 1..Len(log[n]) : LastCharge(log[n], i) =>
               IF Saving(n) = {}
               THEN log[n][i].body.ses \in {St(n).ses, St(n).ses + 1}
               ELSE log[n][i].body.ses = St(n).ses + 1
    BY <1>4 DEF OrderInv
  <2>2. Saving(n)' = Saving(n) \ {p}
    BY <1>1, <1>4
  <2> SUFFICES ASSUME Readable(n)', NEW i \in 1..Len(log[n]), LastCharge(log[n], i)
               PROVE  IF Saving(n)' = {}
                      THEN log[n][i].body.ses \in {St(n)'.ses, St(n)'.ses + 1}
                      ELSE log[n][i].body.ses = St(n)'.ses + 1
    BY <1>4, <2>1
  <2>3. CASE state'[n] = state[n]
    <3>1. Readable(n) /\ St(n)' = St(n)
      BY <2>3 DEF Readable, St
    <3>2. Saving(n)' # {} => Saving(n) # {}
      BY <2>2
    <3> QED BY <2>1, <3>1, <3>2
  <2>4. CASE (Saves(p) \/ Installs(p)) /\ proc[p].at = n /\ St(n)' = proc[p].st
    <3>1. Writer(p) /\ Forward(p) /\ Readable(n)
      BY <2>4 DEF ForwardInv, Forward, Saves, Installs
    <3>2. Saving(n)' = {}
      BY <2>2, <2>4, <3>1, OneSaves
    <3>3. /\ St(n).ses \in Nat /\ St(n)'.ses \in Nat
          /\ log[n][i].body.ses \in {St(n).ses, St(n).ses + 1}
      BY <2>1, <3>1, NeverBack
    <3>4. CASE Installs(p)
      <4>1. log[n] = << >> /\ Len(<< >>) = 0
        BY <2>4, <3>4, EmptySeq DEF Installs, FreshInv
      <4> QED BY <4>1
    <3>5. CASE Saves(p) /\ proc[p].cmd = "run"
      <4>1. p \in Saving(n) /\ St(n)'.ses = St(n).ses + 1
        BY <2>4, <3>1, <3>5 DEF Saves, Saving, Forward
      <4>2. log[n][i].body.ses = St(n).ses + 1
        BY <2>1, <3>1, <4>1
      <4> QED BY <3>2, <4>1, <4>2
    <3>6. CASE Saves(p) /\ proc[p].cmd = "memory"
      <4>1. St(n)'.ses = St(n).ses
        BY <2>4, <3>1, <3>6 DEF Saves, Forward
      <4> QED BY <3>2, <3>3, <4>1
    <3>7. CASE Saves(p) /\ proc[p].cmd = "import"
      <4>1. St(n)'.ses >= St(n).ses
        BY <2>4, <3>1, <3>7 DEF Saves, Forward
      <4>2. St(n)'.ses <= St(n).ses
        <5>1. proc[p].snap \in snaps /\ proc[p].st = proc[p].snap.st
          BY <3>7 DEF Saves, FreshInv, Active, Final
        <5> QED BY <2>4, <3>1, <5>1 DEF PastInv
      <4>3. St(n)'.ses = St(n).ses
        BY <3>3, <4>1, <4>2
      <4> QED BY <3>2, <3>3, <4>3
    <3> QED BY <2>4, <3>1, <3>4, <3>5, <3>6, <3>7 DEF Writer
  <2> QED BY <2>3, <2>4, StateCases
<1> QED BY <1>2, <1>3, <1>4, LogCases

LEMMA OrderAlways ==
  ASSUME OnePackage, WritersAlone
  PROVE  Spec => []OrderInv
<1>1. Init => OrderInv
  <2> SUFFICES ASSUME Init PROVE OrderInv
    OBVIOUS
  <2>1. \A n \in Nodes : log[n] = << >>
    BY DEF Init
  <2>2. Len(<< >>) = 0
    BY EmptySeq
  <2> QED BY <2>1, <2>2 DEF OrderInv, InOrder, Charges, RecordsIn
<1>2. IInv /\ NamesInv /\ FreshInv /\ AppendInv /\ ForwardInv /\ PastInv /\ OrderInv
        /\ [Next]_vars => OrderInv'
  <2>1. CASE UNCHANGED vars
    BY <2>1 DEF vars, OrderInv, Readable, St, Saving
  <2>2. IInv /\ NamesInv /\ FreshInv /\ AppendInv /\ ForwardInv /\ PastInv /\ OrderInv
          /\ Next => OrderInv'
    BY NextDoes, OrderStep
  <2> QED BY <2>1, <2>2
<1> QED BY <1>1, <1>2, Invariance, NamesAlways, FreshAlways, AppendAlways, ForwardAlways,
           PastAlways, PTL DEF Spec

(* Charges follow the order of sessions, although runs that died are       *)
(* repeated: the same session again, or the next one.                      *)
THEOREM ChargesFollow ==
  ASSUME OnePackage, WritersAlone
  PROVE  Spec => []ChargesInOrder
<1>1. OrderInv => ChargesInOrder
  <2>1. \A n \in Nodes : ChargesAt(n) = Charges(log[n])
    BY DEF ChargesAt, Charges
  <2> QED BY <2>1 DEF OrderInv, InOrder, ChargesInOrder
<1> QED BY <1>1, OrderAlways, PTL

-----------------------------------------------------------------------------
LEMMA ChargesFinite ==
  ASSUME NEW l \in Seq(Line)
  PROVE  IsFiniteSet(Charges(l)) /\ Cardinality(Charges(l)) \in Nat
<1>1. Len(l) \in Nat
  BY LenProperties
<1>2. IsFiniteSet(1..Len(l))
  BY <1>1, FS_Interval
<1>3. Charges(l) \subseteq 1..Len(l)
  BY DEF Charges, RecordsIn
<1> QED BY <1>2, <1>3, FS_Subset, FS_CardinalityType

(* One element more adds one or nothing to the size of a finite set.       *)
LEMMA OneMore ==
  ASSUME NEW C, NEW x, IsFiniteSet(C)
  PROVE  \/ Cardinality(C \cup {x}) = Cardinality(C)
         \/ Cardinality(C \cup {x}) = Cardinality(C) + 1
<1>1. CASE x \in C
  <2>1. C \cup {x} = C
    BY <1>1
  <2> QED BY <2>1
<1>2. CASE x \notin C
  <2>1. Cardinality(C \cup {x})
          = IF x \in C THEN Cardinality(C) ELSE Cardinality(C) + 1
    BY FS_AddElement, Zenon
  <2> QED BY <1>2, <2>1, Zenon
<1> QED BY <1>1, <1>2

(* Fewer charges, in number as well.                                       *)
LEMMA FewerCharges ==
  ASSUME NEW l \in Seq(Line), NEW D \in SUBSET Charges(l)
  PROVE  Cardinality(D) \in Nat /\ Cardinality(D) <= Cardinality(Charges(l))
<1>1. IsFiniteSet(Charges(l))
  BY ChargesFinite
<1>2. IsFiniteSet(D) /\ Cardinality(D) <= Cardinality(Charges(l))
  BY <1>1, FS_Subset
<1> QED BY <1>2, FS_CardinalityType

(* What the write does to the number of charges.                           *)
LEMMA WriteCounts ==
  ASSUME NEW l \in Seq(Line), NEW o \in BOOLEAN, o => l # << >>, NEW r \in Record
  PROVE  /\ Cardinality(Charges(WithLine(l, o, r))) \in Nat
         /\ Cardinality(Charges(WithLine(l, o, r))) <= Cardinality(Charges(l)) + 1
         /\ r.body.op # "charge" =>
              Cardinality(Charges(WithLine(l, o, r))) <= Cardinality(Charges(l))
<1> DEFINE C == Charges(l)
           D == Charges(WithLine(l, o, r))
           x == Len(l) + 1
<1>1. IsFiniteSet(C) /\ Cardinality(C) \in Nat
  BY ChargesFinite
<1>2. D \subseteq C \/ (r.body.op = "charge" /\ D = C \cup {x})
  <2>1. D \subseteq C \/ WithLine(l, o, r) = Append(l, r)
    BY WriteCases
  <2>2. r.body.op # "charge" => Charges(Append(l, r)) = C
    BY ChargesAppend
  <2>3. r.body.op = "charge" => Charges(Append(l, r)) = C \cup {x}
    BY ChargesAppend
  <2> QED BY <2>1, <2>2, <2>3
<1>3. D \subseteq C => Cardinality(D) \in Nat /\ Cardinality(D) <= Cardinality(C)
  <2> HIDE DEF D
  <2> QED BY FewerCharges
<1> HIDE DEF C, D, x
<1>4. D = C \cup {x} => Cardinality(D) \in {Cardinality(C), Cardinality(C) + 1}
  <2>1. \/ Cardinality(C \cup {x}) = Cardinality(C)
        \/ Cardinality(C \cup {x}) = Cardinality(C) + 1
    BY <1>1, OneMore
  <2> QED BY <2>1
<1>5. /\ Cardinality(D) \in Nat /\ Cardinality(D) <= Cardinality(C) + 1
      /\ r.body.op # "charge" => Cardinality(D) <= Cardinality(C)
  BY <1>1, <1>2, <1>3, <1>4
<1> QED BY <1>5 DEF C, D

(* A charge more goes with a run more that is about to save.               *)
LEMMA SurplusStep ==
  ASSUME OnePackage, IInv, NamesInv, FreshInv, AppendInv, ForwardInv, PastInv, SurplusInv,
         NEW p \in Procs, Alone(p), Does(p)
  PROVE  SurplusInv'
<1> DEFINE Extra(n) == IF Saving(n) = {} THEN 0 ELSE 1
<1> SUFFICES ASSUME NEW n \in Nodes, Readable(n)'
             PROVE  Cardinality(Charges(log'[n])) <=
                      St(n)'.ses + (IF Saving(n)' = {} THEN 0 ELSE 1) + crashes'
  BY DEF SurplusInv
<1>1. Saving(n)' = IF Writes(p) /\ proc[p].cmd = "run" /\ proc[p].at = n
                   THEN Saving(n) \cup {p} ELSE Saving(n) \ {p}
  BY SavingStep
<1>2. /\ Readable(n) /\ St(n).ses \in Nat /\ St(n)'.ses \in Nat /\ St(n).ses <= St(n)'.ses
  BY NeverBack
<1>3. /\ log[n] \in Seq(Line) /\ crashes \in Nat
      /\ Cardinality(Charges(log[n])) \in Nat /\ IsFiniteSet(Charges(log[n]))
  <2>1. log[n] \in Seq(Line) /\ crashes \in Nat
    BY DEF IInv, DiskInv, CountInv
  <2> QED BY <2>1, ChargesFinite
<1>4. Cardinality(Charges(log[n])) <= St(n).ses + Extra(n) + crashes
  BY <1>2 DEF SurplusInv
<1>5. (crashes' = crashes /\ ~Death(p)) \/ (crashes' = crashes + 1 /\ Death(p))
  BY <1>3 DEF Does, Quits, StartsRun, StartsPlain, StartsMemory, StartsExport, StartsImport,
         Starts, Executes, Accounts, Writes, Saves, Exports, Skips, Installs, Adopts, Death
<1>6. ASSUME proc[p].pc = "append", proc[p].at = n
      PROVE  LET l == WithLine(log[n], open[n], proc[p].rec)
             IN  /\ Cardinality(Charges(l)) \in Nat
                 /\ Cardinality(Charges(l)) <= Cardinality(Charges(log[n])) + 1
                 /\ proc[p].cmd # "run" =>
                      Cardinality(Charges(l)) <= Cardinality(Charges(log[n]))
  <2>1. /\ proc[p].rec \in Record /\ log[n] \in Seq(Line)
        /\ open[n] \in BOOLEAN /\ (open[n] => log[n] # << >>)
    BY <1>6, Mover DEF Stage, IInv, DiskInv, OpenEnds
  <2>2. proc[p].cmd # "run" => proc[p].rec.body.op # "charge"
    BY <1>6, PackageAssumption DEF AppendInv, PackageAssumption
  <2> QED BY <2>1, <2>2, WriteCounts
<1>8. CASE Writes(p) /\ proc[p].at = n
  <2>1. /\ log'[n] = WithLine(log[n], open[n], proc[p].rec) /\ proc[p].pc = "append"
        /\ state' = state /\ crashes' = crashes
    BY <1>8 DEF Writes, IInv, DiskInv
  <2>2. St(n)' = St(n)
    BY <2>1 DEF St
  <2>3. CASE proc[p].cmd = "run"
    <3>1. Writer(p) /\ p \notin Saving(n)
      BY <2>1, <2>3 DEF Writer, Active, Final, Saving
    <3>2. Saving(n) = {} /\ Saving(n)' # {}
      BY <1>1, <1>8, <2>3, <3>1, OneSaves
    <3> QED BY <1>2, <1>3, <1>4, <1>6, <1>8, <2>1, <2>2, <3>2
  <2>4. CASE proc[p].cmd # "run"
    <3>1. Saving(n)' = Saving(n)
      BY <1>1, <1>8, <2>1, <2>4 DEF Saving
    <3> QED BY <1>2, <1>3, <1>4, <1>6, <1>8, <2>1, <2>2, <2>4, <3>1
  <2> QED BY <2>3, <2>4
<1>9. CASE DiesUnended(p) /\ Death(p) /\ proc[p].at = n
  <2>1. /\ log'[n] = WithLine(log[n], open[n], proc[p].rec) /\ proc[p].pc = "append"
        /\ state' = state
    BY <1>9 DEF DiesUnended, WithLine, IInv, DiskInv
  <2>2. St(n)' = St(n)
    BY <2>1 DEF St
  <2>3. Saving(n)' = Saving(n)
    <3>1. ~Writes(p)
      <4>1. crashes \in Nat /\ crashes' = crashes + 1
        BY <1>9 DEF IInv, CountInv, Death
      <4> QED BY <4>1 DEF Writes
    <3>2. p \notin Saving(n)
      BY <2>1 DEF Saving
    <3> QED BY <1>1, <3>1, <3>2
  <2> QED BY <1>2, <1>3, <1>4, <1>5, <1>6, <1>9, <2>1, <2>2, <2>3
<1>7. CASE ~(Writes(p) /\ proc[p].at = n) /\ ~(DiesUnended(p) /\ Death(p) /\ proc[p].at = n)
  <2>1. /\ Cardinality(Charges(log'[n])) \in Nat
        /\ Cardinality(Charges(log'[n])) <= Cardinality(Charges(log[n]))
    <3>1. CASE DiesInAppend(p) /\ proc[p].at = n
      <4>1. /\ log'[n] = WithTornLine(log[n], open[n])
            /\ open[n] \in BOOLEAN /\ (open[n] => log[n] # << >>)
        BY <3>1 DEF DiesInAppend, IInv, DiskInv, OpenEnds
      <4>2. Charges(log'[n]) \subseteq Charges(log[n])
        BY <1>3, <4>1, TearCharges
      <4> QED BY <1>3, <4>2, FewerCharges
    <3>2. CASE log'[n] = log[n]
      BY <1>3, <3>2
    <3> QED BY <1>7, <3>1, <3>2, LogCases
  <2>2. Saving(n)' = Saving(n) \ {p}
    BY <1>1, <1>7
  <2>3. CASE Death(p)
    BY <1>2, <1>3, <1>4, <1>5, <2>1, <2>2, <2>3
  <2>4. CASE Saves(p) /\ proc[p].cmd = "run" /\ proc[p].at = n
    <3>1. Forward(p)
      BY <2>4 DEF ForwardInv, Saves
    <3>2. St(n)'.ses = St(n).ses + 1
      <4>1. proc[p].st.ses = St(n).ses + 1
        BY <2>4, <3>1 DEF Forward, Saves
      <4>2. proc[p].st \in State
        BY Mover
      <4> QED BY <2>4, <4>1, <4>2, StateHolds DEF Saves
    <3> QED BY <1>2, <1>3, <1>4, <1>5, <2>1, <2>2, <2>4, <3>2
  <2>5. CASE ~Death(p) /\ ~(Saves(p) /\ proc[p].cmd = "run" /\ proc[p].at = n)
    <3>1. p \notin Saving(n)
      <4> SUFFICES ASSUME p \in Saving(n) PROVE FALSE
        OBVIOUS
      <4>1. proc[p].pc = "save" /\ proc[p].cmd = "run" /\ proc[p].at = n
        BY DEF Saving
      <4> QED BY <2>5, <4>1
              DEF Does, Quits, StartsRun, StartsPlain, StartsMemory, StartsExport, StartsImport,
                  Starts, MayStart, Idle, Executes, Accounts, Writes, Exports, Skips, Installs, Adopts
    <3>2. Saving(n)' = Saving(n)
      BY <2>2, <3>1
    <3> QED BY <1>2, <1>3, <1>4, <1>5, <2>1, <2>5, <3>2
  <2> QED BY <2>3, <2>4, <2>5
<1> QED BY <1>7, <1>8, <1>9

LEMMA SurplusAlways ==
  ASSUME OnePackage, WritersAlone
  PROVE  Spec => []SurplusInv
<1>1. Init => SurplusInv
  <2> SUFFICES ASSUME Init PROVE SurplusInv
    OBVIOUS
  <2>1. \A n \in Nodes : log[n] = << >> /\ St(n).ses = 0 /\ Saving(n) = {}
    BY DEF Init, St, Loaded, EmptyState, Saving, Idle
  <2>2. Charges(<< >>) = {}
    <3>1. Len(<< >>) = 0
      BY EmptySeq
    <3> QED BY <3>1 DEF Charges, RecordsIn
  <2>3. Cardinality({}) = 0
    BY FS_EmptySet
  <2>4. \A n \in Nodes : Cardinality(Charges(log[n])) = 0
    BY <2>1, <2>2, <2>3
  <2> QED BY <2>1, <2>4 DEF Init, SurplusInv
<1>2. IInv /\ NamesInv /\ FreshInv /\ AppendInv /\ ForwardInv /\ PastInv /\ SurplusInv
        /\ [Next]_vars => SurplusInv'
  <2>1. CASE UNCHANGED vars
    BY <2>1 DEF vars, SurplusInv, Readable, St, Saving
  <2>2. IInv /\ NamesInv /\ FreshInv /\ AppendInv /\ ForwardInv /\ PastInv /\ SurplusInv
          /\ Next => SurplusInv'
    BY NextDoes, SurplusStep
  <2> QED BY <2>1, <2>2
<1> QED BY <1>1, <1>2, Invariance, NamesAlways, FreshAlways, AppendAlways, ForwardAlways,
           PastAlways, PTL DEF Spec

(* A customer is charged twice for a session only because an invocation    *)
(* died, and at most once for each that did.                               *)
THEOREM SurplusBounded ==
  ASSUME OnePackage, WritersAlone
  PROVE  Spec => []SurplusIsCrashes
<1>1. IInv /\ ForwardInv /\ SurplusInv => SurplusIsCrashes
  <2> SUFFICES ASSUME IInv, ForwardInv, SurplusInv, NEW n \in Nodes, Readable(n)
               PROVE  Cardinality(ChargesAt(n)) <= St(n).ses + Cardinality(Saving(n)) + crashes
    BY DEF SurplusIsCrashes
  <2>1. ChargesAt(n) = Charges(log[n])
    BY DEF ChargesAt, Charges
  <2>2. Cardinality(Saving(n)) = IF Saving(n) = {} THEN 0 ELSE 1
    <3>1. CASE Saving(n) = {}
      BY <3>1, FS_EmptySet
    <3>2. CASE Saving(n) # {}
      <4>1. PICK p \in Saving(n) : TRUE
        BY <3>2
      <4>2. p \in Procs /\ Writer(p) /\ proc[p].at = n
        BY <4>1 DEF Saving, Writer, Active, Final
      <4>3. Saving(n) = {p}
        BY <4>1, <4>2, OneSaves
      <4> QED BY <3>2, <4>3, FS_Singleton
    <3> QED BY <3>1, <3>2
  <2> QED BY <2>1, <2>2 DEF SurplusInv
<1> QED BY <1>1, Invariance, ForwardAlways, SurplusAlways, PTL

-----------------------------------------------------------------------------
(* The charge of the next session raises the top by one.                   *)
LEMMA ChargeRaisesTop ==
  ASSUME NEW l \in Seq(Line), NEW r \in Record, r.body.op = "charge", InOrder(l), NEW k \in Nat,
         Top(l, k), r.body.ses = k + 1
  PROVE  InOrder(Append(l, r)) /\ Top(Append(l, r), k + 1)
<1> DEFINE m == Append(l, r)
<1>1. \A i \in 1..Len(l) : LastCharge(l, i) => l[i].body.ses \in {k, k + 1}
  BY DEF Top
<1>2. InOrder(m) /\ \A i \in 1..Len(m) : LastCharge(m, i) => m[i].body.ses = k + 1
  BY <1>1, ChargeKeepsOrder
<1>3. /\ \A i \in Charges(l) : m[i] = l[i]
      /\ m[Len(l) + 1] = r /\ Charges(m) = Charges(l) \cup {Len(l) + 1}
  BY ChargesAppend
<1> HIDE DEF m
<1>4. ASSUME NEW i \in Charges(m) PROVE m[i].body.ses \in 0..(k + 1)
  <2>1. CASE i \in Charges(l)
    BY <1>3, <2>1 DEF Top
  <2>2. CASE i = Len(l) + 1
    BY <1>3, <2>2
  <2> QED BY <1>3, <1>4, <2>1, <2>2
<1> QED BY <1>2, <1>4 DEF Top, m

LEMMA PlainKeepsTop ==
  ASSUME NEW l \in Seq(Line), NEW r \in Record, r.body.op # "charge"
  PROVE  \A k : Top(l, k) => Top(Append(l, r), k)
<1> DEFINE m == Append(l, r)
<1>1. /\ \A i \in Charges(l) : i \in 1..Len(l) /\ m[i] = l[i]
      /\ Charges(m) = Charges(l)
  BY ChargesAppend
<1> HIDE DEF m
<1>2. ASSUME NEW k, Top(l, k) PROVE Top(m, k)
  BY <1>1, <1>2 DEF Top, LastCharge
<1> QED BY <1>2 DEF m

(* A tip that is found in a ledger is one of its charges.                  *)
LEMMA TipIsCharge ==
  ASSUME NEW l \in Seq(Line), ChainOk(l), NEW tip, TipInChain(l, tip),
         ChargeOf(tip).op = "charge"
  PROVE  \E i \in Charges(l) : l[i].body = ChargeOf(tip)
<1>1. PICK i \in 1..Len(l) : IsRecord(l[i]) /\ l[i].h = tip
  BY DEF TipInChain
<1> DEFINE r == l[i]
           d == r.prev
           e == [seq |-> r.seq, body |-> r.body]
           a == Append(d, e)
<1>2. r \in Record
  <2>1. r \in Line
    BY ElementOfSeq
  <2> QED BY <1>1, <2>1 DEF Line, IsRecord
<1>3. tip = a /\ d \in Seq(Entry) /\ e \in Entry /\ e.body = r.body
  BY <1>1, <1>2 DEF ChainOk, Links, Hash, Record, Digest, Entry
<1> HIDE DEF d, e
<1>4. Len(a) = Len(d) + 1 /\ a[Len(d) + 1] = e
  BY <1>3, AppendProperties
<1>5. ChargeOf(tip) = r.body
  <2> HIDE DEF a, r
  <2> QED BY <1>3, <1>4 DEF ChargeOf
<1>6. i \in Charges(l)
  BY <1>1, <1>5 DEF Charges, RecordsIn
<1> QED BY <1>5, <1>6

(* What a step without a death does to a ledger.                           *)
LEMMA LivelyLogs ==
  ASSUME IInv, NEW p \in Procs, Does(p), ~Death(p), NEW n \in Nodes
  PROVE  \/ log'[n] = log[n] /\ ~(Writes(p) /\ proc[p].at = n) /\ ~(Adopts(p) /\ proc[p].at = n)
         \/ Writes(p) /\ proc[p].at = n
         \/ Adopts(p) /\ proc[p].at = n
<1>1. CASE proc[p].pc \in Final \/ proc[p].at # n
  <2>1. log'[n] = log[n]
    BY <1>1, LedgersStand
  <2> QED BY <1>1, <2>1 DEF Writes, Adopts, Final
<1>2. CASE UNCHANGED log
  BY <1>2
<1> QED BY <1>1, <1>2
        DEF Does, Quits, StartsRun, StartsPlain, StartsMemory, StartsExport, StartsImport,
            Starts, Executes, Accounts, Saves, Exports, Skips, Installs, disk

(* Beside a writer there is nobody who is about to save or to adopt.       *)
LEMMA WriterLonely ==
  ASSUME FreshInv, ForwardInv, NEW p \in Procs, Writer(p), NEW n \in Nodes, proc[p].at = n,
         NEW q \in Procs, q # p, proc[q].at = n
  PROVE  proc[q].pc \notin {"save", "chain", "collect"}
<1> SUFFICES ASSUME proc[q].pc \in {"save", "chain", "collect"} PROVE FALSE
  OBVIOUS
<1>1. Active(q) /\ Active(p)
  BY DEF Active, Final, Writer
<1>2. proc[p].cmd \in {"plain", "export"}
  BY <1>1 DEF ForwardInv, WriterAlone
<1> QED BY <1>2 DEF Writer

(* Who adopts a ledger, before and after the step.                         *)
LEMMA ImportingStep ==
  ASSUME SameRelease, IInv, FreshInv, NEW p \in Procs, Alone(p), Does(p), ~Death(p), NEW n \in Nodes
  PROVE  /\ Importing(n) /\ ~Importing(n)' => Adopts(p) /\ proc[p].at = n
         /\ Installs(p) /\ proc[p].at = n => Importing(n)'
<1>1. ASSUME NEW q \in Procs, proc[q].pc = "chain", proc[q].at = n, ~(Adopts(p) /\ proc[p].at = n)
      PROVE  proc'[q].pc = "chain" /\ proc'[q].at = n
  <2>1. CASE q # p
    BY <1>1, <2>1 DEF Alone
  <2>2. CASE q = p
    <3>1. ~Unknown(p)
      BY <1>1, <2>2, NoneUnknown
    <3>2. proc[p] # Idle /\ ~Adopts(p)
      BY <1>1, <2>2 DEF Idle
    <3> QED BY <1>1, <2>2, <3>1, <3>2
            DEF Does, Quits, StartsRun, StartsPlain, StartsMemory, StartsExport, StartsImport,
                Starts, MayStart, Executes, Accounts, Writes, Saves, Exports, Skips, Installs
  <2> QED BY <2>1, <2>2
<1>2. Importing(n) /\ ~Importing(n)' => Adopts(p) /\ proc[p].at = n
  BY <1>1 DEF Importing
<1>3. Installs(p) /\ proc[p].at = n => Importing(n)'
  BY DEF Installs, GoesOn, Becomes, Importing
<1> QED BY <1>2, <1>3

(* The ledger of a package and the session it has reached.                 *)
LEMMA ReachedStep ==
  ASSUME SameRelease, IInv, NamesInv, FreshInv, AppendInv, ForwardInv, CarriedInv, MigratedInv,
         NEW p \in Procs, Alone(p), Does(p), ~Death(p), crashes = 0, NEW n \in Nodes
  PROVE  /\ Readable(n)' /\ InOrder(log'[n])
         /\ ~Importing(n)' => Top(log'[n], Reached(n)')
<1>1. /\ Readable(n) /\ InOrder(log[n]) /\ AllRecords(log[n]) /\ log[n] \in Seq(Line)
      /\ ~Importing(n) => Top(log[n], Reached(n))
      /\ St(n) \in State /\ St(n).ses \in Nat
  <2>1. Readable(n) /\ InOrder(log[n]) /\ (~Importing(n) => Top(log[n], Reached(n)))
    BY DEF MigratedInv
  <2>2. AllRecords(log[n]) /\ log[n] \in Seq(Line)
    BY DEF CarriedInv, IInv, DiskInv
  <2>3. St(n) \in State
    BY <2>1, LoadedType DEF IInv, DiskInv, Readable, St
  <2>4. St(n).ses \in Nat
    BY <2>3, PackageAssumption DEF State, PackageAssumption
  <2> QED BY <2>1, <2>2, <2>3, <2>4
<1>2. Saving(n)' = IF Writes(p) /\ proc[p].cmd = "run" /\ proc[p].at = n
                   THEN Saving(n) \cup {p} ELSE Saving(n) \ {p}
  BY SavingStep
<1>3. proc[p] \in Invocation /\ proc[p].st \in State
  BY Mover
<1>4. CASE Writes(p) /\ proc[p].at = n
  <2> DEFINE l == log[n]
             r == proc[p].rec
  <2>1. r \in Record /\ log'[n] = WithLine(l, open[n], r) /\ state' = state
    BY <1>4, Mover DEF Stage, Writes, IInv, DiskInv
  <2>2. Readable(n)' /\ St(n)' = St(n)
    BY <1>1, <2>1 DEF Readable, St
  <2>3. log'[n] = Append(l, r)
    BY <1>1, <2>1, EndsWell DEF WithLine
  <2>4. CASE proc[p].cmd = "run"
    <3>1. Writer(p) /\ Charging(p)
      BY <1>4, <2>4 DEF Writes, Writer, Charging, Active, Final
    <3>2. r.body.op = "charge" /\ r.body.ses = St(n).ses + 1
      BY <1>4, <3>1 DEF ForwardInv, Forward, NamesInv
    <3>3. Saving(n) = {}
      <4>1. p \notin Saving(n)
        BY <1>4 DEF Saving, Writes
      <4> QED BY <1>4, <3>1, <4>1, OneSaves
    <3>4. ~Importing(n)
      <4>1. proc[p].pc # "chain"
        BY <1>4 DEF Writes
      <4> QED BY <1>4, <3>1, <4>1, WriterLonely DEF Importing
    <3>5. Top(l, St(n).ses)
      BY <1>1, <3>3, <3>4 DEF Reached
    <3>6. Reached(n)' = St(n).ses + 1
      BY <1>2, <1>4, <2>2, <2>4 DEF Reached
    <3> HIDE DEF l, r
    <3>7. InOrder(Append(l, r)) /\ Top(Append(l, r), St(n).ses + 1)
      BY <1>1, <2>1, <3>2, <3>5, ChargeRaisesTop DEF l
    <3> QED BY <2>2, <2>3, <3>6, <3>7
  <2>5. CASE proc[p].cmd # "run"
    <3>1. r.body.op # "charge"
      BY <1>4, <2>5, PackageAssumption DEF AppendInv, Writes, PackageAssumption
    <3>2. Saving(n)' = Saving(n)
      BY <1>2, <1>4, <2>5 DEF Saving, Writes
    <3>3. Reached(n)' = Reached(n)
      BY <2>2, <3>2 DEF Reached
    <3>4. ~Importing(n)' => ~Importing(n)
      BY <1>4, ImportingStep DEF Writes, Adopts
    <3> HIDE DEF l, r
    <3>5. InOrder(Append(l, r)) /\ \A k : Top(l, k) => Top(Append(l, r), k)
      BY <1>1, <2>1, <3>1, PlainKeepsOrder, PlainKeepsTop DEF l
    <3> QED BY <1>1, <2>2, <2>3, <3>3, <3>4, <3>5 DEF l
  <2> QED BY <2>4, <2>5
<1>5. CASE Adopts(p) /\ proc[p].at = n
  <2>1. /\ proc[p].pc = "chain" /\ proc[p].cmd = "import" /\ Writer(p)
        /\ proc[p].snap \in snaps /\ proc[p].st = proc[p].snap.st
    BY <1>5 DEF Adopts, FreshInv, Active, Final, Writer
  <2>2. log'[n] = proc[p].snap.recs /\ state' = state /\ state[n] = proc[p].st
    BY <1>5, <2>1 DEF Adopts, IInv, DiskInv, CarriedInv
  <2>3. InOrder(proc[p].snap.recs) /\ Top(proc[p].snap.recs, proc[p].st.ses)
    BY <2>1 DEF MigratedInv
  <2>4. Readable(n)' /\ St(n)' = proc[p].st
    BY <1>1, <1>3, <2>2, PackageAssumption DEF Readable, St, Loaded, PackageAssumption
  <2>5. Saving(n) \subseteq {p} /\ p \notin Saving(n) /\ ~Writes(p)
    BY <1>5, <2>1, OneSaves DEF Saving, Writes
  <2>6. Reached(n)' = proc[p].st.ses
    BY <1>2, <2>4, <2>5 DEF Reached
  <2> QED BY <2>2, <2>3, <2>4, <2>6
<1>6. CASE /\ log'[n] = log[n] /\ ~(Writes(p) /\ proc[p].at = n)
           /\ ~(Adopts(p) /\ proc[p].at = n)
  <2>1. ~Importing(n)' => ~Importing(n)
    BY <1>6, ImportingStep
  <2>2. Saving(n)' = Saving(n) \ {p}
    BY <1>2, <1>6
  <2>3. CASE p \in Saving(n)
    <3>1. proc[p].pc = "save" /\ proc[p].cmd = "run" /\ proc[p].at = n
      BY <2>3 DEF Saving
    <3>2. Writer(p) /\ Forward(p)
      BY <3>1 DEF ForwardInv
    <3>3. Saves(p)
      <4>1. proc[p] # Idle
        BY <3>1 DEF Idle
      <4> QED BY <3>1, <4>1 DEF Does, Quits, StartsRun, StartsPlain, StartsMemory, StartsExport,
              StartsImport, Starts, MayStart, Executes, Accounts, Writes, Exports, Skips,
              Installs, Adopts
    <3>4. Readable(n)' /\ St(n)' = proc[p].st
      BY <1>3, <3>1, <3>3, StateHolds DEF Saves
    <3>5. St(n)'.ses = St(n).ses + 1
      BY <3>1, <3>2, <3>4 DEF Forward
    <3>6. Saving(n)' = {} /\ Saving(n) # {}
      BY <2>2, <2>3, <3>1, <3>2, OneSaves
    <3>7. Reached(n)' = Reached(n)
      BY <3>5, <3>6 DEF Reached
    <3> QED BY <1>1, <1>6, <2>1, <3>4, <3>7
  <2>4. CASE p \notin Saving(n)
    <3>1. Saving(n)' = Saving(n)
      BY <2>2, <2>4
    <3>2. CASE state'[n] = state[n]
      <4>1. Readable(n)' /\ St(n)' = St(n)
        BY <1>1, <3>2 DEF Readable, St
      <4>2. Reached(n)' = Reached(n)
        BY <3>1, <4>1 DEF Reached
      <4> QED BY <1>1, <1>6, <2>1, <4>1, <4>2
    <3>3. CASE Installs(p) /\ proc[p].at = n
      <4>1. Importing(n)'
        BY <3>3, ImportingStep
      <4>2. Readable(n)'
        BY <1>3, <3>3, StateHolds DEF Installs
      <4> QED BY <1>1, <1>6, <4>1, <4>2
    <3>4. CASE Saves(p) /\ proc[p].at = n
      <4>1. /\ Writer(p) /\ Forward(p) /\ proc[p].pc = "save"
            /\ proc[p].cmd \in {"memory", "import"}
        BY <2>4, <3>4 DEF ForwardInv, Saves, Saving, Writer
      <4>2. Readable(n)' /\ St(n)' = proc[p].st
        BY <1>3, <3>4, StateHolds DEF Saves
      <4>3. Saving(n) = {} /\ ~Importing(n)
        <5>1. Saving(n) \subseteq {p}
          BY <3>4, <4>1, OneSaves
        <5> QED BY <2>4, <3>4, <4>1, <5>1, WriterLonely DEF Importing
      <4>4. Top(log[n], St(n).ses)
        BY <1>1, <4>3 DEF Reached
      <4>5. St(n)'.ses = St(n).ses
        <5>1. CASE proc[p].cmd = "memory"
          BY <3>4, <4>1, <4>2, <5>1 DEF Forward
        <5>2. CASE proc[p].cmd = "import"
          <6>1. /\ proc[p].st.ses >= St(n).ses /\ proc[p].st.ses \in Nat
                /\ Named(proc[p].st) /\ Carried(log[n], proc[p].st)
            <7>1. proc[p].st.ses >= St(n).ses
              BY <3>4, <4>1, <5>2 DEF Forward
            <7>2. proc[p].st.ses \in Nat
              BY <1>3, PackageAssumption DEF State, PackageAssumption
            <7>3. Named(proc[p].st)
              BY <4>1 DEF NamesInv, Carrying
            <7>4. Carried(log[n], proc[p].st)
              BY <3>4, <4>1 DEF CarriedInv
            <7> QED BY <7>1, <7>2, <7>3, <7>4
          <6>2. CASE proc[p].st.tip = None
            BY <1>1, <4>2, <6>1, <6>2 DEF Named
          <6>3. CASE proc[p].st.tip # None
            <7>1. ChainOk(log[n])
              BY <1>1 DEF IInv, DiskInv, ChainIntact
            <7>2. PICK i \in Charges(log[n]) : log[n][i].body = ChargeOf(proc[p].st.tip)
              BY <1>1, <6>1, <6>3, <7>1, TipIsCharge DEF Carried, Named
            <7>3. proc[p].st.ses \in 0..St(n).ses
              BY <4>4, <6>1, <6>3, <7>2 DEF Top, Named
            <7> QED BY <1>1, <4>2, <6>1, <7>3
          <6> QED BY <6>2, <6>3
        <5> QED BY <4>1, <5>1, <5>2
      <4>6. Reached(n)' = Reached(n)
        BY <3>1, <4>5 DEF Reached
      <4> QED BY <1>1, <1>6, <2>1, <4>2, <4>6
    <3>5. state'[n] = state[n] \/ ((Installs(p) \/ Saves(p)) /\ proc[p].at = n)
      <4>1. CASE proc[p].pc \in Final \/ proc[p].at # n
        BY <4>1, StatesStand
      <4> QED BY <4>1 DEF Does, Quits, StartsRun, StartsPlain, StartsMemory, StartsExport,
              StartsImport, Starts, Executes, Accounts, Writes, Exports, Skips, Adopts, disk
    <3> QED BY <3>2, <3>3, <3>4, <3>5
  <2> QED BY <2>3, <2>4
<1> QED BY <1>4, <1>5, <1>6, LivelyLogs

(* An export under way copies a state and a ledger that belong together.   *)
LEMMA CollectStep ==
  ASSUME WritersAlone, SameRelease, IInv, FreshInv, AppendInv, ForwardInv, CarriedInv, MigratedInv,
         NEW p \in Procs, Alone(p), Does(p), ~Death(p), crashes = 0,
         NEW q \in Procs, proc'[q].pc = "collect"
  PROVE  Top(log'[proc'[q].at], proc'[q].st.ses)
<1>1. CASE q = p
  <2>1. PICK n \in Nodes : StartsExport(p, n)
    BY <1>1 DEF Ends, Final, Does, Quits, StartsRun, StartsPlain, StartsMemory, StartsImport,
       Starts, Becomes, Executes, Accounts, Writes, Saves, Exports, Skips, Installs, Adopts,
       GoesOn
  <2>2. Readable(n) /\ proc'[p].st = St(n) /\ proc'[p].at = n /\ log' = log
    BY <2>1 DEF StartsExport, MigratedInv, Starts, Becomes, disk
  <2>3. \A r \in Procs : Active(r) /\ proc[r].at = n => proc[r].cmd \in {"plain", "export"}
    <3> SUFFICES ASSUME NEW r \in Procs, Active(r), proc[r].at = n
                 PROVE  proc[r].cmd \in {"plain", "export"}
      OBVIOUS
    <3>1. MayStart(p, "export", n)
      BY <2>1 DEF StartsExport, Starts
    <3>2. r # p
      BY <3>1 DEF MayStart, Active, Idle, Final
    <3> QED BY <3>1, <3>2, ForwardStarts
  <2>4. Saving(n) = {} /\ ~Importing(n)
    <3>1. Saving(n) = {}
      BY <2>3 DEF Saving, Active, Final
    <3>2. ~Importing(n)
      BY <2>3 DEF Importing, FreshInv, Active, Final
    <3> QED BY <3>1, <3>2
  <2>5. Top(log[n], St(n).ses)
    BY <2>4 DEF MigratedInv, Reached
  <2> QED BY <1>1, <2>2, <2>5
<1>2. CASE q # p
  <2>1. proc'[q] = proc[q]
    BY <1>2 DEF Alone
  <2>2. PICK n \in Nodes : n = proc[q].at
    BY <2>1, Mover DEF Final
  <2>3. Top(log[n], proc[q].st.ses)
    BY <2>1, <2>2 DEF MigratedInv
  <2>4. CASE Writes(p) /\ proc[p].at = n
    <3> DEFINE l == log[n]
               r == proc[p].rec
    <3>1. proc[p].cmd # "run"
      <4>1. ASSUME proc[p].cmd = "run" PROVE FALSE
        <5>1. Writer(p)
          BY <2>4, <4>1 DEF Writes, Writer, Active, Final
        <5> QED BY <1>2, <2>1, <2>2, <2>4, <5>1, WriterLonely
      <4> QED BY <4>1
    <3>2. r.body.op # "charge"
      BY <2>4, <3>1, PackageAssumption DEF AppendInv, Writes, PackageAssumption
    <3>3. l \in Seq(Line) /\ r \in Record /\ log'[n] = WithLine(l, open[n], r)
      BY <2>4, Mover DEF Stage, Writes, IInv, DiskInv
    <3>4. log'[n] = Append(l, r)
      <4>1. AllRecords(l)
        BY DEF CarriedInv
      <4> QED BY <3>3, <4>1, EndsWell DEF WithLine
    <3> HIDE DEF l, r
    <3>5. \A k : Top(l, k) => Top(Append(l, r), k)
      BY <3>2, <3>3, PlainKeepsTop
    <3> QED BY <2>1, <2>2, <2>3, <3>4, <3>5 DEF l
  <2>5. CASE Adopts(p) /\ proc[p].at = n
    <3>1. Writer(p)
      BY <2>5 DEF Adopts, FreshInv, Active, Final, Writer
    <3> QED BY <1>2, <2>1, <2>2, <2>5, <3>1, WriterLonely
  <2>6. CASE log'[n] = log[n]
    BY <2>1, <2>2, <2>3, <2>6
  <2> QED BY <2>4, <2>5, <2>6, LivelyLogs
<1> QED BY <1>1, <1>2

LEMMA MigratedStep ==
  ASSUME WritersAlone, SameRelease, IInv, NamesInv, FreshInv, AppendInv, ForwardInv, CarriedInv,
         MigratedInv, NEW p \in Procs, Alone(p), Does(p)
  PROVE  MigratedInv'
<1> SUFFICES ASSUME crashes' = 0 PROVE MigratedInv'
  BY DEF MigratedInv
<1>1. crashes = 0 /\ ~Death(p)
  <2>1. crashes \in Nat
    BY DEF IInv, CountInv
  <2>2. crashes' = crashes + 1 \/ (crashes' = crashes /\ ~Death(p))
    BY <2>1 DEF Does, Quits, StartsRun, StartsPlain, StartsMemory, StartsExport, StartsImport,
           Starts, Executes, Accounts, Writes, Saves, Exports, Skips, Installs, Adopts, Death
  <2> QED BY <2>1, <2>2
<1>2. ASSUME NEW n \in Nodes
      PROVE  /\ Readable(n)' /\ InOrder(log'[n])
             /\ ~Importing(n)' => Top(log'[n], Reached(n)')
  BY <1>1, ReachedStep
<1>3. ASSUME NEW s \in snaps' PROVE InOrder(s.recs) /\ Top(s.recs, s.st.ses)
  <2>1. CASE s \in snaps
    BY <1>1, <2>1 DEF MigratedInv
  <2>2. CASE s \notin snaps
    <3>1. Exports(p)
      BY <1>1, <2>2 DEF Does, Quits, StartsRun, StartsPlain, StartsMemory, StartsExport,
             StartsImport, Starts, Executes, Accounts, Writes, Saves, Skips, Installs, Adopts, disk
    <3>2. s.recs = log[proc[p].at] /\ s.st = proc[p].st /\ proc[p].at \in Nodes
      BY <2>2, <3>1, Mover DEF Exports, Final
    <3> QED BY <1>1, <3>1, <3>2 DEF MigratedInv, Exports
  <2> QED BY <2>1, <2>2
<1>4. ASSUME NEW q \in Procs, proc'[q].pc = "collect"
      PROVE  Top(log'[proc'[q].at], proc'[q].st.ses)
  BY <1>1, <1>4, CollectStep
<1> QED BY <1>2, <1>3, <1>4 DEF MigratedInv

LEMMA MigratedAlways ==
  ASSUME SameRelease, WritersAlone
  PROVE  Spec => []MigratedInv
<1>1. Init => MigratedInv
  <2> SUFFICES ASSUME Init PROVE MigratedInv
    OBVIOUS
  <2>1. \A n \in Nodes : log[n] = << >> /\ St(n).ses = 0 /\ Readable(n)
    BY PackageAssumption DEF Init, St, Loaded, EmptyState, Readable, Unreadable, PackageAssumption
  <2>2. \A p \in Procs : proc[p].pc = "idle"
    BY DEF Init, Idle
  <2>3. \A n \in Nodes : Reached(n) = 0
    BY <2>1, <2>2 DEF Reached, Saving
  <2>4. InOrder(<< >>) /\ Top(<< >>, 0)
    <3>1. Len(<< >>) = 0
      BY EmptySeq
    <3>2. Charges(<< >>) = {}
      BY <3>1 DEF Charges, RecordsIn
    <3> QED BY <3>2 DEF InOrder, Top, LastCharge
  <2>5. snaps = {}
    BY DEF Init
  <2> QED BY <2>1, <2>2, <2>3, <2>4, <2>5 DEF MigratedInv
<1>2. IInv /\ NamesInv /\ FreshInv /\ AppendInv /\ ForwardInv /\ CarriedInv /\ MigratedInv
        /\ [Next]_vars => MigratedInv'
  <2>1. CASE UNCHANGED vars
    BY <2>1 DEF vars, MigratedInv, Readable, St, Importing, Reached, Saving
  <2>2. IInv /\ NamesInv /\ FreshInv /\ AppendInv /\ ForwardInv /\ CarriedInv /\ MigratedInv
          /\ Next => MigratedInv'
    BY NextDoes, MigratedStep
  <2> QED BY <2>1, <2>2
<1> QED BY <1>1, <1>2, Invariance, NamesAlways, FreshAlways, AppendAlways, ForwardAlways,
           CarriedAlways, PTL DEF Spec

(* On any number of packages, snapshots imported late, again and crosswise *)
(* leave the charges of every ledger in the order of sessions, as long as  *)
(* no invocation dies.                                                     *)
THEOREM MigratedFollow ==
  ASSUME SameRelease, WritersAlone
  PROVE  Spec => []MigratedChargesInOrder
<1>1. MigratedInv => MigratedChargesInOrder
  <2>1. \A n \in Nodes : ChargesAt(n) = Charges(log[n])
    BY DEF ChargesAt, Charges
  <2> QED BY <2>1 DEF MigratedInv, InOrder, ChargesInOrder, MigratedChargesInOrder
<1> QED BY <1>1, MigratedAlways, PTL
=============================================================================
