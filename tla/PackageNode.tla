---------------------------- MODULE PackageNode ----------------------------
(***************************************************************************)
(* Agent packages on a set of nodes and the runner commands that change    *)
(* them (tamga_runner.py): run, grant / anchor / compute-anchor, memory    *)
(* --import-json, export and import.                                       *)
(*                                                                         *)
(* A package directory holds three durable things: state.json, the hash    *)
(* chain ledger.jsonl and the evidence files session-N.stdout.  A command  *)
(* is a process that reads some of them, works on its own copy and writes  *)
(* them back one file at a time; it can die between two of its steps, and  *)
(* in the middle of a write.  Snapshots (export) travel between nodes and  *)
(* can be imported late, repeatedly, or never.                             *)
(*                                                                         *)
(* Abstracted: the manifest is one that tamga_validator accepts; crypto    *)
(* opens what it sealed; graph_merkle is always computed from the memory   *)
(* it is written with, and so is left out with its check; metering, fees   *)
(* and the fields of a record that no property reads.                      *)
(***************************************************************************)
EXTENDS Naturals, FiniteSets, Sequences

CONSTANTS
  Nodes,       \* package directories, each on a machine of its own
  Procs,       \* command invocations that can be alive at the same time
  Agents,      \* agent identities (an agent_id and the seed that yields it)
  Notes,       \* texts that memory nodes are made of
  Outputs,     \* contents of a session's stdout
  PlainOps,    \* ops of records appended by grant, anchor, compute-anchor
  KnownOps,    \* KnownOps[n]: EMITTED_OPS of the code installed at n
  NodeKey,     \* NodeKey[n]: the --node-key used at n, or None
  Trusted,     \* Trusted[n]: signers an import at n accepts (None: unsigned)
  Concurrent,  \* commands that threads of one process may run side by side
  MaxSession, MaxLog, MaxNodes, MaxSnaps, MaxCrashes,
  None, NoFile, EmptyFile, PartialFile, Torn, Junk

Ops      == PlainOps \cup {"charge"}
Commands == {"run", "plain", "memory", "export", "import"}
Sessions == 1..MaxSession
Signers  == {NodeKey[n] : n \in Nodes}

(* A ledger record's own content. Only a charge has a session and output.  *)
Body == [op : Ops, ses : 0..MaxSession, out : Outputs \cup {None},
         signer : Signers \cup {None}]

INSTANCE LedgerChain

-----------------------------------------------------------------------------
(***************************************************************************)
(* state.json: session counter, memory, ledger_tip and the owner agent_id. *)
(* An absent file loads as the empty state (_load_state); a file that does *)
(* not parse is Unreadable.                                                *)
(***************************************************************************)
State == [ses : 0..MaxSession, mem : SUBSET Notes,
          tip : Digest \cup {None}, owner : Agents \cup {None}]

EmptyState == [ses |-> 0, mem |-> {}, tip |-> None, owner |-> None]
Unreadable == {EmptyFile, PartialFile}
StateFile  == State \cup {NoFile} \cup Unreadable

Loaded(file) == IF file = NoFile THEN EmptyState ELSE file

\* Memory nodes: one per note and one session marker per session.
NodeCount(st) == Cardinality(st.mem) + st.ses

Snapshot == [agent : Agents, st : State, recs : Seq(Record)]

ASSUME PackageAssumption ==
  /\ MaxSession \in Nat \ {0} /\ MaxLog \in Nat
  /\ "charge" \notin PlainOps /\ KnownOps \in [Nodes -> SUBSET Ops]
  /\ None \notin Nodes \cup Procs \cup Agents \cup Outputs \cup Digest \cup Record
                   \cup Snapshot \cup Commands
  /\ Torn \notin Record /\ Junk \notin Record /\ Torn # Junk
  /\ NoFile \notin State \cup Unreadable
  /\ State \cap Unreadable = {}

\* No deployment imports into a package while another command runs on it.
ASSUME ImportRunsAlone == "import" \notin Concurrent

VARIABLES
  state,    \* state[n]: state.json of the package at n
  haslog,   \* haslog[n]: ledger.jsonl exists at n
  log,      \* log[n]: its lines
  open,     \* open[n]: its last line is a whole record without the newline
  art,      \* art[n][s]: content of session-s.stdout, or None
  snaps,    \* snapshot files that were exported
  lock,     \* lock[n]: the process inside _ledger_append at n, or None
  proc,     \* proc[p]: where invocation p stands and what it holds in memory
  crashes   \* how many invocations died so far

disk == <<state, haslog, log, open, art, snaps>>
vars == <<state, haslog, log, open, art, snaps, lock, proc, crashes>>

(***************************************************************************)
(* An invocation: its command and package, the seed it was given, its copy *)
(* of the state, the record it is about to write and the snapshot it       *)
(* imports.  "ok", "red" and "raised" are the ways it ends: a success      *)
(* line, a reason_code line, an uncaught exception.                        *)
(***************************************************************************)
Final == {"idle", "ok", "red", "raised"}
Points == Final \cup {"exec", "account", "append", "save", "collect",
                      "install", "chain"}

Idle == [pc |-> "idle", cmd |-> None, at |-> None, agent |-> None,
         st |-> EmptyState, rec |-> None, snap |-> None]

Invocation ==
  [pc : Points, cmd : Commands \cup {None}, at : Nodes \cup {None},
   agent : Agents \cup {None}, st : State,
   rec : Record \cup {None}, snap : Snapshot \cup {None}]

Active(p) == proc[p].pc \notin Final

(***************************************************************************)
(* A deployment runs one command at a time on a package, except for those  *)
(* in Concurrent, which threads of one process may run side by side.  (Two *)
(* processes share no _LEDGER_LOCKS: nothing here holds for them.)         *)
(***************************************************************************)
MayStart(p, cmd, n) ==
  /\ proc[p] = Idle
  /\ \A q \in Procs \ {p} :
       Active(q) /\ proc[q].at = n => {cmd, proc[q].cmd} \subseteq Concurrent

\* A new invocation of cmd at n, about to do what pc names.
Begin(cmd, n, pc) == [Idle EXCEPT !.pc = pc, !.cmd = cmd, !.at = n]

Goto(p, pc) == proc' = [proc EXCEPT ![p].pc = pc]
End(p, result) == proc' = [proc EXCEPT ![p] = Begin(proc[p].cmd, proc[p].at, result)]

Init ==
  /\ state = [n \in Nodes |-> NoFile]
  /\ haslog = [n \in Nodes |-> FALSE]
  /\ log = [n \in Nodes |-> << >>]
  /\ open = [n \in Nodes |-> FALSE]
  /\ art = [n \in Nodes |-> [s \in Sessions |-> None]]
  /\ snaps = {}
  /\ lock = [n \in Nodes |-> None]
  /\ proc = [p \in Procs |-> Idle]
  /\ crashes = 0

-----------------------------------------------------------------------------
(***************************************************************************)
(* run: the state is loaded before the agent executes and written back     *)
(* after the charge is in the ledger.                                      *)
(***************************************************************************)
OwnerMismatch(file, a) == Loaded(file).owner \notin {None, a}

\* Mutated form: a state that does not parse counts as the empty state.
RunLoadFailOpen(p, n, a) ==
  /\ MayStart(p, "run", n)
  /\ LET file == IF state[n] \in Unreadable THEN NoFile ELSE state[n]
     IN  /\ proc' = [proc EXCEPT ![p] =
              [Begin("run", n, "exec") EXCEPT !.agent = a, !.st = Loaded(file)]]
         /\ Loaded(file).ses < MaxSession
  /\ UNCHANGED <<disk, lock, crashes>>

RunLoad(p, n, a) ==
  /\ MayStart(p, "run", n)
  /\ proc' = [proc EXCEPT ![p] =
       IF state[n] \in Unreadable \/ OwnerMismatch(state[n], a)
       THEN Begin("run", n, "red")                      \* RC5, RC18
       ELSE [Begin("run", n, "exec") EXCEPT
               !.agent = a, !.st = Loaded(state[n])]]
  /\ state[n] \notin Unreadable => Loaded(state[n]).ses < MaxSession
  /\ UNCHANGED <<disk, lock, crashes>>

(* The evidence file is truncated, then filled by the agent; a run that    *)
(* times out, fails or exceeds its limits removes it (RC11, RC12).         *)
\* Mutated form: the next session reuses the number of the last one.
SessionAgain(p) == IF proc[p].st.ses = 0 THEN 1 ELSE proc[p].st.ses

Session(p) == proc[p].st.ses + 1

RunExec(p, o) ==
  /\ proc[p].pc = "exec"
  /\ art' = [art EXCEPT ![proc[p].at][Session(p)] = o]
  /\ IF o = None THEN End(p, "red") ELSE Goto(p, "account")
  /\ UNCHANGED <<state, haslog, log, open, snaps, lock, crashes>>

(***************************************************************************)
(* Accounting: node limit, counters, then the charge.  The output digest   *)
(* is taken from the evidence file as it is now; computing the record      *)
(* scans the ledger, inside the per-file lock.  A ledger with no record to *)
(* chain to makes _ledger_append answer with an integer, which the caller  *)
(* indexes.                                                                *)
(***************************************************************************)
\* Mutated form: the append takes no lock.
EnterAppendUnlocked(n, p) == CanAppend(log[n]) /\ lock' = lock /\ p \in Procs

EnterAppend(n, p) ==
  /\ lock[n] = None
  /\ lock' = IF CanAppend(log[n]) THEN [lock EXCEPT ![n] = p] ELSE lock

Charge(p) ==
  LET n == proc[p].at
  IN  [op |-> "charge", ses |-> Session(p), out |-> art[n][Session(p)],
       signer |-> NodeKey[n]]

\* Mutated form: state.json is saved before the charge is in the ledger.
RunAccountSavesFirst(p, adds) ==
  LET n   == proc[p].at
      rec == NextRecord(log[n], Charge(p))
      st  == [proc[p].st EXCEPT !.ses = Session(p), !.mem = @ \cup adds,
                                !.tip = rec.h, !.owner = proc[p].agent]
  IN
  /\ proc[p].pc = "account"
  /\ NodeCount(proc[p].st) < MaxNodes
  /\ art[n][Session(p)] # None
  /\ Len(log[n]) < MaxLog
  /\ CanAppend(log[n])
  /\ EnterAppend(n, p)
  /\ proc' = [proc EXCEPT ![p].pc = "append", ![p].st = st, ![p].rec = rec]
  /\ state' = [state EXCEPT ![n] = st]
  /\ UNCHANGED <<haslog, log, open, art, snaps, crashes>>

RunAccount(p, adds) ==
  LET n == proc[p].at IN
  /\ proc[p].pc = "account"
  /\ NodeCount(proc[p].st) < MaxNodes
  /\ art[n][Session(p)] # None
  /\ Len(log[n]) < MaxLog
  /\ EnterAppend(n, p)
  /\ IF CanAppend(log[n])
     THEN proc' = [proc EXCEPT ![p].pc = "append",
                               ![p].st.ses = Session(p),
                               ![p].st.mem = @ \cup adds,
                               ![p].rec = NextRecord(log[n], Charge(p))]
     ELSE End(p, "raised")
  /\ UNCHANGED <<disk, crashes>>

(* After the agent ran: RC10 at the node limit or for an oversize note,    *)
(* RC17 for a --supersedes target the memory lacks (the arguments are not  *)
(* modelled); a FileNotFoundError when the evidence is gone.  The evidence *)
(* file stays.                                                             *)
RunRefused(p) ==
  /\ proc[p].pc = "account"
  /\ \/ End(p, "red")
     \/ /\ NodeCount(proc[p].st) < MaxNodes
        /\ art[proc[p].at][Session(p)] = None
        /\ End(p, "raised")
  /\ UNCHANGED <<disk, lock, crashes>>

(* grant, anchor, compute-anchor: one record, no state.                    *)
PlainAppend(p, n, op) ==
  /\ MayStart(p, "plain", n)
  /\ op \in KnownOps[n]
  /\ Len(log[n]) < MaxLog
  /\ EnterAppend(n, p)
  /\ proc' = [proc EXCEPT ![p] =
       IF CanAppend(log[n])
       THEN [Begin("plain", n, "append") EXCEPT
               !.rec = NextRecord(log[n], [op |-> op, ses |-> 0, out |-> None,
                                           signer |-> NodeKey[n]])]
       ELSE Begin("plain", n, "raised")]
  /\ UNCHANGED <<disk, crashes>>

(* The line is written; a run then binds the new tip and its agent into    *)
(* the state it is about to save.                                          *)
\* Mutated form: the state is bound to the package, not to the agent.
AppendLineOwnsPackage(p) ==
  LET n == proc[p].at IN
  /\ proc[p].pc = "append"
  /\ log' = [log EXCEPT ![n] = WithLine(@, open[n], proc[p].rec)]
  /\ open' = [open EXCEPT ![n] = FALSE]
  /\ haslog' = [haslog EXCEPT ![n] = TRUE]
  /\ lock' = [lock EXCEPT ![n] = None]
  /\ proc' = [proc EXCEPT ![p].pc = "save", ![p].st.tip = proc[p].rec.h,
                          ![p].st.owner = n]
  /\ UNCHANGED <<state, art, snaps, crashes>>

\* Mutated form: the state is bound to the tip before the charge.
AppendLineBindsPrev(p) ==
  LET n == proc[p].at IN
  /\ proc[p].pc = "append"
  /\ log' = [log EXCEPT ![n] = WithLine(@, open[n], proc[p].rec)]
  /\ open' = [open EXCEPT ![n] = FALSE]
  /\ haslog' = [haslog EXCEPT ![n] = TRUE]
  /\ lock' = [lock EXCEPT ![n] = None]
  /\ IF proc[p].cmd = "run"
     THEN proc' = [proc EXCEPT ![p].pc = "save",
                               ![p].st.tip = IF proc[p].rec.prev = Genesis
                                             THEN proc[p].rec.h
                                             ELSE proc[p].rec.prev]
     ELSE End(p, "ok")
  /\ UNCHANGED <<state, art, snaps, crashes>>

AppendLine(p) ==
  LET n == proc[p].at IN
  /\ proc[p].pc = "append"
  /\ log' = [log EXCEPT ![n] = WithLine(@, open[n], proc[p].rec)]
  /\ open' = [open EXCEPT ![n] = FALSE]
  /\ haslog' = [haslog EXCEPT ![n] = TRUE]
  /\ lock' = [lock EXCEPT ![n] = None]
  /\ IF proc[p].cmd = "run"
     THEN proc' = [proc EXCEPT ![p].pc = "save", ![p].rec = None,
                               ![p].st.tip = proc[p].rec.h,
                               ![p].st.owner = proc[p].agent]
     ELSE End(p, "ok")
  /\ UNCHANGED <<state, art, snaps, crashes>>

(* state.json is truncated and rewritten with the copy in memory.          *)
SaveState(p) ==
  /\ proc[p].pc = "save"
  /\ state' = [state EXCEPT ![proc[p].at] = proc[p].st]
  /\ End(p, "ok")
  /\ UNCHANGED <<haslog, log, open, art, snaps, lock, crashes>>

-----------------------------------------------------------------------------
(***************************************************************************)
(* memory --import-json: adds the note x unless it is there already.       *)
(***************************************************************************)
MemoryLoad(p, n, x) ==
  /\ MayStart(p, "memory", n)
  /\ LET st    == Loaded(state[n])
         full  == x \notin st.mem /\ NodeCount(st) >= MaxNodes
     IN  proc' = [proc EXCEPT ![p] =
           IF state[n] \in Unreadable \/ full               \* RC5, RC10
           THEN Begin("memory", n, "red")
           ELSE [Begin("memory", n, "save") EXCEPT
                   !.st = [st EXCEPT !.mem = @ \cup {x}]]]
  /\ UNCHANGED <<disk, lock, crashes>>

-----------------------------------------------------------------------------
(***************************************************************************)
(* export: reads the state, then the ledger.  The seed is not compared     *)
(* with the state's owner; an empty state.json counts as the empty state.  *)
(***************************************************************************)
ExportState(p, n, a) ==
  /\ MayStart(p, "export", n)
  /\ Cardinality(snaps) < MaxSnaps
  /\ proc' = [proc EXCEPT ![p] =
       IF state[n] = PartialFile
       THEN Begin("export", n, "red")                    \* RC4
       ELSE [Begin("export", n, "collect") EXCEPT
               !.agent = a,
               !.st = IF state[n] = EmptyFile THEN EmptyState ELSE Loaded(state[n])]]
  /\ UNCHANGED <<disk, lock, crashes>>

ExportLedger(p) ==
  LET n == proc[p].at IN
  /\ proc[p].pc = "collect"
  /\ IF AllRecords(log[n])
     THEN /\ snaps' = snaps \cup {[agent |-> proc[p].agent, st |-> proc[p].st,
                                   recs |-> log[n]]}
          /\ End(p, "ok")
     ELSE snaps' = snaps /\ End(p, "red")                  \* RC4
  /\ UNCHANGED <<state, haslog, log, open, art, lock, crashes>>

-----------------------------------------------------------------------------
(***************************************************************************)
(* import: every check comes first; then, on a package without a ledger,   *)
(* state.json is written, the embedded chain is installed and state.json   *)
(* is written once more; a ledger that exists stays as it is (D4).         *)
(***************************************************************************)
\* Mutated form: an older snapshot is accepted.
ImportRejectsNoReplay(n, s) ==
  \/ Loaded(state[n]).owner \notin {None, s.agent}
  \/ haslog[n] /\ ~ChainOk(log[n])
  \/ haslog[n] /\ s.st.tip # None /\ ~TipInChain(log[n], s.st.tip)
  \/ ~ChainOk(s.recs)

\* Mutated form: the tip is not looked up in the local chain.
ImportRejectsNoTip(n, s) ==
  \/ Loaded(state[n]).owner \notin {None, s.agent}
  \/ s.st.ses < Loaded(state[n]).ses
  \/ haslog[n] /\ ~ChainOk(log[n])
  \/ ~ChainOk(s.recs)

ImportRejects(n, s) ==
  \/ Loaded(state[n]).owner \notin {None, s.agent}                      \* RC18
  \/ s.st.ses < Loaded(state[n]).ses                                    \* RC8
  \/ haslog[n] /\ ~ChainOk(log[n])                                      \* RC14
  \/ haslog[n] /\ s.st.tip # None /\ ~TipInChain(log[n], s.st.tip)      \* RC14
  \/ ~ChainOk(s.recs)                                                   \* RC14
  \/ \E i \in 1..Len(s.recs) : s.recs[i].body.signer \notin Trusted[n]  \* RC14

ImportCheck(p, n, s) ==
  /\ MayStart(p, "import", n)
  /\ proc' = [proc EXCEPT ![p] =
       IF state[n] \in Unreadable THEN Begin("import", n, "raised")
       ELSE IF ImportRejects(n, s) THEN Begin("import", n, "red")
       ELSE [Begin("import", n, "install") EXCEPT !.snap = s, !.st = s.st]]
  /\ UNCHANGED <<disk, lock, crashes>>

\* Mutated form: the chain is installed over a ledger that exists.
ImportInstallAlways(p) ==
  /\ proc[p].pc = "install"
  /\ state' = [state EXCEPT ![proc[p].at] = proc[p].st]
  /\ Goto(p, "chain")
  /\ UNCHANGED <<haslog, log, open, art, snaps, lock, crashes>>

ImportInstall(p) ==
  LET n == proc[p].at IN
  /\ proc[p].pc = "install"
  /\ IF haslog[n]
     THEN state' = state /\ Goto(p, "save")
     ELSE state' = [state EXCEPT ![n] = proc[p].st] /\ Goto(p, "chain")
  /\ UNCHANGED <<haslog, log, open, art, snaps, lock, crashes>>

ImportLedger(p) ==
  LET n    == proc[p].at
      recs == proc[p].snap.recs
  IN
  /\ proc[p].pc = "chain"
  /\ IF \A i \in 1..Len(recs) : recs[i].body.op \in KnownOps[n]
     THEN /\ log' = [log EXCEPT ![n] = recs] /\ open' = [open EXCEPT ![n] = FALSE]
          /\ haslog' = [haslog EXCEPT ![n] = TRUE]
          /\ Goto(p, "save")
     ELSE UNCHANGED <<log, open, haslog>> /\ End(p, "red")       \* RC15
  /\ UNCHANGED <<state, art, snaps, lock, crashes>>

-----------------------------------------------------------------------------
Exit(p) ==
  /\ proc[p].pc \in Final \ {"idle"}
  /\ proc' = [proc EXCEPT ![p] = Idle]
  /\ UNCHANGED <<disk, lock, crashes>>

(***************************************************************************)
(* The death of an invocation: between two steps, or inside a write that   *)
(* leaves its file cut short.                                              *)
(***************************************************************************)
Dies(p) ==
  /\ crashes < MaxCrashes
  /\ crashes' = crashes + 1
  /\ proc' = [proc EXCEPT ![p] = Idle]
  /\ lock' = [n \in Nodes |-> IF lock[n] = p THEN None ELSE lock[n]]

Crash(p) ==
  /\ Active(p)
  /\ Dies(p)
  /\ UNCHANGED disk

CrashInExec(p) ==
  /\ proc[p].pc = "exec"
  /\ Dies(p)
  /\ art' = [art EXCEPT ![proc[p].at][Session(p)] = None]
  /\ UNCHANGED <<state, haslog, log, open, snaps>>

\* A part of the line reached the file, or all of it but the newline.
CrashInAppend(p, whole) ==
  LET n == proc[p].at IN
  /\ proc[p].pc = "append"
  /\ Dies(p)
  /\ whole => Ended(log[n], open[n])
  /\ log' = [log EXCEPT ![n] = IF whole THEN Append(@, proc[p].rec)
                               ELSE WithTornLine(@, open[n])]
  /\ open' = [open EXCEPT ![n] = whole]
  /\ haslog' = [haslog EXCEPT ![n] = TRUE]
  /\ UNCHANGED <<state, art, snaps>>

WritesState(p) ==
  \/ proc[p].pc = "save"
  \/ proc[p].pc = "install" /\ ~haslog[proc[p].at]

CrashInSave(p, file) ==
  /\ WritesState(p)
  /\ Dies(p)
  /\ state' = [state EXCEPT ![proc[p].at] = file]
  /\ UNCHANGED <<haslog, log, open, art, snaps>>

\* The first k records of the snapshot reached the file: with their newlines,
\* with a part of the next record, or without the newline of the last of them.
CrashInLedger(p, k, cut) ==
  LET n    == proc[p].at
      recs == proc[p].snap.recs
      head == SubSeq(recs, 1, k)
  IN
  /\ proc[p].pc = "chain"
  /\ IF cut = "newline" THEN k \in 1..Len(recs) ELSE k < Len(recs)
  /\ \A i \in 1..Len(recs) : recs[i].body.op \in KnownOps[n]
  /\ Dies(p)
  /\ log' = [log EXCEPT ![n] = IF cut = "line" THEN Append(head, Torn) ELSE head]
  /\ open' = [open EXCEPT ![n] = (cut = "newline")]
  /\ haslog' = [haslog EXCEPT ![n] = TRUE]
  /\ UNCHANGED <<state, art, snaps>>

-----------------------------------------------------------------------------
Run(p) ==
  \/ \E n \in Nodes, a \in Agents : RunLoad(p, n, a)
  \/ \E o \in Outputs \cup {None} : RunExec(p, o)
  \/ \E adds \in SUBSET Notes : RunAccount(p, adds)
  \/ RunRefused(p)

Import(p) ==
  \/ \E n \in Nodes, s \in snaps : ImportCheck(p, n, s)
  \/ ImportInstall(p)
  \/ ImportLedger(p)

Failure(p) ==
  \/ Crash(p)
  \/ CrashInExec(p)
  \/ \E whole \in BOOLEAN : CrashInAppend(p, whole)
  \/ \E file \in Unreadable : CrashInSave(p, file)
  \/ \E k \in 0..MaxLog, cut \in {"none", "line", "newline"} : CrashInLedger(p, k, cut)

Next ==
  \E p \in Procs :
    \/ Run(p)
    \/ \E n \in Nodes, op \in PlainOps : PlainAppend(p, n, op)
    \/ AppendLine(p)
    \/ SaveState(p)
    \/ \E n \in Nodes, x \in Notes : MemoryLoad(p, n, x)
    \/ \E n \in Nodes, a \in Agents : ExportState(p, n, a)
    \/ ExportLedger(p)
    \/ Import(p)
    \/ Exit(p)
    \/ Failure(p)

Spec == Init /\ [][Next]_vars
-----------------------------------------------------------------------------
(***************************************************************************)
(* Properties.                                                             *)
(***************************************************************************)
Readable(n)     == state[n] \notin Unreadable
St(n)           == Loaded(state[n])
ChargesAt(n)    == {i \in RecordsIn(log[n]) : log[n][i].body.op = "charge"}
ChargeOf(tip)   == tip[Len(tip)].body
Saving(n)       == {p \in Procs : proc[p].pc = "save" /\ proc[p].cmd = "run"
                                  /\ proc[p].at = n}
Importing(n)    == \E p \in Procs : proc[p].pc = "chain" /\ proc[p].at = n

\* Every variable stays in its domain.
TypeOK ==
  /\ state \in [Nodes -> StateFile]
  /\ haslog \in [Nodes -> BOOLEAN]
  /\ log \in [Nodes -> Seq(Line)]
  /\ open \in [Nodes -> BOOLEAN]
  /\ art \in [Nodes -> [Sessions -> Outputs \cup {None}]]
  /\ snaps \subseteq Snapshot
  /\ lock \in [Nodes -> Procs \cup {None}]
  /\ proc \in [Procs -> Invocation]
  /\ crashes \in Nat

(* A ledger whose lines all parse verifies: appends by any interleaving of *)
(* threads, runs that die, and installs of snapshots leave either an       *)
(* unreadable line or an intact hash chain, never a chain that parses and  *)
(* does not link (RFC-003 D4, _verify_chain).                              *)
ChainIntact == \A n \in Nodes : AllRecords(log[n]) => ChainOk(log[n])

(* The ledgers implement LedgerHistory: what the verifier accepts of a     *)
(* ledger only grows, by one record at a time or by adopting an exported   *)
(* chain where there was none (RFC-003 D3, RFC-002 E-9, D4 append-only).   *)
(* The exception is a record whose newline was lost with the invocation    *)
(* that wrote it: the next append joins its line and destroys it.          *)
Verified(l) ==
  ChainTip(SubSeq(l, 1, Cardinality(
    {k \in 1..Len(l) : \A i \in 1..k : Links(l, i)})))

History ==
  INSTANCE LedgerHistory WITH
    Fact <- Body,
    history <- [n \in Nodes |-> Verified(log[n])],
    loose <- {n \in Nodes : open[n] /\ AllRecords(log[n])},
    published <- {Verified(s.recs) : s \in snaps}

ImplementsHistory == History!Spec

(* The tip that state.json carries names the charge of its last session    *)
(* (RFC-004 D6: the tip cross-binds the state with the ledger), whether    *)
(* the state was saved by a run, kept by memory --import-json or imported. *)
TipNamesLastSession ==
  \A n \in Nodes : Readable(n) =>
    IF St(n).tip = None
    THEN St(n).ses = 0
    ELSE ChargeOf(St(n).tip).op = "charge" /\ ChargeOf(St(n).tip).ses = St(n).ses

(* That charge is in the local ledger, as long as no invocation died: no   *)
(* order of runs, grants, exports and imports on several nodes separates   *)
(* a state from the ledger it was accounted in.                            *)
TipInLedger ==
  crashes = 0 =>
    \A n \in Nodes : Readable(n) /\ St(n).tip # None /\ ~Importing(n) =>
      TipInChain(log[n], St(n).tip)

(* Accounting comes first: a session that reached state.json is charged in *)
(* the ledger, although runs die between the two writes (cmd_run writes    *)
(* the charge, then the state).  A ledger damaged by a torn line, and the  *)
(* node of an import that died half-way, are excepted.                     *)
NoSessionUncharged ==
  \A n \in Nodes : Readable(n) /\ AllRecords(log[n]) =>
    \A s \in 1..St(n).ses : \E i \in ChargesAt(n) : log[n][i].body.ses = s

(* Charges follow the order of sessions: the same session again (a run     *)
(* that died before it saved its state is repeated) or the next one.       *)
(* A ledger damaged by a torn line is excepted.                            *)
ChargesInOrder ==
  \A n \in Nodes : AllRecords(log[n]) =>
    \A i, j \in ChargesAt(n) :
      i < j /\ (\A k \in ChargesAt(n) : k <= i \/ j <= k)
        => log[n][j].body.ses \in {log[n][i].body.ses, log[n][i].body.ses + 1}

(* ... and wherever the package migrates, as long as no invocation died.   *)
(* (An import that dies while it installs the ledger, or a run that leaves *)
(* an empty state.json to be exported, breaks the order on the next node.) *)
MigratedChargesInOrder == crashes = 0 => ChargesInOrder

(* A customer is charged twice for a session only because an invocation    *)
(* died: the charges beyond the saved sessions are at most the crashes and *)
(* the runs that are about to save.                                        *)
SurplusIsCrashes ==
  \A n \in Nodes : Readable(n) =>
    Cardinality(ChargesAt(n)) <= St(n).ses + Cardinality(Saving(n)) + crashes

(* The evidence file of the last saved session is the one its charge was   *)
(* computed from, however many attempts at later sessions failed or died   *)
(* (RFC-002 E-5: session-N.stdout and its digest).                         *)
TipEvidence ==
  \A n \in Nodes : Readable(n) /\ St(n).tip # None /\ St(n).ses > 0 =>
    art[n][St(n).ses] = ChargeOf(St(n).tip).out

(* No command takes the session counter back: neither an old snapshot      *)
(* (RC8) nor a run that started from an older copy of the state.           *)
SessionsMonotone ==
  [][\A n \in Nodes : Readable(n) /\ Readable(n)' => St(n).ses <= St(n)'.ses]_state

(* A snapshot's embedded chain verifies and holds the tip of the state it  *)
(* travels with, although export reads the two files at different moments  *)
(* and a run may charge in between; without crashes.                       *)
SnapshotSelfContained ==
  \A s \in snaps :
    /\ ChainOk(s.recs)
    /\ crashes = 0 /\ s.st.tip # None => TipInChain(s.recs, s.st.tip)

(* An import that is rejected installs nothing: a package without a ledger *)
(* keeps a state without a tip (at053_restore_gate.sh: every op is checked *)
(* before the installation).  Fails where the snapshot holds an op that    *)
(* this node's release does not emit.                                      *)
RejectedImportInstallsNothing ==
  \A p \in Procs :
    proc[p].cmd = "import" /\ proc[p].pc = "red" /\ crashes = 0
      => haslog[proc[p].at] \/ St(proc[p].at).tip = None
=============================================================================
