# Tamga protocol: TLA+ specifications and proofs

Tamga runs an *agent package* (a directory with a manifest, a WASM component and
the agent's state) in a metered sandbox, charges every session in a hash-chained
ledger, and lets the package migrate between machines as an encrypted snapshot.
Two programs surround that core: a loopback proxy through which an agent with
declared egress reaches the network, and a relayer daemon that serves execution
requests of an oracle contract.  Around them stands a family of verifiers that a
counterparty runs without trusting the node.

This directory holds TLA+ modules for those parts, the TLC configurations that
check them, and TLAPS proofs. File and line references are to the repository's
root. `PROJECT.json` maps every definition to the lines it models.

## 1. Inventory

| Component | State it keeps | Operations | Model |
|---|---|---|---|
| Ledger chain (`tamga_runner.py`) | `ledger.jsonl`, `_LEDGER_LOCKS` | `_ledger_append`, `_verify_chain`, `_tip_in_chain` | `LedgerChain`, `LedgerHistory` |
| Package commands (`tamga_runner.py`) | `state.json`, `session-N.stdout`, snapshots | `run`, `grant`, `anchor`, `memory`, `export`, `import` | `PackageNode` |
| Declared egress (`tamga_netproxy.py`, `tamga_net_shim.py`) | byte counter, cap flag, slots, events file, two pipes, a timer | pump, HTTP over a tunnel, proxy threads, collection into the charge | `NetSession` |
| Oracle relayer (`tamga_oracle_relayer.py`) | cursor, replay cache in memory and on disk | poll, execute, submit, wait, save | `OracleDaemon` |
| Validator, `migrate-net` (`tamga_validator.py`, `tamga_runner.py`) | manifest, `net.json`, the digest in the latest charge | `validate`, `cmd_sign`, `cmd_migrate_net` | `Admission` |
| Module registry (`tamga_runner.py`, `tamga_oracle_relayer.py`) | `reg.json`, its backup, temporary files; the copy a relayer loaded | backup, restore, `load_registry`, `execute_request` | `ModuleRegistry` |
| Ledger readers: `ledger-verify`, `tamga_verify_mini`, `tamga_bundle`, `tamga_project_head`, `tamga_explain`, `brandstrike_tsa` | none; they read a file that grows | chain walks, record gates, copies | `LedgerReaders` |
| Document verifiers: settlement, dispute, receipts, attestations, epochs, time stamps, anchors (`tools/`, `tamga_*_verify.py`, `tamga_verifier.py`) | none; they read files, options, nodes | sequences of gates with a three-way verdict | `DocumentChecks` |
| Co-signatures, trust, revocation | trust and revocation lists | `_cosign_policy`, `cmd_import` under L1 | `DocumentChecks` (`Cosign`), signers in `PackageNode` |
| MCP server (`mcp/server.py`) | none | a verifier per call, with a time-out | `DocumentChecks` (`Answer`, `TimeOut`) |
| Liveness probe | none | two blocks of one node | `DocumentChecks` (`Liveness`) |
| Engine bootstrap | engine cache | download, pin | not modelled |
| Canonical JSON, Keccak, elliptic curves, DER | none | pure functions | abstracted to injective digests and to pieces that are right or wrong |
| Repository tools, demos, gates | none | scanners, converters | not modelled |

**How they interact.** `run` loads `state.json`, starts the proxy if the package
declares egress, runs the agent (through the shim then), appends a charge to the
ledger and writes the state with the new ledger tip. `export` seals state and
ledger into a snapshot; `import` checks a snapshot against the local state and
ledger and installs what is missing. The relayer starts `run` and `export` as
subprocesses, one after the other, for each request it fetches from the chain; it
finds the package of a request in the registry it loaded when it started.  Every
command that runs or moves a package asks the validator first.  Verifiers read the
ledger, the documents others made of it, and what a node of a chain answers; the MCP
server starts some of them as subprocesses.

**What is hard.** Nothing in the package is written atomically: a command that
dies leaves a torn ledger line, an empty or cut state file, or a charge without
its state. Snapshots arrive late, twice and out of order. Threads share a ledger
under a per-file lock that other processes do not see. The proxy's threads
outlive the requests they serve and the session itself. The agent shares two
bounded pipes with a thread that also has to notice the time-out. The relayer
keeps its memory of what it paid for in a file that it writes after the fact, over
a chain that mines late, reverts and replaces; a manifest that is missing kills it, a run
that does not end stops it, and others run the packages it serves.  `migrate-net` moves a declaration in
four writes.  The registry is edited and restored under a relayer that holds an
older one.  Readers take a growing file up twice or three times; six programs walk
the same chain, each with limits of its own; and a document, or the chain behind a
node's answers, may change while it is being judged.

**What makes each component correct.**

- *Ledger*: what verifies only grows, on any node; the one record that can be taken back
  is that of a write that lost its newline.
- *Package*: no saved session without a charge; charges in the order of sessions;
  surplus charges only by crashes; the state's tip names the charge of its last
  session, and the evidence file that charge was computed from; the session
  counter never falls.
- *Declared egress*: connection limit and byte cap under every interleaving; an
  exact charge; a session that ends.
- *Validator and migration*: an accepted package declares what its owner declared and
  what its latest charge binds, also after a death in the middle of a migration.
- *Registry*: files are whole; a request runs the package that was loaded, is refused
  before it is charged as far as the relayer looks at it, and is answered with a snapshot
  that covers its session.
- *Readers*: what the program writes passes every reader, but for the records that are
  named; a reported head is that of
  what was read; a held head binds the past; a broken ledger is not repaired by
  writing more.
- *Document verifiers*: GREEN only after every piece it stands for was looked at.
- *Relayer*: what is remembered is fulfilled; duplicates need a fault; a request in
  the file is never served again as long as the file loads; a RED keeps nobody waiting
  and the loop goes on, unless a run does not end.

## 2. Modules

### LedgerChain
Operators only. A digest is the sequence of entries it commits to, so that two
digests are equal exactly when the histories are: the model of a collision-free
hash. `ChainOk` is `_verify_chain`; `PredecessorHash`, `NextRecord` and `WithLine`
are the append path, which scans for the last line that parses and adds bytes at
the end of the file. A write is cut in one of two ways: the line does not parse
(`WithTornLine`), or all of it is there but the newline, so that the file is *open*. A file
that ends with a torn line or is open is not `Ended`: whatever is written next becomes one
line with the last one, and neither of the two parses.

### LedgerHistory
The abstract specification: each node has a history that grows by one entry at a
time; a node without one may adopt a published one, perhaps only its oldest part. An
entry may be committed *loosely*: it counts as the last one, can be published and adopted,
and may be withdrawn, but nothing is committed behind it. That is the whole record that
lost its newline: it verifies and export ships it, the next append makes one line of it and
itself, and the ledger is broken from there. Every other entry is final.

### PackageNode
`state`, `haslog`/`log` (with `open`), `art` and `snaps` are the files; `proc[p]` is a command
invocation with its program counter and its copy of the state; `lock` is
`_LEDGER_LOCKS`. A command is split where it touches a file:

| Code | Actions |
|---|---|
| `cmd_run` | `RunLoad`, `RunExec`, `RunAccount` or `RunRefused`, `AppendLine`, `SaveState` |
| `cmd_grant`, `cmd_anchor`, `compute_anchor` | `PlainAppend`, `AppendLine` |
| `cmd_memory --import-json` | `MemoryLoad`, `SaveState` |
| `cmd_export` | `ExportState`, `ExportLedger` |
| `cmd_import` | `ImportCheck`, `ImportInstall`, `ImportLedger`, `SaveState` |
| a process that dies | `Crash`, `CrashInExec`, `CrashInAppend`, `CrashInSave`, `CrashInLedger` |

`_ledger_append` is two actions under the lock: the scan that computes the record
(`EnterAppend`, in `RunAccount` and `PlainAppend`) and the write (`AppendLine`).
`CrashInAppend` and `CrashInLedger` cut the write inside a line or before its newline.
`MayStart` states what a deployment guarantees: one command at a time on a package,
except for those in `Concurrent`. `MCPackageNode` has the constants a `.cfg` cannot
write.

### OracleDaemon
`chain` (head, the block of each request, the pending transaction, the status of the
last one, fulfilments) is external: the code takes `block_number`, logs, a nonce and
receipts from it. `daemon` is `daemon_loop`: the cursor, the fetched batch, the
request being served, the replay cache in memory (`cache`) and on disk (`file`). `Start`
is `_load_replay_cache`, which may find the file unreadable and take it for an empty one
(`forgot`), `SetCursor` the start of the loop. `execute_request` is `Execute` up to its run
and `RunReturns` behind it: RED before the run, RED before or after the charge, a result to
submit, or an error that is no `TamgaRelayerError` (`Dies`). `Poisonous` are the requests
whose manifest or output raises such an error, `Endless` those whose run may not end;
nothing the daemon does takes it out of one (`Stuck`).

### NetSession
The agent with its two pipes (external), the runner's thread (`pc`: write the
input, pump, one HTTP request, respond, reap, then the accounting), the timer, and
`conn[i]`, the place of the proxy thread of connection `i`. A chunk is counted
(`Chunk`) and the flag is set (`SetCapped`) in separate steps, as in `_tunnel`; the
gate reads the flag and dials in separate steps, as in `_handle_gated`.

### Admission
`manifest[c]`, `bridge[c]` and `log[c]` are `tamga.json`, `net.json` and the ledger of
each copy of one package; `junk` says that the ledger holds a line that does not parse,
which makes the validator read it as empty. `Validate` is `validate`: schema block,
one source of a declaration, the digest of the latest charge among the accepted ones
(`BindingVerdict`, D12), the strict gate, the signature. A declaration has three
digests (bytes of the file, canonical JSON of the file's shape, canonical JSON of the
subtree). `cmd_migrate_net` is `MigrateWrite`, `MigrateUnlink`, `MigrateEvidence`,
`MigrateGate`; `cmd_run` is `RunAdmit`, `RunDeclare`, `RunCharge`; the owner's editor is
`Edit`, which also works while an agent runs. `owner` is a history variable: what was
declared last by a person. `MCAdmission` has one host in two spellings.

### ModuleRegistry
`disk` holds `reg.json`, its backup and the two temporary files; `loaded` is what the
relayer holds; `serve` is the request it executes. `registry-backup` is `BackupWrite`,
`BackupRename`; `registry-restore` is `RestoreWrite`, `RestoreRename`, `RestoreVerify`;
`execute_request` is `Receive` (with `Refusal`), `RunLoads`, `RunSaves`, `CheckStamp`,
`TakeSnapshot`, `Fulfil`. A run is the read of the session counter before the agent and its
write-back behind it, the relayer's (`serve.ses`) as well as those of others
(`OtherLoads`, `OtherSaves`; `others[p]` holds what each of them has read), and a runner
whose relayer died is one of the others. `how` says whether this is the daemon, whose input
is bytes and which has no handler for a missing manifest, or `run-request`, whose input is
a path of any size and which answers that error and ends, and which secret the operator's
ledger has been given. `EditRegistry` and `ChangePackage` are the operator and the author.
It explains the outcomes of `OracleDaemon`'s `Execute` and `RunReturns`, which know neither
registry nor packages.

### LedgerReaders, DocumentChecks, Evidence
`LedgerReaders` extends `LedgerChain`: the commands that append (`grant`, `charge`,
`anchor`, `compute-anchor`, `migrate-net`; an import that installs a chain is appends in a
row, as it happens only where there is no ledger), a torn append, other hands, and the
readers. A reader that takes the file up more than once is one action
per read (`VerifyStart`, `VerifyGates`, `VerifyCount`; `BundleStart`, `BundleCopy`);
one that reads once is `TakeHead`. `held` is what a counterparty then holds.

`DocumentChecks` has one definition per tool: the sequence of its gates in the order of
the code, each with the piece it looks at, the states of that piece that stop it, and
what it then says. One set of actions (`TakeUp`, `Test`, `Skip`, `Pass`, `Answer`,
`TimeOut`) runs any of them, while `Replace` exchanges sources. `Stands` states apart
from the gates, from the tools' own words, what a GREEN of each is for.

`Evidence` puts both under one specification, and `MCEvidence` gives the records that
are written: of the right and of a wrong shape, too long, with a line separator, with a
number that canonical JSON refuses (`unwritable`), or writes and refuses when it is read
back (`wide`: a float between 2^53 and 1e21 is written as an integer).

### The proof modules
`PackageNodeProofs`, `OracleDaemonProofs`, `NetSessionProofs`, `AdmissionProofs`,
`ModuleRegistryProofs` and `EvidenceProofs` hold the theorems about the module they are
named after. `PackageHistoryProofs` builds on the invariant of `PackageNodeProofs` and says
what state, ledger, evidence and snapshots say of each other. `SequenceLemmas` has what
they share about chains, selections of lines and tables. Section 5 says what they prove.

## 3. Runs

Each run is one question. `*.cfg` gives the constants only; nothing is replaced.

| Run | Question | Result |
|---|---|---|
| `package_recovery` | One package, every command, two deaths anywhere, also inside a write and before its newline. What do ledger, state and evidence still promise? | holds |
| `package_migration` | Two packages, snapshots imported late, again, crosswise, two agent identities, one death. Does any order of commands separate a state from the ledger it was accounted in? | holds |
| `package_threads` | `run`, `grant` and `export` side by side in one process. Do the lock and the write order keep chain and snapshots? | holds |
| `oracle_daemon` | Late, reverted and replaced transactions, two faults (crash, lost answer, timeout, failed save, load or poll), a request that kills the daemon and one that does not end. Is what is remembered true, and does the loop go on? | holds |
| `net_session` | Agent, pump, timer and three proxy threads. Limits, charge, termination. | holds |
| `admission` | Two copies of a package, migrations, snapshots, an owner who edits, one death anywhere. Does an accepted package run under the policy its owner declared and its ledger binds? | holds |
| `registry` | Edits, backups, restores and package changes under a serving relayer, one death, one other run that reads and writes back the session counter at any time, under the daemon and under `run-request`. Are files whole, refusals free, answers about the right package and session? | holds, the session but for a run that had read an older counter |
| `evidence` | A ledger under seven readers and other hands; twenty tools over documents that are replaced. Is what they say grounded in what they read? | holds |
| `package_rejected_import` | Does a rejected import leave the package alone? | violated |
| `oracle_lost_request` | Is every emitted request answered at last? | violated |
| `net_full_pipe` | Does the wall-clock limit end a run? | violated |
| `admission_policy_change` | Is a change of policy after a run always noticed? | violated |

### What the violated runs show

Each one checks a sentence that the repository says of its program.

- **`package_rejected_import`**: a snapshot with an op that the target's release
  does not emit. `state.json` is written before the ops are looked at, so RED 15
  leaves the snapshot's state in a package without a ledger.
- **`oracle_lost_request`**: a request is mined while a batch is served; the cursor
  moves to the head of the end of the cycle and passes it. No fault is needed.
- **`net_full_pipe`**: an agent that asks and never reads. The pump blocks in the
  write of a response, and the timer only sets a flag that the pump would read.
- **`admission_policy_change`**: run, `migrate-net`, change `runtime.net`, sign again,
  `validate`. The digest that the migration record carries over is in the accepted set
  whatever the declaration says now (`tamga_validator.py:251`), until the next charge;
  the comment at line 232 says that a change of content must still be caught.

### Other disagreements met while modelling

The models contain these steps; no run of its own is spent on them. The properties that
the runs check are stated so that they hold beside them.

- An append writes behind a torn line, where the comment at `tamga_runner.py:291` says
  that it fails closed; the ledger never verifies again (`BrokenStaysBroken`).
- `export` accepts a `state.json` of zero bytes, as a run leaves it that dies after
  truncating it, and ships the full ledger without its last session.
- A relayer that dies between the receipt and the save of its replay cache fulfils the
  request again; its docstring (`tamga_oracle_relayer.py:822`) excludes that. So does a
  `.tamga-fulfilled.json` that cannot be read or does not parse: it is loaded as an empty one
  (793). `SettledStaysSettled` says what is left: as long as the file loads, nothing in it is
  served again.
- The manifest is read for each request (`tamga_oracle_relayer.py:506`), and a
  `FileNotFoundError`, a `JSONDecodeError` or a `KeyError` is taken by neither handler of the
  loop (863, 872): the daemon ends, systemd starts it, and the backfill finds the same request
  first again. The docstring (826) says that errors are logged as RED and the loop does not
  stop.
- `subprocess.run` starts the runner without a time-out (416), and the runner's own limit does
  not end every run (`net_full_pipe`): the loop waits for ever, and systemd sees a process that
  is alive. The docstring (827) says that no watchdog is needed.
- A receipt with a nonce of `1e16` verifies and is anchored: JCS writes the float as the
  integer `10000000000000000` (`tamga_canon.py:95`), JSON reads it back as an int, and every
  reader refuses it as out of the I-JSON range (44). A ledger that the program alone wrote then
  verifies no more; `tests/conformance/spec/LEDGER-SPEC.md:102` keeps such numbers out of `h`.
- `run-request` takes an input of any size: the registry's bound is compared for bytes only
  (`tamga_oracle_relayer.py:524`, not at 530). A well-known ledger secret, or the
  lack of the ledger's module, is found behind the charge (565), though both are there to be
  seen at the start.
- A run of a package that overlaps the relayer's writes back the session counter it had read
  before: the snapshot that is sent may have an older session than the one that is billed.
- A write that loses only its newline leaves a record that verifies and is exported; the next
  append makes it unparsable, so that a node's ledger then disagrees with its own snapshot.
- `migrate-net` removes `net.json` before its gate, not after it as its docstring says,
  and a RED gate leaves the package migrated. A death between manifest and unlink
  leaves both declarations: every command refuses the package, and `migrate-net` as
  well. One between unlink and append leaves `net_binding_mismatch`.
- `registry-restore` replaces `reg.json` before it validates what it installed, and a
  RED leaves it replaced. A registry with notes (keys that start with `_`) loads and
  is backed up, but cannot be restored.
- The record of a `compute-anchor` has no bound on its length: `ledger-verify` refuses
  a ledger with a long one. A grant whose note holds a line separator (U+2028) breaks
  `project-head` and `explain`. `IVerifier.verify_charge` takes `node_sig` into the hash
  and refuses every co-signed charge.
- `settlement_bridge` and `compute-anchor` open a file again that was just verified;
  `tamga_epoch_verify` asks its node twice.

### Bounds, and why they are enough

- `Nodes`, `Procs`: two nodes are the smallest migration, and the hazards of one
  (a snapshot that is older, newer, or from another branch) need no third. One
  invocation at a time where deployments run one, two where threads overlap.
- `MaxSession` 2, `MaxLog` 3: a repeated session, a next one and a plain record fit
  beside each other. `MaxNodes` is at its limit in `package_recovery` only, so that
  RC10 happens.
- `MaxSnaps` 2 (1 without migration): an old and a new snapshot to choose from.
- `MaxCrashes` 2 in `package_recovery`: a death during the recovery from a death.
- `Requests` 2, `MaxHead` 3, `Backfill` 2 (1 in the violated runs): two requests in
  one block, in consecutive blocks, or below the backfill. `MaxFaults` 2 lets a
  fault meet the retry of another.
- `Conns` 3 with `MaxConcurrent` 2: two served and one over the limit. `MaxBytes` 2
  and one-place pipes put every limit within reach.
- `admission`: two copies are what a snapshot needs; `MaxRecords` 3 holds a charge, a
  migration and the next charge; one edit and one death meet in every order. Three
  declarations: one host, its other spelling, and one that names it twice.
- `Poisonous` and `Endless` are one request each in `oracle_daemon`: the other one stands
  before, behind or in the same block.
- `registry`: two modules, two packages, four registries (moved module, notes, missing
  size, wrong limit), five requests (bytes that fit, bytes and a path that are too large, an
  unknown module, a limit out of range), a daemon with a secret of its own and a `run-request`
  with a well-known one; one edit, one death, two sessions, and one other run at a time (two when the relayer dies over its own):
  a counter that was read before the first session can be written back behind the second.
- `evidence`: eight kinds of records, a line too long, one with a separator and one with a
  wide number among them; three lines hold a record before, at and behind any damage; one edit; two
  replacements, so that a source changes and changes back between two gates. A
  counterparty reads once.
- `MaxCharges` and the counters of `OracleDaemon` saturate: beyond the bound two
  values are not told apart. `FromBlock` is `None`, the service file's setting.

`SYMMETRY` is used in `package_migration` and `admission` only, which have no
liveness property beyond the safety part of `History!Spec`. `CHECK_DEADLOCK FALSE` is
set in the `net_*`, `admission*`, `registry` and `evidence` configurations: a session
or a verdict ends, and the bounds on records, sessions and edits are reached. The
other models never stop: an `Exit` or a poll is always possible.

## 4. Fairness

Only what the scheduling of the code provides:

- `OracleDaemon`: `WF_vars(Work)`. The daemon is one sequential loop, restarted by
  systemd (`Restart=always`); its calls to the node and the wait for a receipt have a
  time-out. The run of a request has none (`_runner`): a request in `Endless` is run without
  fairness, and both liveness properties except the daemon that waits for it (`Stuck`).
  Nothing is assumed of the chain: blocks may stop, a transaction may stay pending for ever.
- `NetSession`: weak fairness of the runner's thread, of the timer, and of each
  proxy thread, which either moves a chunk or runs into `timeout_s`. The agent has
  none: it may never write, never read, never exit. A connection may carry chunks
  for ever as far as fairness goes; it is the byte cap that ends it.
  `SessionEnds` is checked for an agent that reads each response before it asks
  again and an input that fits the pipe; `net_full_pipe` shows why it must.
- `PackageNode`, `Admission`, `ModuleRegistry` and `Evidence` have no liveness
  property: a user need not start another command, and a verifier may be given up.

## 5. Proofs

Everything below is checked by TLAPS for all values of the constants that satisfy
the named assumptions of the modules. Where a theorem needs more, the hypothesis stands
in its statement and is explained below. Every inductive invariant was first an invariant
of the runs.

### PackageNodeProofs
*Assumptions*: `PackageAssumption` (a bound on sessions, and that the special values
differ from records and states) and `ImportRunsAlone` (a deployment imports into a
package only while no other command runs on it; the tool has no guard for that).
Neither the number of nodes, invocations and snapshots nor the number of deaths is
limited.

| Theorem | Says |
|---|---|
| `TypeCorrect` | every variable stays in its domain (`TypeOK`) |
| `ChainIntactHolds` | a ledger whose lines all parse verifies (`ChainIntact`) |
| `SnapshotsVerify` | every exported snapshot embeds a chain that verifies |
| `Invariance` | the inductive invariant `IInv` they follow from |

`ChainIntact` alone is not inductive: an append computes a record in one step and
writes it in another, and the record is right only if the ledger is the same in
both. `Stage(p)` states what an invocation relies on at each point: at `append`,
that its record is still the next one of the ledger and that it holds the lock; at
`install` and `chain`, that the snapshot in its hands verifies. That the ledger
stands still follows from the lock (against other appends) and from `ImportAlone`
(against an import that installs a chain, which takes no lock). `SnapshotsIntact` is
needed because an import writes what an export once read. About the operators:
`AppendKeepsChain` (what `NextRecord` computes extends an intact chain),
`WithLineKeeps` (also behind a torn line, where the result does not parse),
`PrefixIntact` (an import that dies leaves an intact, shorter chain), and
`LastExists` (the scan finds a last record). `StepOfOne` says once for all actions
which steps leave the other invocations alone.

### PackageHistoryProofs
Three hypotheses occur, each of them what a run of section 3 has in its `.cfg`:

- `OnePackage`: nothing is installed from elsewhere. Otherwise the four claims are false of
  the code. An import writes `state.json` before the chain and brings no evidence files: its
  death leaves sessions without a charge, or a next charge that leaves some out, and its
  success a tip without evidence. And an export takes a `state.json` that a death emptied
  for the empty state, so that the snapshot carries the charges of sessions it does not have.
- `SameRelease`: all nodes know the same ops. `package_rejected_import` shows what happens
  otherwise.
- `WritersAlone`: `run`, `memory --import-json` and `import` run beside no other command on
  their package; `grant`, `anchor` and `export` may run beside each other. A run beside a
  run takes the session counter back (the later one saves an older copy), and an export
  beside a run puts an old state next to a newer ledger.

| Theorem | Says | Under |
|---|---|---|
| `Refinement` | the ledgers implement `LedgerHistory` (`ImplementsHistory`): only a record without its newline is ever taken back | |
| `TipNames` | the tip names the charge of the last session (`TipNamesLastSession`) | |
| `TipKept` | without a death no order of commands separates a state from its ledger (`TipInLedger`) | `SameRelease` |
| `SnapshotComplete` | a snapshot verifies and holds the tip of its state (`SnapshotSelfContained`) | `SameRelease` |
| `MigratedFollow` | without a death charges are in the order of sessions on every node (`MigratedChargesInOrder`) | `SameRelease`, `WritersAlone` |
| `SessionsOnlyGrow` | no command takes the session counter back (`SessionsMonotone`) | `WritersAlone` |
| `Accounted` | each saved session is charged, whatever dies (`NoSessionUncharged`) | `OnePackage` |
| `EvidenceOfTip` | the evidence of the last session is what its charge was computed from (`TipEvidence`) | `OnePackage`, `WritersAlone` |
| `ChargesFollow` | charges follow the order of sessions, whatever dies (`ChargesInOrder`) | `OnePackage`, `WritersAlone` |
| `SurplusBounded` | charges beyond the saved sessions are paid for by deaths (`SurplusIsCrashes`) | `OnePackage`, `WritersAlone` |

`Does(p)` restates the actions as what the invariants see of them, and `NextDoes` shows
that each step of `Next` is one of these and leaves the other invocations alone; every
invariant is then proved against `Does`. None of the properties is inductive: each speaks
of `state.json`, and a copy of the state lives in four places (the file, an invocation, a
snapshot, an import of one). `NamesInv`, `CarriedInv`, `CoveredInv`, `EvidenceInv`,
`OrderInv`, `SurplusInv` and `MigratedInv` say of every copy what the property says of the
file, and of an invocation between two writes which half of it is there already: a run
that has its charge in the ledger and its state in memory (`Saving`), an import between
state and chain (`Importing`). `ForwardInv` says that a writer is alone and that what it
holds is not older than the file; `PastInv` that the snapshots of a single package are its
own past; `FreshInv` that an import installs what some export wrote, where no ledger was.

For the refinement, `Verified` is the tip of the longest beginning of a ledger that
verifies. `VerifiedIs` says what that tip is record by record; from it, a line that is torn
or that does not parse changes nothing, an append to an intact ledger adds the one record
(`AppendCommits`), loosely if it dies before the newline, an append to an open one withdraws
the record it joins (`JoinCommits`), also if it dies in its turn (`TearCommits`), an append
behind a broken line does nothing (`HistoryStep`), an import adopts what an export published
or a beginning of it, and an export publishes (`SnapshotStep`). What is loose is a record at
the end of an open ledger (`Loose`, `LooseStep`).

An open ledger takes a charge away when the next line joins it. The properties that count or
order charges speak of ledgers that parse, which such a ledger no longer does, and a charge
less is none too many (`JoinedCharges`, `FewerCharges`); where no invocation has died no
ledger is open (`FreshInv`).

### NetSessionProofs
*Assumption*: `SessionAssumption` (finitely many connections, natural bounds).

| Theorem | Says |
|---|---|
| `TypeCorrect` | `TypeOK` |
| `ConnLimitHolds` | never more than `max_concurrent` connections are served |
| `OvershootHolds` | bytes exceed the cap by at most one chunk per connection |
| `ChargedWithinCapHolds` | a charge exceeds the cap only by tunnels that outlived the session |
| `ReceiptExactHolds` | where no tunnel outlived the session, the charge states all of its bytes (`ReceiptExact`) |

The bound on the bytes is not inductive: it must say who can still add. `SlotInv`
equates the slot counter with the threads that are between `gate` and `closing`;
`CapInv` bounds the counter by the cap and the threads that stand at `over` until
the flag is set, and afterwards by the tunnels that are still open; `LateInv` keeps
that account for the time after the proxy was stopped. `StandingMove` says how a
step of one thread changes each count.

### OracleDaemonProofs
*Assumption*: `OracleAssumption` (the bounds are numbers, `None` is no request).

| Theorem | Says |
|---|---|
| `TypeCorrect` | `TypeOK` |
| `Remembered` | what the cache holds is fulfilled on chain (`RememberedIsFulfilled`) |
| `Duplicates` | a second fulfilment takes a fault (`DuplicatesNeedFaults`) |
| `SettledStays` | as long as the cache file loads, a request in it is never run, charged or fulfilled again (`SettledStaysSettled`) |

`CacheInv` ties cache, file and mempool to the place in the loop: what is waited for is not
remembered, what is remembered is not pending. That a second fulfilment takes a fault
needs an account of every request (`DebtInv`): fulfilments, with the one that is pending,
are at most the faults, and one more while the daemon still learns of it. Each action moves
both sides together, and a crash or a load that fails pays for what it forgets. A daemon that
a request kills owes nothing: the error is raised while nothing is submitted, and what was
not saved by then was paid for when the save failed.

### AdmissionProofs
*Assumption*: `AdmissionAssumption` (lower case of lower case is itself, the special
values differ from what they stand beside). Any number of copies, policies, edits,
records and deaths.

| Theorem | Says |
|---|---|
| `TypeCorrect` | `TypeOK` |
| `PolicyIsTheOwners` | an accepted package declares what its owner declared last (`AdmittedAsDeclared`) |
| `AcceptedAsCharged` | and what its latest charge binds, or the digest was carried over (`AdmittedAsCharged`) |
| `MigrationEnds` | when `migrate-net` answers ok, the package is accepted without its help (`MigrationStandsAlone`) |

`AdmittedAsDeclared` speaks of accepted packages, and a step cannot rely on it: a package
in the middle of a migration is refused, and accepted again when `net.json` is gone.
`OwnerInv` says it of every package in every state: what the files declare is what the
owner declared, whether or not the validator accepts. It survives the four writes of a
migration because the manifest declares before `net.json` is removed (`JobInv` at
`unlink`). At `gate`, `JobInv` says that the old digest is the last thing the ledger
holds, or that the ledger does not parse and the validator reads it as empty; so the
digest that the gate lends (`GateNeedsNoHelp`) is evidence the ledger has. That a ledger
with charges has a latest one is `LatestIsCharge`, from the well-foundedness of `<`.

### ModuleRegistryProofs
*Assumption*: `RegistryAssumption` (the CPU limits are values of the limit, what is
written and asked is of the right shape, the special values differ).

| Theorem | Says |
|---|---|
| `TypeCorrect` | `TypeOK` |
| `FilesStayWhole` | no death of a tool leaves a torn registry or backup (`FilesWhole`) |
| `RefusedCostsNothing` | a limit out of range and bytes that are too large are charged nothing; what is refused behind the charge is the failure of the run or of what follows (`RefusedUncharged`) |
| `FulfilmentCoversRun` | the snapshot of a fulfilment covers its session, unless a run that had read an older counter was still to write it back (`SnapshotCoversRun`) |
| `RunsWhatWasLoaded` | a request runs what the relayer loaded (`ServedAsLoaded`) |

The properties speak of a finished answer; `ServeInv` says what the relayer knows before:
what `Refusal` checked stays true while the request runs because nothing replaces the
loaded registry under it. Between the run and the export the package's counter is not below
the session that was billed, and every other run under way has read a counter that is not
below it either, or else it was there when the counter was written (`older`). `WholeInv` adds the temporary files: torn ones are not renamed,
because the tool that tore one is gone.

### SequenceLemmas and EvidenceProofs
*Assumption*: `ReadersAssumption` (`Torn` and `Junk` are no records, what is asked for is of
the shape of a record). Any requests, any foreign edits, ledgers of any length.

| Theorem | Says |
|---|---|
| `LegalWrites` | a file that the program alone wrote is a chain, passes the gates, and passes every reader but for the three kinds of records that are named (`LegalWritesVerify`) |
| `VerdictCovers` | a reported head is the tip of a verified beginning (`VerdictCoversPrefix`) |
| `HeadBindsHistory` | a reader finds a head that is held on no other records (`HeldHeadBindsHistory`) |
| `BrokenStays` | no append heals a file that a reader refused (`BrokenStaysBroken`) |
| `DocInvariant` | what the gates behind have seen, and where a GREEN came from |
| `Grounded` | GREEN stands for pieces that were looked at and were right (`GreenIsGrounded`) |

Heads bind the past because a digest holds, place by place, the records it commits to
(`ChainDigest`). The claim is about every prefix of a chain, so it is an induction, which
`SequenceLemmas` states over a set of numbers (`Induction`, from the well-foundedness of
`<`) because the library's theorems take an operator. `Beginning(log, head)` says that
`head` commits to the first records of `log`; `ReaderInv` carries it from one read of a
reader to the next, as long as nobody but the program writes (`calm`), and `HeldInv` to
the counterparty. `SelectionKeeps` is what the bundle's copy returns: the lines of the
beginning it verified come first.

The tools that answer for a document are proved in two parts. The first is about any table
of gates: `GreenIsGrounded` speaks of the end of a run, so `DocInv` says what holds at every
gate. A gate that was passed has seen its piece in a state it does not speak of
(`PassedInv`); a piece of a source that is not taken up again behind the gate is still held
as it was seen (`LastingInv`), which is needed where two gates look at one piece, as at the
signature of a time stamp; GREEN came from a gate that says so or from the end of the table
(`GreenInv`); and where sources are taken up once, what was looked at is of the version that
is held (`VersionInv`). The steps keep this if no source is taken up again behind a gate that
depends on it (`Sound`). The second part is about the twenty tables: each is `Sound`, and from
`DocInv` each promise of `Stands` follows (`Founded`): all gates were passed, or one that says
GREEN spoke, and then the pieces it stands for are tested before it (`Preceded`). Tables
are put together with `\o`, so `SequenceLemmas` first says of what a concatenation is made,
and in which order.

### Only model-checked
- Liveness (`SessionEnds`, `KeepsPolling`, `EveryFetchedIsAnswered`) and everything with
  `ENABLED` in it is outside of the prover.
- The properties of the runs that expect a violation are false.

## 6. Abstractions, and what is left out

- Hashes are injective, signatures and encryption open what was sealed. A
  canonicalisation or hash that collides is outside of these models.
- A torn line is one that does not parse, wherever in the line the write was cut; a line that
  lacks only its newline is a record (`open`), until the next append joins it.
- `MayStart` and `Concurrent` are assumptions about deployments. Two processes on one
  package share no lock, and nothing here holds for them.
- Evidence files, fees, metering and proofs of execution are present as far as a
  property reads them: the output a charge was computed from, and the session.
- A trust policy is a set of accepted signers per node (`Trusted`).
- Traffic comes in chunks; endpoints, TLS and HTTP are outcomes of a request.
- The contract is a chain that accepts, reverts or never mines a fulfilment.
- The `--supersedes` check, oversize notes and failing metering are the RED branch of
  `RunRefused` and `RunExec` without their conditions.
- In `DocumentChecks` a piece of a document is right, wrong, absent or unknown. How a
  hash, a signature, a DER structure or a number is computed is not modelled, and two
  pieces that the code reads from one field may fail independently. What the models
  keep is the order of the gates, which source each of them reads and when, and which
  states stop, withhold or let pass.
- `LedgerReaders` has one writer at a time; threads are `PackageNode`'s subject. A
  record's text is five facts (operation, shape, length, separator, numbers), and numbers
  are exact, wide or unwritable.
- In `Admission` one command is under way at a time on all copies (they share finished
  snapshots only), ledgers hold charges and migration records, and seeds are right.
- In `OracleDaemon` a request is poisonous or endless for good: a manifest that comes back
  between two restarts is one that fails less often.
- `ModuleRegistry` has one tool and one relayer. Of a run it keeps the session counter, read
  and written back; what two runs at once do to the ledger is outside (`MayStart`). A hash is not compared with the code
  of the package (nor by the code), and limits other than the CPU limit are in range.

### Not modelled

- Canonical JSON, Keccak, the DER and elliptic-curve code of the time-stamp and
  attestation verifiers: computations over bytes and numbers beyond the reach of a
  model checker.
- `tamga_bootstrap.py`: one download into a cache before anything else runs.
- `keygen`, `quickstart`, `ledger`, `ledger-verify-batch`: sequences of modelled commands
  on a fresh package, or output.
- The request loop of the MCP server: it keeps nothing between calls.
- Demos, CI gates, format converters and repository scanners: no state of their own.

## 7. Plan

The state machines are in place, and every safety and action property of the passing runs
is proved. What is left:

1. The hypotheses of `PackageHistoryProofs`: `ChargesInOrder` for several packages as long
   as no import dies, which needs an account of the deaths by command.
