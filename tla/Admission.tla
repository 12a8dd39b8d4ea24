----------------------------- MODULE Admission -----------------------------
(***************************************************************************)
(* Which packages a command accepts: tamga_validator.validate, which every *)
(* run, export and import starts with, the two places a network            *)
(* declaration can live in (net.json and the manifest's runtime.net), and  *)
(* migrate-net, which moves it from the one to the other in four writes.   *)
(*                                                                         *)
(* A charge binds the declaration its session ran under by a digest (D12). *)
(* The validator compares the digest of the latest charge with the         *)
(* declaration that is active now, so that a change after the run is RED.  *)
(*                                                                         *)
(* Abstracted: a declaration is a sequence of endpoints, its two numbers   *)
(* are in range; ledgers hold charges and migrate-net records only, and    *)
(* their chain is intact when every line parses (LedgerChain); seeds are   *)
(* the right ones; agent.wasm is the one that was signed; names resolve,   *)
(* except where a run says otherwise (a validator that cannot resolve a    *)
(* name refuses once more, and changes nothing).                           *)
(***************************************************************************)
EXTENDS Naturals, Sequences, FiniteSets, SequencesExt

CONSTANTS
  Copies,      \* package directories with the same name, code and author
  Policies,    \* declarations as they are written: sequences of endpoints
  Canonical,   \* lower-case form of an endpoint (a function)
  FaultSets,   \* sets of schema faults a manifest may be signed with
  MaxEdits, MaxRecords, MaxCrashes,
  None, Partial

(***************************************************************************)
(* The places of the manifest in the order in which the schema block looks *)
(* at them: unknown fields of the root, required fields, then field by     *)
(* field, where code is below package, limits and net below runtime.       *)
(***************************************************************************)
Required == <<"spec_version", "package", "runtime", "memory", "capabilities", "signature">>
Fields   == <<"spec_version", "package", "code", "runtime", "limits", "net", "memory",
              "capabilities", "payment", "signature">>
Place(of, missing) == [of |-> of, missing |-> missing]
Places   == <<Place("root", FALSE)>>
              \o [i \in DOMAIN Required |-> Place(Required[i], TRUE)]
              \o [i \in DOMAIN Fields |-> Place(Fields[i], FALSE)]
Fault    == [at : DOMAIN Places, unknown : BOOLEAN]

(***************************************************************************)
(* The same declaration has three digests: of the bytes of net.json, of    *)
(* its canonical JSON with the format key, of the runtime.net subtree.  A  *)
(* file that is canonical JSON itself has the second one.                  *)
(***************************************************************************)
Normal(p)   == [i \in DOMAIN p |-> Canonical[p[i]]]
Digest      == [form : {"bytes", "shape", "subtree"}, of : Policies]
FileDigest(b)    == [form |-> IF b.jcs THEN "shape" ELSE "bytes", of |-> b.policy]
SubtreeDigest(p) == [form |-> "subtree", of |-> p]
ShapeDigest(p)   == [form |-> "shape", of |-> p]

Bridge   == [policy : Policies, jcs : BOOLEAN]
Manifest == [net : Policies \cup {None}, faults : SUBSET Fault, signed : BOOLEAN]
Record   == [op : {"charge", "migrate-net"}, net : Digest \cup {None}]

ASSUME AdmissionAssumption ==
  /\ FaultSets \subseteq SUBSET Fault
  /\ \A p \in Policies : Normal(p) \in Policies /\ Normal(Normal(p)) = Normal(p)
  /\ None \notin Policies \cup Digest \cup Bridge \cup Record
  /\ Partial \notin Manifest
  /\ MaxEdits \in Nat /\ MaxCrashes \in Nat

VARIABLES
  manifest,  \* manifest[c]: tamga.json, or Partial when it was cut
  bridge,    \* bridge[c]: net.json, or None
  log,       \* log[c]: the records of ledger.jsonl that parse
  junk,      \* junk[c]: ledger.jsonl holds a line that does not parse
  snap,      \* the ledger in the snapshot that was exported last, or None
  job,       \* the command that is under way, where, and the digest it holds
  owner,     \* owner[c]: the policy the package's owner declared last
  edits, crashes

files == <<manifest, bridge, log, junk>>
vars  == <<manifest, bridge, log, junk, snap, job, owner, edits, crashes>>

(***************************************************************************)
(* One command at a time: commands on different copies touch different     *)
(* files and meet in finished snapshots only.                              *)
(***************************************************************************)
Idle == [at |-> None, pc |-> "idle", bound |-> None]
Job  == [at : Copies \cup {None}, bound : Digest \cup {None},
         pc : {"idle", "declare", "charge", "unlink", "evidence", "gate"}]

-----------------------------------------------------------------------------
(***************************************************************************)
(* The schema block collects its complaints in the order of Places and     *)
(* answers by the first one; at each place unknown fields come first.      *)
(***************************************************************************)
SchemaVerdict(faults) ==
  LET first == Min({f.at : f \in faults})
      place == Places[first]
      named == ~place.missing /\ place.of # "root"
  IN  IF faults = {} THEN "ok"
      ELSE IF place.of = "spec_version" THEN "unsupported_spec_version"
      ELSE IF place.of = "capabilities" THEN "unknown_capability"
      ELSE IF named /\ [at |-> first, unknown |-> TRUE] \in faults THEN "unknown_field"
      ELSE "schema_violation"

\* The strict gate: endpoints differ once they are normalised.
StrictGate(p) == IsInjective(Normal(p))

Charges(records) == {i \in DOMAIN records : records[i].op = "charge"}
Latest(records)  == CHOOSE i \in Charges(records) : \A j \in Charges(records) : j <= i

\* One unparsable line, and the validator reads the ledger as empty.
Readable(c) == IF junk[c] THEN << >> ELSE log[c]

\* Digests that migrate-net records behind the latest charge carry over.
Evidence(records) ==
  {records[i].net : i \in {j \in DOMAIN records : /\ j > Latest(records)
                                                  /\ records[j].op = "migrate-net"}}

Accepted(c, prior) ==
  prior \cup Evidence(Readable(c))
    \cup (IF bridge[c] = None THEN {} ELSE {FileDigest(bridge[c])})
    \cup (IF manifest[c].net = None THEN {}
          ELSE {SubtreeDigest(manifest[c].net), ShapeDigest(manifest[c].net)})

\* Mutated form: a ledger that binds a declaration nobody makes is let pass.
BindingVerdictSilent(c, prior) ==
  LET records == Readable(c)
      bound   == records[Latest(records)].net
  IN  IF Charges(records) = {} \/ (bridge[c] = None /\ manifest[c].net = None) THEN "ok"
      ELSE IF bound \notin Accepted(c, prior) THEN "net_binding_mismatch"
      ELSE "ok"

(***************************************************************************)
(* D12: the digest in the latest charge is one of the active declaration.  *)
(***************************************************************************)
BindingVerdict(c, prior) ==
  LET records == Readable(c)
      bound   == records[Latest(records)].net
      silent  == bridge[c] = None /\ manifest[c].net = None
  IN  IF Charges(records) = {} THEN "ok"
      ELSE IF silent # (bound = None) THEN "net_binding_missing"
      ELSE IF ~silent /\ bound \notin Accepted(c, prior) THEN "net_binding_mismatch"
      ELSE "ok"

Validate(c, prior) ==
  IF manifest[c] = Partial THEN "parse_error"
  ELSE IF SchemaVerdict(manifest[c].faults) # "ok" THEN SchemaVerdict(manifest[c].faults)
  ELSE IF bridge[c] # None /\ manifest[c].net # None THEN "net_decl_ambiguous"
  ELSE IF BindingVerdict(c, prior) # "ok" THEN BindingVerdict(c, prior)
  ELSE IF bridge[c] # None /\ ~StrictGate(bridge[c].policy) THEN "net_decl_reject"
  ELSE IF ~manifest[c].signed THEN "signature_invalid"
  ELSE "ACCEPT"

Admitted(c) == Validate(c, {}) = "ACCEPT"

\* What the package declares now, whichever the source.
Declared(m, b) ==
  IF m # Partial /\ m.net # None THEN Normal(m.net)
  ELSE IF b # None THEN Normal(b.policy) ELSE None

-----------------------------------------------------------------------------
Init ==
  /\ manifest = [c \in Copies |-> [net |-> None, faults |-> {}, signed |-> TRUE]]
  /\ \E b \in {None} \cup Bridge : bridge = [c \in Copies |-> b]
  /\ log = [c \in Copies |-> << >>]
  /\ junk = [c \in Copies |-> FALSE]
  /\ snap = None
  /\ job = Idle
  /\ owner = [c \in Copies |-> Declared(manifest[c], bridge[c])]
  /\ edits = 0 /\ crashes = 0

At(c, pc) == job.at = c /\ job.pc = pc
Goto(c, pc, bound) == job' = [at |-> c, pc |-> pc, bound |-> bound]
End == job' = Idle

(***************************************************************************)
(* The owner edits a file between commands or while an agent runs; a       *)
(* manifest is signed again, or it is not.                                 *)
(***************************************************************************)
Edit(c) ==
  /\ edits < MaxEdits /\ (job = Idle \/ At(c, "declare") \/ At(c, "charge"))
  /\ \/ /\ \E b \in {None} \cup Bridge : bridge' = [bridge EXCEPT ![c] = b]
        /\ UNCHANGED manifest
     \/ /\ \/ \E p \in {None} \cup Policies :
                manifest' = [manifest EXCEPT ![c] =
                               [net |-> p, faults |-> {}, signed |-> TRUE]]
           \/ /\ manifest[c] # Partial
              /\ \/ manifest' = [manifest EXCEPT ![c].signed = FALSE]
                 \/ \E f \in FaultSets : manifest' = [manifest EXCEPT ![c].faults = f]
        /\ UNCHANGED bridge
  /\ owner' = [owner EXCEPT ![c] = Declared(manifest'[c], bridge'[c])]
  /\ edits' = edits + 1
  /\ UNCHANGED <<log, junk, snap, job, crashes>>

\* O_APPEND: behind a line that does not parse nothing is read any more.
AppendTo(c, rec) == log' = [log EXCEPT ![c] = IF junk[c] THEN @ ELSE Append(@, rec)]

(***************************************************************************)
(* run validates, reads the declaration once more for the proxy, lets the  *)
(* agent run, and appends the charge with the digest it read then.         *)
(***************************************************************************)
RunAdmit(c) ==
  /\ job = Idle /\ Len(log[c]) < MaxRecords
  /\ Admitted(c)
  /\ Goto(c, "declare", None)
  /\ UNCHANGED <<files, snap, owner, edits, crashes>>

RunDeclare(c) ==
  /\ At(c, "declare")
  /\ LET m == IF manifest[c] = Partial THEN None ELSE manifest[c].net
         b == bridge[c]
     IN  \/ m = None /\ b = None /\ Goto(c, "charge", None)
         \/ /\ m = None /\ b # None /\ StrictGate(b.policy)
            /\ Goto(c, "charge", FileDigest(b))
         \/ /\ m # None /\ b = None /\ StrictGate(m)
            /\ Goto(c, "charge", SubtreeDigest(m))
         \/ /\ \/ m # None /\ b # None
               \/ m # None   \* refused by the strict gate, or a name
               \/ b # None   \* that resolved before does not now
            /\ End
  /\ UNCHANGED <<files, snap, owner, edits, crashes>>

RunCharge(c) ==
  /\ At(c, "charge")
  /\ AppendTo(c, [op |-> "charge", net |-> job.bound])
  /\ End
  /\ UNCHANGED <<manifest, bridge, junk, snap, owner, edits, crashes>>

-----------------------------------------------------------------------------
(***************************************************************************)
(* migrate-net: the manifest is written and signed, net.json is removed,   *)
(* the evidence goes into the ledger, and the result is validated.  The    *)
(* package is not validated before.                                        *)
(***************************************************************************)
MayMigrate(c) ==
  /\ job = Idle /\ Len(log[c]) < MaxRecords
  /\ manifest[c] # Partial /\ manifest[c].net = None
  /\ bridge[c] # None /\ StrictGate(bridge[c].policy)

Migrated(c) == [manifest[c] EXCEPT !.net = Normal(bridge[c].policy), !.signed = TRUE]

\* Mutated form: net.json is removed before the manifest is written.
MigrateWriteUnlinked(c) ==
  /\ MayMigrate(c)
  /\ bridge' = [bridge EXCEPT ![c] = None]
  /\ Goto(c, "unlink", FileDigest(bridge[c]))
  /\ UNCHANGED <<manifest, log, junk, snap, owner, edits, crashes>>

MigrateWrite(c) ==
  /\ MayMigrate(c)
  /\ manifest' = [manifest EXCEPT ![c] = Migrated(c)]
  /\ Goto(c, "unlink", FileDigest(bridge[c]))
  /\ UNCHANGED <<bridge, log, junk, snap, owner, edits, crashes>>

MigrateUnlink(c) ==
  /\ At(c, "unlink")
  /\ bridge' = [bridge EXCEPT ![c] = None]
  /\ Goto(c, "evidence", job.bound)
  /\ UNCHANGED <<manifest, log, junk, snap, owner, edits, crashes>>

\* Mutated form: the record carries the new digest, not the old one.
MigrateEvidenceNew(c) ==
  /\ At(c, "evidence")
  /\ AppendTo(c, [op |-> "migrate-net", net |-> SubtreeDigest(manifest[c].net)])
  /\ Goto(c, "gate", job.bound)
  /\ UNCHANGED <<manifest, bridge, junk, snap, owner, edits, crashes>>

\* Mutated form: an op that no reader knows.
MigrateEvidenceOther(c) ==
  /\ At(c, "evidence")
  /\ AppendTo(c, [op |-> "migrate", net |-> job.bound])
  /\ Goto(c, "gate", job.bound)
  /\ UNCHANGED <<manifest, bridge, junk, snap, owner, edits, crashes>>

MigrateEvidence(c) ==
  /\ At(c, "evidence")
  /\ AppendTo(c, [op |-> "migrate-net", net |-> job.bound])
  /\ Goto(c, "gate", job.bound)
  /\ UNCHANGED <<manifest, bridge, junk, snap, owner, edits, crashes>>

\* The gate knows the old digest even when the ledger does not.
MigrateAccepts(c) == At(c, "gate") /\ Validate(c, {job.bound}) = "ACCEPT"

MigrateGate(c) ==
  /\ At(c, "gate")
  /\ End
  /\ UNCHANGED <<files, snap, owner, edits, crashes>>

-----------------------------------------------------------------------------
(***************************************************************************)
(* A snapshot carries the ledger; an import validates the package before   *)
(* it looks at the ledger, and installs a ledger only where there is none. *)
(***************************************************************************)
Export(c) ==
  /\ job = Idle /\ Admitted(c) /\ ~junk[c]
  /\ snap' = log[c]
  /\ UNCHANGED <<files, job, owner, edits, crashes>>

Import(c) ==
  /\ job = Idle /\ snap # None /\ snap # << >>
  /\ Admitted(c) /\ ~junk[c] /\ log[c] = << >>
  /\ log' = [log EXCEPT ![c] = snap]
  /\ UNCHANGED <<manifest, bridge, junk, snap, job, owner, edits, crashes>>

-----------------------------------------------------------------------------
(***************************************************************************)
(* A command dies: between its steps, while it writes the manifest, or     *)
(* while it appends.                                                       *)
(***************************************************************************)
Crash(c) ==
  /\ crashes < MaxCrashes /\ job.at = c
  /\ End /\ crashes' = crashes + 1
  /\ \/ junk' = junk
     \/ job.pc \in {"charge", "evidence"} /\ junk' = [junk EXCEPT ![c] = TRUE]
  /\ UNCHANGED <<manifest, bridge, log, snap, owner, edits>>

CrashInManifest(c) ==
  /\ crashes < MaxCrashes /\ MayMigrate(c)
  /\ manifest' = [manifest EXCEPT ![c] = Partial]
  /\ crashes' = crashes + 1
  /\ UNCHANGED <<bridge, log, junk, snap, job, owner, edits>>

Migrate(c) == MigrateWrite(c) \/ MigrateUnlink(c) \/ MigrateEvidence(c) \/ MigrateGate(c)
Run(c)     == RunAdmit(c) \/ RunDeclare(c) \/ RunCharge(c)

Next ==
  \E c \in Copies : \/ Edit(c) \/ Run(c) \/ Migrate(c) \/ Export(c) \/ Import(c)
                    \/ Crash(c) \/ CrashInManifest(c)

Spec == Init /\ [][Next]_vars

-----------------------------------------------------------------------------
(* Every variable stays in its domain.                                     *)
TypeOK ==
  /\ manifest \in [Copies -> Manifest \cup {Partial}]
  /\ bridge \in [Copies -> Bridge \cup {None}]
  /\ log \in [Copies -> Seq(Record)]
  /\ snap = None \/ snap \in Seq(Record)
  /\ junk \in [Copies -> BOOLEAN]
  /\ job \in Job
  /\ owner \in [Copies -> Policies \cup {None}]
  /\ edits \in 0..MaxEdits /\ crashes \in 0..MaxCrashes

(***************************************************************************)
(* No command changes the policy of an accepted package: at every moment,  *)
(* also after a death in the middle of a migration, a package is either    *)
(* refused or declares what its owner declared last.                       *)
(***************************************************************************)
AdmittedAsDeclared ==
  \A c \in Copies : Admitted(c) => Declared(manifest[c], bridge[c]) = owner[c]

(***************************************************************************)
(* An accepted package with a readable ledger runs under the policy that   *)
(* its latest charge binds, except between a migration and the next        *)
(* charge, where the old digest is carried over.                           *)
(***************************************************************************)
BoundPolicy(c) ==
  LET bound == log[c][Latest(log[c])].net
  IN  IF bound = None THEN None ELSE Normal(bound.of)

AdmittedAsCharged ==
  \A c \in Copies :
    Admitted(c) /\ ~junk[c] /\ Charges(log[c]) # {} =>
      \/ Declared(manifest[c], bridge[c]) = BoundPolicy(c)
      \/ log[c][Latest(log[c])].net \in Evidence(log[c])

(***************************************************************************)
(* A migration that ends with ok leaves a package that is accepted without *)
(* its help: the validator finds the old digest in the ledger.             *)
(***************************************************************************)
MigrationStandsAlone ==
  [][\A c \in Copies :
       MigrateAccepts(c) /\ job' = Idle /\ crashes' = crashes => Admitted(c)']_vars

(***************************************************************************)
(* What the validator promises ("What the gate must still catch: a         *)
(* post-run CHANGE of policy content"): an accepted package declares what  *)
(* its latest charge binds.                                                *)
(***************************************************************************)
PolicyChangeCaught ==
  \A c \in Copies :
    Admitted(c) /\ ~junk[c] /\ Charges(log[c]) # {} =>
      Declared(manifest[c], bridge[c]) = BoundPolicy(c)
=============================================================================
