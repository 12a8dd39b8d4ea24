--------------------------- MODULE ModuleRegistry ---------------------------
(***************************************************************************)
(* The registry of modules (reg.json), its backup and restore by the       *)
(* runner, and the relayer that loads it once at its start and executes    *)
(* requests by it: tamga_runner.cmd_registry_backup, cmd_registry_restore, *)
(* and load_registry ... execute_request of tamga_oracle_relayer.  The     *)
(* relayer is a daemon, which is handed the bytes of an input, or a        *)
(* run-request, which serves one request whose input is a file.            *)
(*                                                                         *)
(* Operators edit the registry and authors upgrade packages while the      *)
(* relayer holds the registry it loaded.  Backup and restore write a       *)
(* temporary file and rename it; a process can die in the middle.  A run   *)
(* reads the session counter before the agent and writes it back behind    *)
(* it, and so does every other run of the same package meanwhile.          *)
(*                                                                         *)
(* Abstracted: the chain (OracleDaemon), what a run does to its package    *)
(* beyond the session it charges (PackageNode), imports, the fields of a   *)
(* payload apart from the session and the module it names.                 *)
(***************************************************************************)
EXTENDS Naturals, FiniteSets

CONSTANTS
  Modules,    \* module hashes
  Packages,   \* package directories
  Cpus,       \* values of cpu_ms_per_run and maxCpuMsAllowed
  CpuMin, CpuMax,
  Written,    \* the registries the operator writes
  Asked,      \* the requests the chain and the operators bring
  Settings,   \* how the relayer is started
  MaxSession, MaxEdits, MaxCrashes,
  MaxOthers,  \* other runs of a package under way at a time
  None, Absent, Torn

Entry    == [pkg : Packages, cpu : Cpus, sized : BOOLEAN]
Registry == [mods : UNION {[S -> Entry] : S \in SUBSET Modules}, notes : BOOLEAN]
File     == Registry \cup {Absent, Torn}
Names    == {"reg", "bak", "reg.tmp", "bak.tmp"}
Package  == [there : BOOLEAN, cpu : Cpus, ses : 0..MaxSession]
\* path: the input is a file; fits: it is within the entry's max_input_bytes.
Request  == [asks : Modules, cpu : Cpus, path : BOOLEAN, fits : BOOLEAN]
Setting  == [daemon : BOOLEAN, secret : {"none", "known", "own"}]

ASSUME RegistryAssumption ==
  /\ Cpus \subseteq Nat /\ CpuMin \in Nat /\ CpuMax \in Nat
  /\ CpuMin <= CpuMax /\ CpuMin..CpuMax \subseteq Cpus
  /\ MaxSession \in Nat /\ MaxEdits \in Nat /\ MaxCrashes \in Nat /\ MaxOthers \in Nat
  /\ Written \subseteq Registry /\ Asked \subseteq Request /\ Settings \subseteq Setting
  /\ {Absent, Torn, None} \cap Registry = {} /\ Absent # Torn /\ None \notin Packages

VARIABLES
  disk,     \* disk[f]: the registry, its backup and their temporary files
  pkg,      \* pkg[p]: the directory, its code and limit, its last session
  others,   \* others[p]: the sessions read by other runs of p under way
  tool,     \* the backup or restore under way
  loaded,   \* the registry the relayer holds, or None while it is down
  how,      \* daemon or run-request, and the ledger secret it was given
  serve,    \* the request the relayer executes
  answer,   \* how the last request ended, or None
  cut,      \* an editor died while it wrote reg.json
  edits, crashes

vars == <<disk, pkg, others, tool, loaded, how, serve, answer, cut, edits, crashes>>

NoTool  == [pc |-> "idle"]
NoServe == [pc |-> "idle", req |-> None, ran |-> None, ses |-> 0, snap |-> 0,
            paid |-> FALSE, older |-> FALSE]
Reasons == {"module_not_found", "manifest_unreadable", "registry_invalid", "cpu_ms_out_of_range",
            "input_too_large", "run_failed", "output_proof_mismatch",
            "export_failed", "insecure_secret", "ledger_unavailable", "fulfilled"}

-----------------------------------------------------------------------------
\* Mutated form: any file is a registry.
LoadsAnything(file) == TRUE

(***************************************************************************)
(* load_registry: keys with an underscore are notes for readers; what is   *)
(* left must be entries that are complete, in range, and of a directory.   *)
(***************************************************************************)
Loads(file) ==
  /\ file \notin {Absent, Torn}
  /\ DOMAIN file.mods # {}
  /\ \A m \in DOMAIN file.mods :
       LET e == file.mods[m]
       IN  e.sized /\ e.cpu \in CpuMin..CpuMax /\ pkg[e.pkg].there

(***************************************************************************)
(* What restore asks of a backup before it installs it: an object whose    *)
(* values all are entries with a path and a limit.  A note is not one.     *)
(***************************************************************************)
LooksRestorable(file) ==
  file \notin {Absent, Torn} /\ DOMAIN file.mods # {} /\ ~file.notes

Init ==
  /\ \E r \in Written : disk = [f \in Names |-> IF f = "reg" THEN r ELSE Absent]
  /\ pkg = [p \in Packages |-> [there |-> TRUE, ses |-> 0, cpu |-> CpuMin]]
  /\ others = [p \in Packages |-> {}] /\ how \in Settings
  /\ tool = NoTool /\ loaded = None /\ serve = NoServe /\ answer = None
  /\ cut = FALSE /\ edits = 0 /\ crashes = 0

-----------------------------------------------------------------------------
(***************************************************************************)
(* registry-backup copies reg.json to a temporary file and renames it.  It *)
(* does not ask whether the registry loads.                                *)
(***************************************************************************)
Step(pc) == tool' = [pc |-> pc]

\* Mutated form: the backup is written in place.
BackupWriteInPlace ==
  /\ tool = NoTool /\ disk["reg"] # Absent
  /\ \/ disk' = [disk EXCEPT !["bak"] = disk["reg"]] /\ UNCHANGED crashes
     \/ /\ crashes < MaxCrashes /\ crashes' = crashes + 1
        /\ disk' = [disk EXCEPT !["bak"] = Torn]
  /\ UNCHANGED <<pkg, others, tool, loaded, how, serve, answer, cut, edits>>

BackupWrite ==
  /\ tool = NoTool /\ disk["reg"] # Absent
  /\ \/ /\ disk' = [disk EXCEPT !["bak.tmp"] = disk["reg"]]
        /\ Step("backup") /\ UNCHANGED crashes
     \/ /\ crashes < MaxCrashes /\ crashes' = crashes + 1
        /\ disk' = [disk EXCEPT !["bak.tmp"] = Torn] /\ UNCHANGED tool
  /\ UNCHANGED <<pkg, others, loaded, how, serve, answer, cut, edits>>

BackupRename ==
  /\ tool.pc = "backup"
  /\ disk' = [disk EXCEPT !["bak"] = disk["bak.tmp"], !["bak.tmp"] = Absent]
  /\ tool' = NoTool
  /\ UNCHANGED <<pkg, others, loaded, how, serve, answer, cut, edits, crashes>>

(***************************************************************************)
(* registry-restore reads and checks the backup, installs it in the same   *)
(* way, and then loads what it has installed: the answer is GREEN or RED,  *)
(* and what was installed stays in both cases.                             *)
(***************************************************************************)
RestoreWrite ==
  /\ tool = NoTool /\ LooksRestorable(disk["bak"])
  /\ \/ /\ disk' = [disk EXCEPT !["reg.tmp"] = disk["bak"]]
        /\ Step("rename") /\ UNCHANGED crashes
     \/ /\ crashes < MaxCrashes /\ crashes' = crashes + 1
        /\ disk' = [disk EXCEPT !["reg.tmp"] = Torn] /\ UNCHANGED tool
  /\ UNCHANGED <<pkg, others, loaded, how, serve, answer, cut, edits>>

RestoreRename ==
  /\ tool.pc = "rename"
  /\ disk' = [disk EXCEPT !["reg"] = disk["reg.tmp"], !["reg.tmp"] = Absent]
  /\ Step("verify")
  /\ UNCHANGED <<pkg, others, loaded, how, serve, answer, cut, edits, crashes>>

RestoreVerify ==
  /\ tool.pc = "verify"
  /\ tool' = NoTool
  /\ UNCHANGED <<disk, pkg, others, loaded, how, serve, answer, cut, edits, crashes>>

ToolDies ==
  /\ tool # NoTool /\ crashes < MaxCrashes
  /\ crashes' = crashes + 1 /\ tool' = NoTool
  /\ UNCHANGED <<disk, pkg, others, loaded, how, serve, answer, cut, edits>>

-----------------------------------------------------------------------------
(***************************************************************************)
(* The operator rewrites or loses reg.json, and an author changes the      *)
(* package in place: a new limit, or the directory goes away.  The hash    *)
(* that a request names is not compared with the code that is there.       *)
(***************************************************************************)
EditRegistry ==
  /\ edits < MaxEdits /\ edits' = edits + 1
  /\ \/ \E r \in Written \cup {Absent} : disk' = [disk EXCEPT !["reg"] = r] /\ UNCHANGED cut
     \/ disk' = [disk EXCEPT !["reg"] = Torn] /\ cut' = TRUE
  /\ UNCHANGED <<pkg, others, tool, loaded, how, serve, answer, crashes>>

ChangePackage(p) ==
  /\ edits < MaxEdits /\ edits' = edits + 1
  /\ \/ pkg' = [pkg EXCEPT ![p].there = ~@]
     \/ \E c \in CpuMin..CpuMax : pkg' = [pkg EXCEPT ![p].cpu = c]
  /\ UNCHANGED <<disk, others, tool, loaded, how, serve, answer, cut, crashes>>

(***************************************************************************)
(* Others run the package: cmd_run reads the counter, and behind the agent *)
(* it writes back what it read plus one, whatever stands there by then; or *)
(* it fails before.                                                        *)
(***************************************************************************)
OtherLoads(p) ==
  /\ pkg[p].there /\ pkg[p].ses < MaxSession /\ Cardinality(others[p]) < MaxOthers
  /\ others' = [others EXCEPT ![p] = @ \cup {pkg[p].ses}]
  /\ UNCHANGED <<disk, pkg, tool, loaded, how, serve, answer, cut, edits, crashes>>

OtherSaves(p) ==
  /\ \E n \in others[p] :
       /\ others' = [others EXCEPT ![p] = @ \ {n}]
       /\ \/ pkg[p].there /\ n < MaxSession /\ pkg' = [pkg EXCEPT ![p].ses = n + 1]
          \/ UNCHANGED pkg
  /\ UNCHANGED <<disk, tool, loaded, how, serve, answer, cut, edits, crashes>>

-----------------------------------------------------------------------------
Start ==
  /\ loaded = None /\ Loads(disk["reg"])
  /\ loaded' = disk["reg"] /\ how' \in Settings
  /\ UNCHANGED <<disk, pkg, others, tool, serve, answer, cut, edits, crashes>>

\* The relayer dies; a runner it has started goes on without it.
Stop ==
  /\ loaded # None /\ crashes < MaxCrashes
  /\ crashes' = crashes + 1 /\ loaded' = None /\ serve' = NoServe
  /\ others' = IF serve.pc = "running"
               THEN [others EXCEPT ![serve.ran] = @ \cup {serve.ses - 1}] ELSE others
  /\ UNCHANGED <<disk, pkg, tool, how, answer, cut, edits>>

\* A request ends; a run-request has no other.
Answer(reason) ==
  /\ answer' = [req |-> serve.req, reason |-> reason, ran |-> serve.ran, ses |-> serve.ses,
                snap |-> serve.snap, paid |-> serve.paid, older |-> serve.older]
  /\ serve' = NoServe
  /\ loaded' = IF how.daemon THEN loaded ELSE None

\* Mutated form: the registry file is consulted per request.
EntryOfFile(m) ==
  LET now == disk["reg"]
  IN  IF now \in Registry /\ m \in DOMAIN now.mods THEN now.mods[m] ELSE loaded.mods[m]

\* resolve_module: from the registry that was loaded, or not at all.
EntryOf(m) == loaded.mods[m]
Resolves(m) == m \in DOMAIN loaded.mods

\* effective_cpu_ms is in range (and is reported; the run has the manifest's).
CpuInRange(req, manifest) ==
  /\ req.cpu \in CpuMin..CpuMax
  /\ (IF req.cpu < manifest THEN req.cpu ELSE manifest) >= CpuMin

(***************************************************************************)
(* What execute_request refuses before it runs anything.  The size of an   *)
(* input that comes as a file is not compared with the registry's bound,   *)
(* and the ledger's secret is not looked at yet.                           *)
(***************************************************************************)
\* Mutated form: the size of the input is looked at by the run only.
RefusalLate(req) ==
  IF ~Resolves(req.asks) THEN "module_not_found"
  ELSE LET e == EntryOf(req.asks) IN
       IF ~pkg[e.pkg].there THEN "manifest_unreadable"
       ELSE IF e.cpu # pkg[e.pkg].cpu THEN "registry_invalid"
       ELSE IF ~CpuInRange(req, e.cpu) THEN "cpu_ms_out_of_range"
       ELSE "none"

Refusal(req) ==
  IF ~Resolves(req.asks) THEN "module_not_found"
  ELSE LET e == EntryOf(req.asks) IN
       IF ~pkg[e.pkg].there THEN "manifest_unreadable"
       ELSE IF e.cpu # pkg[e.pkg].cpu THEN "registry_invalid"
       ELSE IF ~CpuInRange(req, e.cpu) THEN "cpu_ms_out_of_range"
       ELSE IF ~req.path /\ ~req.fits THEN "input_too_large"
       ELSE "none"

(***************************************************************************)
(* A request comes in.  A manifest that cannot be read is no TamgaRelayer- *)
(* Error: run-request answers it, the daemon has no handler and is gone.   *)
(***************************************************************************)
Receive ==
  /\ loaded # None /\ serve = NoServe
  /\ \E req \in Asked :
       /\ req.path = ~how.daemon
       /\ \/ /\ Refusal(req) = "none"
             /\ serve' = [NoServe EXCEPT !.pc = "run", !.req = req]
             /\ answer' = None /\ UNCHANGED loaded
          \/ /\ Refusal(req) = "manifest_unreadable" /\ how.daemon
             /\ loaded' = None /\ answer' = None /\ UNCHANGED serve
          \/ /\ Refusal(req) # "none"
             /\ Refusal(req) = "manifest_unreadable" => ~how.daemon
             /\ answer' = [req |-> req, reason |-> Refusal(req), ran |-> None, ses |-> 0,
                           snap |-> 0, paid |-> FALSE, older |-> FALSE]
             /\ loaded' = (IF how.daemon THEN loaded ELSE None) /\ UNCHANGED serve
  /\ UNCHANGED <<disk, pkg, others, tool, how, cut, edits, crashes>>

(***************************************************************************)
(* The runner reads the session counter and starts the agent.              *)
(***************************************************************************)
RunLoads ==
  /\ serve.pc = "run"
  /\ LET p == EntryOf(serve.req.asks).pkg
     IN  \/ /\ pkg[p].there /\ pkg[p].ses < MaxSession
            /\ serve' = [serve EXCEPT !.pc = "running", !.ran = p, !.ses = pkg[p].ses + 1]
            /\ UNCHANGED <<loaded, answer>>
         \/ Answer("run_failed")
  /\ UNCHANGED <<disk, pkg, others, tool, how, cut, edits, crashes>>

(***************************************************************************)
(* Behind the agent it charges the session and then writes the counter, or *)
(* fails before it charges, or dies behind the charge.  older: a run that  *)
(* read an older counter has not written its own yet.                      *)
(***************************************************************************)
RunSaves ==
  /\ serve.pc = "running"
  /\ LET p == serve.ran
         saved == [pkg EXCEPT ![p].ses = serve.ses]
     IN  \/ /\ pkg[p].there /\ pkg' = saved
            /\ serve' = [serve EXCEPT !.pc = "stamp", !.paid = TRUE,
                                      !.older = \E n \in others[p] : n + 1 < serve.ses]
            /\ UNCHANGED <<loaded, answer, crashes>>
         \/ Answer("run_failed") /\ UNCHANGED <<pkg, crashes>>
         \/ /\ pkg[p].there /\ crashes < MaxCrashes /\ crashes' = crashes + 1
            /\ pkg' \in {pkg, saved} /\ serve' = NoServe
            /\ loaded' = (IF how.daemon THEN loaded ELSE None)
            /\ answer' = [req |-> serve.req, reason |-> "run_failed", ran |-> p,
                          ses |-> serve.ses, snap |-> 0, paid |-> TRUE, older |-> FALSE]
  /\ UNCHANGED <<disk, others, tool, how, cut, edits>>

\* The relayer recomputes the stamp of the output, whatever the runner said.
CheckStamp ==
  /\ serve.pc = "stamp"
  /\ \/ serve' = [serve EXCEPT !.pc = "export"] /\ UNCHANGED <<loaded, answer>>
     \/ Answer("output_proof_mismatch")
  /\ UNCHANGED <<disk, pkg, others, tool, how, cut, edits, crashes>>

\* Mutated form: the snapshot of the session before is sent.
TakeSnapshotEarlier ==
  /\ serve.pc = "export"
  /\ serve' = [serve EXCEPT !.pc = "fulfil", !.snap = serve.ses - 1]
  /\ UNCHANGED <<disk, pkg, others, tool, loaded, how, answer, cut, edits, crashes>>

TakeSnapshot ==
  /\ serve.pc = "export"
  /\ LET p == serve.ran
     IN  \/ /\ pkg[p].there
            /\ serve' = [serve EXCEPT !.pc = "fulfil", !.snap = pkg[p].ses]
            /\ UNCHANGED <<loaded, answer>>
         \/ Answer("export_failed")
  /\ UNCHANGED <<disk, pkg, others, tool, how, cut, edits, crashes>>

(***************************************************************************)
(* The operator's own ledger is opened last, when there is a secret for    *)
(* it: a well-known one is refused only now, and sester may be missing.    *)
(***************************************************************************)
Fulfil ==
  /\ serve.pc = "fulfil"
  /\ \/ how.secret = "known" /\ Answer("insecure_secret")
     \/ how.secret = "own" /\ Answer("ledger_unavailable")
     \/ how.secret # "known" /\ Answer("fulfilled")
  /\ UNCHANGED <<disk, pkg, others, tool, how, cut, edits, crashes>>

Tool  == BackupWrite \/ BackupRename \/ RestoreWrite \/ RestoreRename \/ RestoreVerify \/ ToolDies
Relay == Receive \/ RunLoads \/ RunSaves \/ CheckStamp \/ TakeSnapshot \/ Fulfil

Next == \/ Tool \/ Relay \/ Start \/ Stop \/ EditRegistry
        \/ \E p \in Packages : ChangePackage(p) \/ OtherLoads(p) \/ OtherSaves(p)

Spec == Init /\ [][Next]_vars

-----------------------------------------------------------------------------
(* Every variable stays in its domain.                                     *)
Answers == [req : Request, reason : Reasons,
            ran : Packages \cup {None},
            ses : 0..MaxSession, snap : 0..MaxSession, paid : BOOLEAN, older : BOOLEAN]

TypeOK ==
  /\ disk \in [Names -> File] /\ pkg \in [Packages -> Package]
  /\ others \in [Packages -> SUBSET (0..MaxSession)] /\ how \in Setting
  /\ tool.pc \in {"idle", "backup", "rename", "verify"}
  /\ loaded \in Registry \cup {None} /\ answer \in Answers \cup {None}
  /\ cut \in BOOLEAN /\ edits \in 0..MaxEdits /\ crashes \in 0..MaxCrashes

(***************************************************************************)
(* Backup and restore are all or nothing: a registry or a backup that does *)
(* not parse comes from an editor that died, never from a tool that did.   *)
(***************************************************************************)
FilesWhole == ~cut => disk["reg"] # Torn /\ disk["bak"] # Torn

(***************************************************************************)
(* A request runs the package that the registry named when the relayer     *)
(* started, whatever happened to reg.json since.                           *)
(***************************************************************************)
ServedAsLoaded ==
  [][\A s \in {serve'} : s.ran # None /\ serve.ran = None =>
       s.ran = loaded.mods[s.req.asks].pkg]_vars

(***************************************************************************)
(* A request at fault is refused before the run has charged a session for  *)
(* it: a limit out of range, and an input that is too large if the relayer *)
(* has it in hand.  What is refused behind the charge is the failure of    *)
(* the run and of what follows it, the ledger's secret among it, although  *)
(* that was there to be seen at the start.                                 *)
(***************************************************************************)
RefusedUncharged ==
  answer # None => LET a == answer IN a.paid =>
    /\ a.req.cpu \in CpuMin..CpuMax /\ (a.req.fits \/ a.req.path)
    /\ a.reason \in {"run_failed", "output_proof_mismatch", "export_failed",
                     "insecure_secret", "ledger_unavailable", "fulfilled"}

(***************************************************************************)
(* The snapshot that is sent with a fulfilment is not older than the       *)
(* session it answers for, whoever else runs the package between the run   *)
(* and the export, unless a run that had read an older counter than this   *)
(* one was still to write it back.                                         *)
(***************************************************************************)
SnapshotCoversRun ==
  answer # None => LET a == answer IN a.reason = "fulfilled" =>
    a.paid /\ a.ses > 0 /\ (a.snap >= a.ses \/ a.older)
=============================================================================
