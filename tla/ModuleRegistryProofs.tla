------------------------ MODULE ModuleRegistryProofs ------------------------
(***************************************************************************)
(* Proofs about ModuleRegistry, for any modules, packages and limits, and  *)
(* any number of edits and deaths: what backup and restore leave on disk,  *)
(* which package a request runs, what a refusal costs and what a           *)
(* fulfilment sends.                                                       *)
(*                                                                         *)
(* The properties speak of a finished answer; the invariant says what the  *)
(* relayer and the tools know at every step before it.                     *)
(***************************************************************************)
EXTENDS ModuleRegistry, TLAPS

Ran == {"stamp", "export", "fulfil"}

ServeType == [pc : {"idle", "run", "running"} \cup Ran, req : Request \cup {None},
              ran : Packages \cup {None}, ses : 0..MaxSession, snap : 0..MaxSession,
              paid : BOOLEAN, older : BOOLEAN]

Types ==
  /\ TypeOK
  /\ tool \in [pc : {"idle", "backup", "rename", "verify"}]
  /\ serve \in ServeType

\* Unless an older run of the package was under way when this one saved, the
\* counter and what the runs under way will write do not fall below it.
Kept ==
  serve.ses <= pkg[serve.ran].ses /\ \A n \in others[serve.ran] : serve.ses <= n + 1

\* What was checked before the run holds until the answer: the relayer keeps
\* the registry it loaded.
ServeInv ==
  /\ serve.pc \in {"idle", "run"} => serve.ran = None /\ serve.ses = 0 /\ serve.snap = 0
  /\ serve.pc \in {"idle", "run", "running"} => ~serve.paid
  /\ serve.pc # "idle" =>
       /\ loaded # None /\ serve.req \in Request
       /\ serve.req.asks \in DOMAIN loaded.mods
       /\ (serve.req.fits \/ serve.req.path) /\ serve.req.cpu \in CpuMin..CpuMax
  /\ serve.pc \in {"running"} \cup Ran => serve.ran \in Packages /\ serve.ses > 0
  /\ serve.pc \in Ran => serve.paid /\ (serve.older \/ Kept)
  /\ serve.pc = "fulfil" => serve.older \/ serve.snap >= serve.ses

\* A temporary file is renamed by the tool that wrote it to the end.
WholeInv ==
  /\ FilesWhole
  /\ ~cut /\ tool.pc = "backup" => disk["bak.tmp"] # Torn
  /\ ~cut /\ tool.pc = "rename" => disk["reg.tmp"] # Torn

IInv == Types /\ ServeInv /\ WholeInv /\ RefusedUncharged /\ SnapshotCoversRun

-----------------------------------------------------------------------------
(* An entry of a registry names a package, and has a limit in its domain.  *)
LEMMA EntryTyped ==
  ASSUME NEW r \in Registry, NEW m \in DOMAIN r.mods
  PROVE  r.mods[m] \in Entry
<1>1. PICK S \in SUBSET Modules : r.mods \in [S -> Entry]
  BY DEF Registry
<1> QED
  BY <1>1

(* What load_registry accepts is a registry: an absent or torn file is not. *)
LEMMA LoadedIsRegistry ==
  ASSUME NEW file \in File, Loads(file)
  PROVE  file \in Registry
BY DEF File, Loads

(* The steps of the tools and of the operator leave the relayer, its       *)
(* answer and the packages alone.                                          *)
LEMMA DiskStep ==
  ASSUME IInv, UNCHANGED <<pkg, others, loaded, serve, answer>>
  PROVE  ServeInv' /\ RefusedUncharged' /\ SnapshotCoversRun' /\ serve' \in ServeType
<1>1. ServeInv'
  BY DEF IInv, ServeInv, Kept
<1> QED
  BY <1>1 DEF IInv, Types, RefusedUncharged, SnapshotCoversRun

(* The steps of the relayer leave the files alone.                         *)
LEMMA ServeStep ==
  ASSUME IInv, UNCHANGED <<disk, tool, cut>>
  PROVE  WholeInv'
BY DEF IInv, WholeInv, FilesWhole

-----------------------------------------------------------------------------
LEMMA InitIInv == Init => IInv
<1> SUFFICES ASSUME Init PROVE IInv
  OBVIOUS
<1> USE RegistryAssumption DEF RegistryAssumption
<1>1. Types
  <2>1. disk \in [Names -> File]
    BY DEF Init, File
  <2>2. pkg \in [Packages -> Package]
    BY DEF Init, Package
  <2>3. tool \in [pc : {"idle", "backup", "rename", "verify"}]
    BY DEF Init, NoTool
  <2>4. NoServe \in ServeType
    BY DEF NoServe, ServeType
  <2>5. /\ loaded \in Registry \cup {None} /\ answer \in Answers \cup {None}
        /\ edits \in 0..MaxEdits /\ crashes \in 0..MaxCrashes
        /\ others \in [Packages -> SUBSET (0..MaxSession)] /\ how \in Setting
    BY DEF Init
  <2>6. cut \in BOOLEAN
    BY Zenon DEF Init
  <2> QED
    BY <2>1, <2>2, <2>3, <2>4, <2>5, <2>6 DEF Types, TypeOK, Init
<1>2. ServeInv /\ WholeInv /\ RefusedUncharged /\ SnapshotCoversRun
  BY DEF Init, ServeInv, WholeInv, FilesWhole, RefusedUncharged, SnapshotCoversRun,
         NoServe, NoTool, Ran, Names
<1> QED
  BY <1>1, <1>2 DEF IInv

(* The tools and the operator: files change, the relayer does not.         *)
LEMMA ToolKeepsIInv ==
  ASSUME IInv, Tool \/ EditRegistry
  PROVE  IInv'
<1> USE RegistryAssumption DEF RegistryAssumption
<1>1. UNCHANGED <<pkg, others, loaded, how, serve, answer>>
  BY DEF Tool, EditRegistry, BackupWrite, BackupRename, RestoreWrite, RestoreRename,
         RestoreVerify, ToolDies
<1>2. ServeInv' /\ RefusedUncharged' /\ SnapshotCoversRun' /\ serve' \in ServeType
  BY <1>1, DiskStep
<1>3. Types' /\ WholeInv'
  <2> USE DEF IInv, Types, TypeOK, WholeInv, FilesWhole, File, Names, NoTool, Step
  <2>1. CASE BackupWrite
    BY <1>1, <1>2, <2>1 DEF BackupWrite
  <2>2. CASE BackupRename
    BY <1>1, <1>2, <2>2 DEF BackupRename
  <2>3. CASE RestoreWrite
    BY <1>1, <1>2, <2>3 DEF RestoreWrite, LooksRestorable
  <2>4. CASE RestoreRename
    BY <1>1, <1>2, <2>4 DEF RestoreRename
  <2>5. CASE RestoreVerify
    BY <1>1, <1>2, <2>5 DEF RestoreVerify
  <2>6. CASE ToolDies
    BY <1>1, <1>2, <2>6 DEF ToolDies
  <2>7. CASE EditRegistry
    <3>1. Written \cup {Absent} \subseteq File /\ Torn \in File
      BY DEF File
    <3>2. UNCHANGED <<tool, crashes>> /\ edits' \in 0..MaxEdits
      BY <2>7 DEF EditRegistry
    <3>3. CASE \E r \in Written \cup {Absent} :
                 disk' = [disk EXCEPT !["reg"] = r] /\ UNCHANGED cut
      <4>1. PICK r \in Written \cup {Absent} :
                 disk' = [disk EXCEPT !["reg"] = r] /\ UNCHANGED cut
        BY <3>3
      <4>2. r \in File /\ r # Torn
        BY <3>1 
      <4> QED
        BY <1>1, <1>2, <3>2, <4>1, <4>2
    <3>4. CASE disk' = [disk EXCEPT !["reg"] = Torn] /\ cut' = TRUE
      BY <1>1, <1>2, <3>1, <3>2, <3>4
    <3> QED
      BY <2>7, <3>3, <3>4 DEF EditRegistry
  <2> QED
    BY <2>1, <2>2, <2>3, <2>4, <2>5, <2>6, <2>7 DEF Tool
<1> QED
  BY <1>2, <1>3 DEF IInv

(* Authors: a limit changes or a directory, and no session.                *)
LEMMA ChangeKeepsIInv ==
  ASSUME IInv, NEW p \in Packages, ChangePackage(p)
  PROVE  IInv'
<1> USE RegistryAssumption DEF RegistryAssumption
<1>1. UNCHANGED <<disk, others, tool, loaded, how, serve, answer, cut, crashes>>
  BY DEF ChangePackage
<1>2. pkg' \in [Packages -> Package] /\ \A q \in Packages : pkg[q].ses = pkg'[q].ses
  <2>1. pkg \in [Packages -> Package]
    BY DEF IInv, Types, TypeOK
  <2>2. ASSUME pkg' = [pkg EXCEPT ![p].there = ~pkg[p].there]
        PROVE  pkg' \in [Packages -> Package] /\ \A q \in Packages : pkg[q].ses = pkg'[q].ses
    <3> DEFINE turned == [pkg[p] EXCEPT !.there = ~pkg[p].there]
    <3>1. pkg[p] \in Package
      BY <2>1
    <3>2. turned \in Package /\ turned.ses = pkg[p].ses
      <4>1. (~pkg[p].there) \in BOOLEAN
        BY Zenon
      <4>. HIDE DEF turned
      <4>2. turned \in Package
        BY <3>1, <4>1, Zenon DEF turned, Package
      <4>3. turned.ses = pkg[p].ses
        BY <3>1, Zenon DEF turned, Package
      <4>. QED
        BY <4>2, <4>3
    <3>3. pkg' = [pkg EXCEPT ![p] = turned]
      BY <2>2, Zenon
    <3>. HIDE DEF turned
    <3>. QED
      BY <2>1, <3>2, <3>3 DEF Package
  <2>3. CASE pkg' = [pkg EXCEPT ![p].there = ~pkg[p].there]
    BY <2>2, <2>3
  <2>4. CASE \E c \in CpuMin..CpuMax : pkg' = [pkg EXCEPT ![p].cpu = c]
    BY <2>1, <2>4 DEF Package
  <2> QED
    BY <2>3, <2>4, Zenon DEF ChangePackage
<1>3. edits' \in 0..MaxEdits
  BY DEF IInv, Types, TypeOK, ChangePackage
<1>4. Types'
  BY <1>1, <1>2, <1>3 DEF IInv, Types, TypeOK
<1>5. ServeInv'
  BY <1>1, <1>2 DEF IInv, ServeInv, Kept, Ran
<1> QED
  BY <1>1, <1>4, <1>5 DEF IInv, WholeInv, FilesWhole, RefusedUncharged, SnapshotCoversRun

(* Other runs: what a run reads is not below the relayer's session, unless *)
(* an older run has still to write, and neither is what it writes then.    *)
LEMMA OtherKeepsIInv ==
  ASSUME IInv, NEW p \in Packages, OtherLoads(p) \/ OtherSaves(p)
  PROVE  IInv'
<1> USE RegistryAssumption DEF RegistryAssumption
<1>1. UNCHANGED <<disk, tool, loaded, how, serve, answer, cut, edits, crashes>>
  BY DEF OtherLoads, OtherSaves
<1>2. /\ pkg \in [Packages -> Package] /\ others \in [Packages -> SUBSET (0..MaxSession)]
      /\ serve \in ServeType
  BY DEF IInv, Types, TypeOK
<1>3. /\ pkg' \in [Packages -> Package] /\ others' \in [Packages -> SUBSET (0..MaxSession)]
      /\ \A q \in Packages, k \in 0..MaxSession :
           (k <= pkg[q].ses /\ \A n \in others[q] : k <= n + 1)
             => (k <= pkg'[q].ses /\ \A n \in others'[q] : k <= n + 1)
  <2>1. CASE OtherLoads(p)
    BY <1>2, <2>1 DEF OtherLoads, Package
  <2>2. CASE OtherSaves(p)
    <3>1. PICK n \in others[p] :
            /\ others' = [others EXCEPT ![p] = @ \ {n}]
            /\ \/ pkg[p].there /\ n < MaxSession /\ pkg' = [pkg EXCEPT ![p].ses = n + 1]
               \/ UNCHANGED pkg
      BY <2>2 DEF OtherSaves
    <3>2. n \in 0..MaxSession
      BY <1>2
    <3> QED
      BY <1>2, <3>1, <3>2 DEF Package
  <2> QED
    BY <2>1, <2>2
<1>4. Types'
  BY <1>1, <1>3 DEF IInv, Types, TypeOK
<1>5. serve.pc \in Ran => serve.older \/ Kept'
  <2>1. serve.pc \in Ran => serve.ran \in Packages /\ (serve.older \/ Kept)
    BY DEF IInv, ServeInv
  <2>2. serve.ses \in 0..MaxSession
    BY <1>2 DEF ServeType
  <2> QED
    BY <1>1, <1>3, <2>1, <2>2 DEF Kept
<1>6. ServeInv'
  BY <1>1, <1>5 DEF IInv, ServeInv
<1> QED
  BY <1>1, <1>4, <1>6 DEF IInv, WholeInv, FilesWhole, RefusedUncharged, SnapshotCoversRun

-----------------------------------------------------------------------------
Behind == {"output_proof_mismatch", "export_failed", "insecure_secret",
           "ledger_unavailable", "fulfilled"}

(* Every answer is made from the serve record that ends.                   *)
LEMMA AnswerStep ==
  ASSUME IInv, serve.pc \in {"run", "running"} \cup Ran, NEW reason \in Reasons, Answer(reason),
         IF serve.pc \in Ran THEN reason \in Behind ELSE reason = "run_failed",
         reason = "fulfilled" => serve.pc = "fulfil"
  PROVE  /\ answer' \in Answers \cup {None} /\ serve' \in ServeType
         /\ loaded' \in Registry \cup {None}
         /\ RefusedUncharged' /\ SnapshotCoversRun'
         /\ serve' = NoServe
<1> USE RegistryAssumption DEF RegistryAssumption
<1>1. serve \in ServeType /\ serve.req \in Request
  BY DEF IInv, Types, ServeInv, Ran
<1>2. /\ answer' = [req |-> serve.req, reason |-> reason, ran |-> serve.ran, ses |-> serve.ses,
                    snap |-> serve.snap, paid |-> serve.paid, older |-> serve.older]
      /\ serve' = NoServe
      /\ loaded' = IF how.daemon THEN loaded ELSE None
  BY DEF Answer
<1>3. answer' \in Answers
  BY <1>1, <1>2 DEF ServeType, Answers
<1>4. serve' \in ServeType
  BY <1>2 DEF NoServe, ServeType
<1>5. RefusedUncharged'
  BY <1>1, <1>2 DEF RefusedUncharged, IInv, ServeInv, Ran, Behind
<1>6. SnapshotCoversRun'
  BY <1>1, <1>2 DEF SnapshotCoversRun, IInv, ServeInv, Ran, ServeType
<1>7. loaded' \in Registry \cup {None}
  BY <1>2, Zenon DEF IInv, Types, TypeOK
<1> QED
  BY <1>2, <1>3, <1>4, <1>5, <1>6, <1>7

(* The relayer answers or refuses by the registry it holds.                *)
LEMMA ReceiveKeepsIInv == IInv /\ Receive => IInv'
<1> SUFFICES ASSUME IInv, Receive PROVE IInv'
  OBVIOUS
<1> USE RegistryAssumption DEF RegistryAssumption
<1>1. UNCHANGED <<disk, pkg, others, tool, how, cut, edits, crashes>> /\ loaded # None
      /\ serve = NoServe
  BY DEF Receive
<1>2. WholeInv'
  BY <1>1, ServeStep
<1>3. PICK req \in Asked :
        \/ /\ Refusal(req) = "none"
           /\ serve' = [NoServe EXCEPT !.pc = "run", !.req = req]
           /\ answer' = None /\ UNCHANGED loaded
        \/ /\ Refusal(req) = "manifest_unreadable" /\ how.daemon
           /\ loaded' = None /\ answer' = None /\ UNCHANGED serve
        \/ /\ Refusal(req) # "none"
           /\ Refusal(req) = "manifest_unreadable" => ~how.daemon
           /\ answer' = [req |-> req, reason |-> Refusal(req), ran |-> None, ses |-> 0,
                         snap |-> 0, paid |-> FALSE, older |-> FALSE]
           /\ loaded' = (IF how.daemon THEN loaded ELSE None) /\ UNCHANGED serve
  BY DEF Receive
<1>4. req \in Request
  OBVIOUS
<1>5. CASE /\ Refusal(req) = "none"
           /\ serve' = [NoServe EXCEPT !.pc = "run", !.req = req]
           /\ answer' = None /\ UNCHANGED loaded
  <2>1. serve' = [pc |-> "run", req |-> req, ran |-> None, ses |-> 0, snap |-> 0,
                  paid |-> FALSE, older |-> FALSE]
    BY <1>5 DEF NoServe
  <2>2. req.asks \in DOMAIN loaded.mods /\ (req.fits \/ req.path) /\ req.cpu \in CpuMin..CpuMax
    BY <1>5, Zenon DEF Refusal, Resolves, CpuInRange
  <2>3. serve' \in ServeType
    BY <1>4, <2>1 DEF ServeType
  <2>4. ServeInv'
    <3>1. /\ serve'.pc = "run" /\ serve'.req = req /\ serve'.ran = None /\ serve'.ses = 0
          /\ serve'.snap = 0 /\ serve'.paid = FALSE
      BY <2>1
    <3>2. UNCHANGED loaded
      BY <1>5
    <3> QED
      BY <1>1, <1>4, <2>2, <3>1, <3>2 DEF ServeInv, Ran
  <2> QED
    BY <1>1, <1>2, <1>5, <2>3, <2>4
       DEF IInv, Types, TypeOK, RefusedUncharged, SnapshotCoversRun
<1>6. CASE loaded' = None /\ answer' = None /\ UNCHANGED serve
  <2>1. ServeInv' /\ serve' \in ServeType
    BY <1>1, <1>6 DEF IInv, Types, ServeInv, NoServe, Ran
  <2> QED
    BY <1>1, <1>2, <1>6, <2>1 DEF IInv, Types, TypeOK, RefusedUncharged, SnapshotCoversRun
<1>7. CASE /\ Refusal(req) # "none"
           /\ answer' = [req |-> req, reason |-> Refusal(req), ran |-> None, ses |-> 0,
                         snap |-> 0, paid |-> FALSE, older |-> FALSE]
           /\ loaded' = (IF how.daemon THEN loaded ELSE None) /\ UNCHANGED serve
  <2>1. Refusal(req) \in {"module_not_found", "manifest_unreadable", "registry_invalid",
                          "cpu_ms_out_of_range", "input_too_large"}
    BY <1>7, Zenon DEF Refusal
  <2>2. answer' \in Answers
    BY <1>4, <1>7, <2>1 DEF Answers, Reasons
  <2>3. RefusedUncharged' /\ SnapshotCoversRun'
    BY <1>7, <2>1 DEF RefusedUncharged, SnapshotCoversRun
  <2>4. loaded' \in Registry \cup {None}
    BY <1>7, Zenon DEF IInv, Types, TypeOK
  <2>5. ServeInv' /\ serve' \in ServeType
    BY <1>1, <1>7 DEF IInv, Types, ServeInv, NoServe, Ran
  <2> QED
    BY <1>1, <1>2, <2>2, <2>3, <2>4, <2>5 DEF IInv, Types, TypeOK
<1> QED
  BY <1>3, <1>5, <1>6, <1>7

(* The run reads the counter of the package that the loaded registry names. *)
LEMMA RunLoadsKeepsIInv == IInv /\ RunLoads => IInv'
<1> SUFFICES ASSUME IInv, RunLoads PROVE IInv'
  OBVIOUS
<1> USE RegistryAssumption DEF RegistryAssumption
<1>1. UNCHANGED <<disk, pkg, others, tool, how, cut, edits, crashes>> /\ serve.pc = "run"
  BY DEF RunLoads
<1>2. WholeInv'
  BY <1>1, ServeStep
<1>3. EntryOf(serve.req.asks).pkg \in Packages
  <2>1. loaded \in Registry /\ serve.req.asks \in DOMAIN loaded.mods
    BY <1>1 DEF IInv, Types, TypeOK, ServeInv
  <2> QED
    BY <2>1, EntryTyped DEF EntryOf, Entry
<1>4. PICK p \in Packages :
        \/ /\ pkg[p].ses < MaxSession
           /\ serve' = [serve EXCEPT !.pc = "running", !.ran = p, !.ses = pkg[p].ses + 1]
           /\ UNCHANGED <<loaded, answer>>
        \/ Answer("run_failed")
  BY <1>3 DEF RunLoads
<1>5. CASE Answer("run_failed")
  <2>1. /\ answer' \in Answers \cup {None} /\ serve' \in ServeType
        /\ loaded' \in Registry \cup {None}
        /\ RefusedUncharged' /\ SnapshotCoversRun' /\ serve' = NoServe
    BY <1>1, <1>5, AnswerStep DEF Reasons, Ran
  <2>2. ServeInv'
    BY <2>1 DEF ServeInv, NoServe, Ran
  <2> QED
    BY <1>1, <1>2, <2>1, <2>2 DEF IInv, Types, TypeOK
<1>6. CASE /\ pkg[p].ses < MaxSession
           /\ serve' = [serve EXCEPT !.pc = "running", !.ran = p, !.ses = pkg[p].ses + 1]
           /\ UNCHANGED <<loaded, answer>>
  <2>1. serve \in ServeType /\ pkg \in [Packages -> Package]
    BY DEF IInv, Types, TypeOK
  <2>2. PICK n \in 1..MaxSession : n = pkg[p].ses + 1
    BY <1>6, <2>1 DEF Package
  <2>3. /\ serve' \in ServeType /\ serve'.pc = "running" /\ serve'.req = serve.req
        /\ serve'.ran = p /\ serve'.ses = n /\ serve'.paid = serve.paid
    <3>1. serve' = [serve EXCEPT !.pc = "running", !.ran = p, !.ses = n]
      BY <1>6, <2>2, Zenon
    <3>2. n \in 0..MaxSession
      BY <2>2
    <3>3. serve' \in ServeType /\ serve'.pc = "running" /\ serve'.ran = p /\ serve'.ses = n
      BY <2>1, <3>1, <3>2 DEF ServeType, Ran
    <3>4. serve'.req = serve.req /\ serve'.paid = serve.paid
      BY <2>1, <3>1, Zenon DEF ServeType
    <3> QED
      BY <3>3, <3>4
  <2>4. ServeInv'
    BY <1>1, <1>6, <2>2, <2>3 DEF IInv, ServeInv, Ran
  <2> QED
    BY <1>1, <1>2, <1>6, <2>3, <2>4
       DEF IInv, Types, TypeOK, RefusedUncharged, SnapshotCoversRun
<1> QED
  BY <1>4, <1>5, <1>6

(* It charges the session and writes what it has read plus one.            *)
LEMMA RunSavesKeepsIInv == IInv /\ RunSaves => IInv'
<1> SUFFICES ASSUME IInv, RunSaves PROVE IInv'
  OBVIOUS
<1> USE RegistryAssumption DEF RegistryAssumption
<1>1. UNCHANGED <<disk, others, tool, how, cut, edits>> /\ serve.pc = "running"
  BY DEF RunSaves
<1>2. WholeInv'
  BY <1>1, ServeStep
<1>3. /\ pkg \in [Packages -> Package] /\ serve \in ServeType /\ answer \in Answers \cup {None}
      /\ others \in [Packages -> SUBSET (0..MaxSession)]
      /\ loaded \in Registry \cup {None} /\ crashes \in 0..MaxCrashes
  BY DEF IInv, Types, TypeOK
<1>4. PICK p \in Packages, n \in 1..MaxSession : p = serve.ran /\ n = serve.ses
  BY <1>1, <1>3 DEF IInv, ServeInv, ServeType
<1>5. PICK saved : saved = [pkg EXCEPT ![p].ses = n]
  OBVIOUS
<1>6. saved \in [Packages -> Package] /\ saved[p].ses = n
  BY <1>3, <1>5 DEF Package
<1>7. CASE /\ pkg' = saved
           /\ serve' = [serve EXCEPT !.pc = "stamp", !.paid = TRUE,
                                     !.older = \E k \in others[p] : k + 1 < n]
           /\ UNCHANGED <<loaded, answer, crashes>>
  <2>1. PICK late \in BOOLEAN : late = (\E k \in others[p] : k + 1 < n)
    BY Zenon
  <2>2. /\ serve' \in ServeType /\ serve'.pc = "stamp" /\ serve'.req = serve.req
        /\ serve'.ran = p /\ serve'.ses = n /\ serve'.paid /\ serve'.older = late
    <3>1. serve' = [serve EXCEPT !.pc = "stamp", !.paid = TRUE, !.older = late]
      BY <1>7, <2>1, Zenon
    <3> QED
      BY <1>3, <1>4, <3>1 DEF ServeType, Ran
  <2>3. serve'.older \/ Kept'
    BY <1>1, <1>3, <1>4, <1>6, <1>7, <2>1, <2>2 DEF Kept
  <2>4. ServeInv'
    BY <1>1, <1>4, <1>7, <2>2, <2>3 DEF IInv, ServeInv, Ran
  <2> QED
    BY <1>1, <1>2, <1>6, <1>7, <2>2, <2>4
       DEF IInv, Types, TypeOK, RefusedUncharged, SnapshotCoversRun
<1>8. CASE Answer("run_failed") /\ UNCHANGED <<pkg, crashes>>
  <2>1. /\ answer' \in Answers \cup {None} /\ serve' \in ServeType
        /\ loaded' \in Registry \cup {None}
        /\ RefusedUncharged' /\ SnapshotCoversRun' /\ serve' = NoServe
    BY <1>1, <1>8, AnswerStep DEF Reasons, Ran
  <2>2. ServeInv'
    BY <2>1 DEF ServeInv, NoServe, Ran
  <2> QED
    BY <1>1, <1>2, <1>8, <2>1, <2>2 DEF IInv, Types, TypeOK
<1>9. CASE /\ crashes < MaxCrashes /\ crashes' = crashes + 1
           /\ pkg' \in {pkg, saved} /\ serve' = NoServe
           /\ loaded' = (IF how.daemon THEN loaded ELSE None)
           /\ answer' = [req |-> serve.req, reason |-> "run_failed", ran |-> p, ses |-> n,
                         snap |-> 0, paid |-> TRUE, older |-> FALSE]
  <2>1. answer' \in Answers
    BY <1>1, <1>4, <1>9 DEF Answers, Reasons, IInv, ServeInv
  <2>2. serve' \in ServeType /\ ServeInv'
    BY <1>9 DEF NoServe, ServeType, ServeInv, Ran
  <2>3. loaded' \in Registry \cup {None}
    BY <1>3, <1>9, Zenon
  <2>4. RefusedUncharged' /\ SnapshotCoversRun'
    BY <1>1, <1>9 DEF RefusedUncharged, SnapshotCoversRun, IInv, ServeInv
  <2>5. pkg' \in [Packages -> Package] /\ crashes' \in 0..MaxCrashes
    BY <1>3, <1>6, <1>9
  <2> QED
    BY <1>1, <1>2, <2>1, <2>2, <2>3, <2>4, <2>5 DEF IInv, Types, TypeOK
<1> QED
  BY <1>4, <1>5, <1>7, <1>8, <1>9, Zenon DEF RunSaves

(* The stamp, the snapshot and the ledger, in that order.                  *)
LEMMA BehindTheRunKeepsIInv == IInv /\ (CheckStamp \/ TakeSnapshot \/ Fulfil) => IInv'
<1> SUFFICES ASSUME IInv, CheckStamp \/ TakeSnapshot \/ Fulfil PROVE IInv'
  OBVIOUS
<1> USE RegistryAssumption DEF RegistryAssumption
<1>1. UNCHANGED <<disk, pkg, others, tool, how, cut, edits, crashes>>
  BY DEF CheckStamp, TakeSnapshot, Fulfil
<1>2. WholeInv'
  BY <1>1, ServeStep
<1>3. /\ pkg \in [Packages -> Package] /\ serve \in ServeType
      /\ serve.pc \in Ran /\ serve.ran \in Packages
  BY DEF IInv, Types, TypeOK, ServeInv, CheckStamp, TakeSnapshot, Fulfil, Ran
<1>4. CASE \E reason \in Behind :
             Answer(reason) /\ (reason = "fulfilled" => serve.pc = "fulfil")
  <2>1. /\ answer' \in Answers \cup {None} /\ serve' \in ServeType
        /\ loaded' \in Registry \cup {None}
        /\ RefusedUncharged' /\ SnapshotCoversRun' /\ serve' = NoServe
    BY <1>3, <1>4, AnswerStep DEF Behind, Reasons, Ran
  <2>2. ServeInv'
    BY <2>1 DEF ServeInv, NoServe, Ran
  <2> QED
    BY <1>1, <1>2, <2>1, <2>2 DEF IInv, Types, TypeOK
<1>5. CASE serve.pc = "stamp" /\ serve' = [serve EXCEPT !.pc = "export"]
           /\ UNCHANGED <<loaded, answer>>
  <2>1. serve' \in ServeType
    BY <1>3, <1>5 DEF ServeType, Ran
  <2>2. ServeInv'
    BY <1>1, <1>3, <1>5 DEF IInv, ServeInv, ServeType, Ran, Kept
  <2> QED
    BY <1>1, <1>2, <1>5, <2>1, <2>2
       DEF IInv, Types, TypeOK, RefusedUncharged, SnapshotCoversRun
<1>6. CASE /\ serve.pc = "export" /\ UNCHANGED <<loaded, answer>>
           /\ serve' = [serve EXCEPT !.pc = "fulfil", !.snap = pkg[serve.ran].ses]
  <2>1. pkg[serve.ran].ses \in 0..MaxSession
    BY <1>3 DEF Package
  <2>2. serve' \in ServeType
    BY <1>3, <1>6, <2>1 DEF ServeType, Ran
  <2>3. ServeInv'
    BY <1>1, <1>3, <1>6, <2>1 DEF IInv, ServeInv, ServeType, Ran, Kept
  <2> QED
    BY <1>1, <1>2, <1>6, <2>2, <2>3
       DEF IInv, Types, TypeOK, RefusedUncharged, SnapshotCoversRun
<1> QED
  BY <1>4, <1>5, <1>6 DEF CheckStamp, TakeSnapshot, Fulfil, Behind

(* The relayer starts with a registry that loads, and forgets all in the end. *)
LEMMA StartStopKeepsIInv == IInv /\ (Start \/ Stop) => IInv'
<1> SUFFICES ASSUME IInv, Start \/ Stop PROVE IInv'
  OBVIOUS
<1> USE RegistryAssumption DEF RegistryAssumption
<1>1. UNCHANGED <<disk, pkg, tool, answer, cut, edits>>
  BY DEF Start, Stop
<1>2. WholeInv' /\ RefusedUncharged' /\ SnapshotCoversRun'
  BY <1>1, ServeStep DEF IInv, RefusedUncharged, SnapshotCoversRun
<1>3. CASE Start
  <2>1. disk["reg"] \in File
    BY DEF IInv, Types, TypeOK, Names
  <2>2. /\ loaded' \in Registry /\ loaded = None /\ UNCHANGED <<others, serve, crashes>>
        /\ how' \in Setting
    BY <1>3, <2>1, LoadedIsRegistry DEF Start
  <2>3. serve.pc = "idle"
    BY <2>2 DEF IInv, ServeInv
  <2>4. ServeInv'
    BY <2>2, <2>3 DEF IInv, ServeInv, Ran
  <2> QED
    BY <1>1, <1>2, <2>2, <2>4 DEF IInv, Types, TypeOK
<1>4. CASE Stop
  <2>1. /\ serve' = NoServe /\ loaded' = None /\ crashes' \in 0..MaxCrashes
        /\ UNCHANGED how
    BY <1>4 DEF Stop, IInv, Types, TypeOK
  <2>2. serve' \in ServeType /\ ServeInv'
    BY <2>1 DEF NoServe, ServeType, ServeInv, Ran
  <2>3. others' \in [Packages -> SUBSET (0..MaxSession)]
    <3>1. serve \in ServeType /\ others \in [Packages -> SUBSET (0..MaxSession)]
      BY DEF IInv, Types, TypeOK
    <3>2. CASE serve.pc = "running"
      <4>1. PICK p \in Packages, n \in 0..MaxSession : p = serve.ran /\ n = serve.ses - 1
        BY <3>1, <3>2 DEF IInv, ServeInv, ServeType
      <4>2. others' = [others EXCEPT ![p] = @ \cup {n}]
        BY <1>4, <3>2, <4>1, Zenon DEF Stop
      <4> QED
        BY <3>1, <4>2
    <3>3. CASE serve.pc # "running"
      BY <1>4, <3>1, <3>3, Zenon DEF Stop
    <3> QED
      BY <3>2, <3>3
  <2> QED
    BY <1>1, <1>2, <2>1, <2>2, <2>3 DEF IInv, Types, TypeOK
<1> QED
  BY <1>3, <1>4

LEMMA StutterKeepsIInv == IInv /\ UNCHANGED vars => IInv'
BY DEF vars, IInv, Types, TypeOK, ServeInv, Kept, WholeInv, FilesWhole, RefusedUncharged,
       SnapshotCoversRun

-----------------------------------------------------------------------------
(* What the relayer and the tools know holds in every reachable state.     *)
THEOREM Invariance == Spec => []IInv
<1>1. Init => IInv
  BY InitIInv
<1>2. IInv /\ [Next]_vars => IInv'
  BY ToolKeepsIInv, ChangeKeepsIInv, OtherKeepsIInv, ReceiveKeepsIInv, RunLoadsKeepsIInv,
     RunSavesKeepsIInv, BehindTheRunKeepsIInv, StartStopKeepsIInv, StutterKeepsIInv DEF Next, Relay
<1> QED
  BY <1>1, <1>2, PTL DEF Spec

(* Every variable stays in its domain.                                     *)
THEOREM TypeCorrect == Spec => []TypeOK
<1>1. IInv => TypeOK
  BY DEF IInv, Types
<1> QED
  BY <1>1, Invariance, PTL

(* registry-backup and registry-restore are all or nothing: no death of a  *)
(* tool leaves a registry or a backup that does not parse.                 *)
THEOREM FilesStayWhole == Spec => []FilesWhole
<1>1. IInv => FilesWhole
  BY DEF IInv, WholeInv
<1> QED
  BY <1>1, Invariance, PTL

(* execute_request charges no session for a limit out of range or for an   *)
(* input in hand that is too large; a request it has charged is refused    *)
(* for the run's failure, or for what only is looked at behind the run.    *)
THEOREM RefusedCostsNothing == Spec => []RefusedUncharged
<1>1. IInv => RefusedUncharged
  BY DEF IInv
<1> QED
  BY <1>1, Invariance, PTL

(* What execute_request sends with a fulfilment covers the run, however    *)
(* many others run the package, unless a run that read an older counter    *)
(* was still to write when this one saved.                                 *)
THEOREM FulfilmentCoversRun == Spec => []SnapshotCoversRun
<1>1. IInv => SnapshotCoversRun
  BY DEF IInv
<1> QED
  BY <1>1, Invariance, PTL

(* A request runs the package of the registry that was loaded, whatever    *)
(* the tools and the operator do to reg.json meanwhile.                    *)
THEOREM RunsWhatWasLoaded == Spec => ServedAsLoaded
<1> DEFINE AsLoaded == [\A s \in {serve'} : s.ran # None /\ serve.ran = None =>
                          s.ran = loaded.mods[s.req.asks].pkg]_vars
<1>1. IInv /\ [Next]_vars => AsLoaded
  <2> SUFFICES ASSUME IInv, Next, serve'.ran # None, serve.ran = None
               PROVE  serve'.ran = loaded.mods[serve'.req.asks].pkg
    OBVIOUS
  <2>1. ~(UNCHANGED serve) /\ serve' # NoServe
    BY DEF NoServe
  <2>2. Receive \/ RunLoads \/ RunSaves \/ CheckStamp \/ TakeSnapshot
    BY <2>1 DEF Next, Tool, Relay, BackupWrite, BackupRename, RestoreWrite, RestoreRename,
                RestoreVerify, ToolDies, EditRegistry, ChangePackage, OtherLoads, OtherSaves,
                Start, Stop, Fulfil, Answer
  <2>3. serve \in ServeType /\ (serve.pc \in {"running"} \cup Ran => serve.ran # None)
    BY RegistryAssumption DEF RegistryAssumption, IInv, Types, ServeInv
  <2>4. ~Receive
    BY <2>1 DEF Receive, NoServe
  <2>5. ~RunSaves /\ ~CheckStamp /\ ~TakeSnapshot
    BY <2>3 DEF RunSaves, CheckStamp, TakeSnapshot, Ran
  <2>6. RunLoads
    BY <2>2, <2>4, <2>5
  <2>7. PICK q, n : /\ q = loaded.mods[serve.req.asks].pkg
                    /\ serve' = [serve EXCEPT !.pc = "running", !.ran = q, !.ses = n]
    BY <2>1, <2>6, Zenon DEF RunLoads, Answer, EntryOf
  <2>8. serve'.ran = q /\ serve'.req = serve.req
    BY <2>3, <2>7 DEF ServeType
  <2> QED
    BY <2>7, <2>8
<1> QED
  BY <1>1, Invariance, PTL DEF Spec, ServedAsLoaded

=============================================================================
