--------------------------- MODULE AdmissionProofs ---------------------------
(***************************************************************************)
(* Proofs about Admission, for any packages, declarations and faults, and  *)
(* any number of edits, records and deaths: what an accepted package       *)
(* declares, what its latest charge binds, and what a migration leaves.    *)
(*                                                                         *)
(* The owner's policy is what the files declare in EVERY state, also of a  *)
(* package that is refused: that is what a step can rely on.               *)
(***************************************************************************)
EXTENDS Admission, SequenceTheorems, WellFoundedInduction, TLAPS

\* The policy of a package changes by an edit of its owner only.
OwnerInv == \A c \in Copies : owner[c] = Declared(manifest[c], bridge[c])

\* What a migration has done so far: the manifest declares before net.json is
\* removed, and the old digest is the last thing that a ledger says.
JobInv ==
  \A c \in Copies :
    /\ At(c, "unlink") => manifest[c] # Partial /\ manifest[c].net # None
    /\ At(c, "gate") =>
         \/ junk[c]
         \/ /\ log[c] # << >>
            /\ log[c][Len(log[c])] = [op |-> "migrate-net", net |-> job.bound]

IInv == TypeOK /\ OwnerInv /\ JobInv

-----------------------------------------------------------------------------
(* A set of places in a sequence has a last one.                           *)
LEMMA LastOfInterval ==
  ASSUME NEW n \in Nat, NEW S, S \subseteq 1..n, S # {}
  PROVE  \E i \in S : \A j \in S : j <= i
<1> DEFINE T == {k \in Nat : n - k \in S}
<1>1. T \subseteq Nat /\ T # {}
  <2>1. PICK i \in S : TRUE
    OBVIOUS
  <2>2. n - i \in T
    BY <2>1
  <2> QED
    BY <2>2
<1> HIDE DEF T
<1>2. PICK x \in T : \A y \in T : ~(<<y, x>> \in OpToRel(<, Nat))
  BY <1>1, NatLessThanWellFounded, WFMin
<1>3. \A y \in T : ~(y < x)
  BY <1>1, <1>2 DEF OpToRel
<1>4. n - x \in S
  BY DEF T
<1>5. ASSUME NEW j \in S PROVE j <= n - x
  <2>1. n - j \in T
    BY DEF T
  <2> QED
    BY <1>1, <1>3, <2>1
<1> QED
  BY <1>4, <1>5

(* A ledger with charges has a latest one.                                 *)
LEMMA LatestIsCharge ==
  ASSUME NEW records \in Seq(Record), Charges(records) # {}
  PROVE  /\ Latest(records) \in Charges(records)
         /\ Latest(records) \in 1..Len(records)
<1>1. Charges(records) \subseteq 1..Len(records)
  BY LenProperties DEF Charges
<1>2. Len(records) \in Nat
  BY LenProperties
<1>3. \E i \in Charges(records) : \A j \in Charges(records) : j <= i
  BY <1>1, <1>2, LastOfInterval
<1> QED
  BY <1>1, <1>3, Zenon DEF Latest

(* Evidence at the end of a ledger is evidence for its latest charge.      *)
LEMMA LastIsEvidence ==
  ASSUME NEW records \in Seq(Record), Charges(records) # {},
         records[Len(records)].op = "migrate-net"
  PROVE  records[Len(records)].net \in Evidence(records)
<1>1. Latest(records) \in Charges(records) /\ Latest(records) \in 1..Len(records)
  BY LatestIsCharge
<1>2. Latest(records) # Len(records)
  BY <1>1 DEF Charges
<1>3. Len(records) \in DOMAIN records /\ Len(records) > Latest(records)
  BY <1>1, <1>2
<1> QED
  BY <1>3 DEF Evidence

(* What is declared is a policy in its normal form, whoever wrote it.      *)
LEMMA DeclaredType ==
  ASSUME NEW m \in Manifest \cup {Partial}, NEW b \in Bridge \cup {None}
  PROVE  Declared(m, b) \in Policies \cup {None}
BY AdmissionAssumption DEF AdmissionAssumption, Declared, Manifest, Bridge

(* A refusal is not an acceptance.                                         *)
LEMMA RefusalsDiffer ==
  /\ \A faults : SchemaVerdict(faults) # "ACCEPT"
  /\ \A c, prior : BindingVerdict(c, prior) # "ACCEPT"
<1>1. ASSUME NEW faults PROVE SchemaVerdict(faults) # "ACCEPT"
  BY Zenon DEF SchemaVerdict
<1>2. ASSUME NEW c, NEW prior PROVE BindingVerdict(c, prior) # "ACCEPT"
  BY Zenon DEF BindingVerdict
<1> QED
  BY <1>1, <1>2

(* What every gate of the validator has found of an accepted package.      *)
LEMMA AcceptedMeans ==
  ASSUME NEW c, NEW prior, Validate(c, prior) = "ACCEPT"
  PROVE  /\ manifest[c] # Partial
         /\ ~(bridge[c] # None /\ manifest[c].net # None)
         /\ BindingVerdict(c, prior) = "ok"
<1> DEFINE schema  == SchemaVerdict(manifest[c].faults)
           binding == BindingVerdict(c, prior)
<1>1. schema # "ACCEPT" /\ binding # "ACCEPT"
  BY RefusalsDiffer
<1>2. (IF manifest[c] = Partial THEN "parse_error"
       ELSE IF schema # "ok" THEN schema
       ELSE IF bridge[c] # None /\ manifest[c].net # None THEN "net_decl_ambiguous"
       ELSE IF binding # "ok" THEN binding
       ELSE IF bridge[c] # None /\ ~StrictGate(bridge[c].policy) THEN "net_decl_reject"
       ELSE IF ~manifest[c].signed THEN "signature_invalid"
       ELSE "ACCEPT") = "ACCEPT"
  BY Zenon DEF Validate
<1> HIDE DEF schema, binding
<1> QED
  BY <1>1, <1>2 DEF binding

(* The digest that a charge binds and the validator accepts is one of what *)
(* is declared, or the ledger carries it over.                             *)
LEMMA AcceptedBinds ==
  ASSUME NEW c, NEW prior, BindingVerdict(c, prior) = "ok", Charges(Readable(c)) # {}
  PROVE  LET bound == Readable(c)[Latest(Readable(c))].net
         IN  \/ bound = None /\ bridge[c] = None /\ manifest[c].net = None
             \/ /\ bound # None /\ bound \in Accepted(c, prior)
                /\ ~(bridge[c] = None /\ manifest[c].net = None)
<1> DEFINE records == Readable(c)
           bound   == records[Latest(records)].net
           silent  == bridge[c] = None /\ manifest[c].net = None
           binds   == bound \in Accepted(c, prior)
<1>1. (IF Charges(records) = {} THEN "ok"
       ELSE IF silent # (bound = None) THEN "net_binding_missing"
       ELSE IF ~silent /\ ~binds THEN "net_binding_mismatch"
       ELSE "ok") = "ok"
  BY Zenon DEF BindingVerdict
<1> HIDE DEF records, bound, silent, binds
<1>2. Charges(records) # {}
  BY DEF records
<1>3. (silent /\ bound = None) \/ (~silent /\ bound # None /\ binds)
  BY <1>1, <1>2
<1> QED
  BY <1>3, Zenon DEF silent, bound, binds, records

(* An accepted package with a readable ledger declares what its latest     *)
(* charge binds, or has carried the digest over.                           *)
LEMMA AcceptedIsCharged == TypeOK => AdmittedAsCharged
<1> SUFFICES ASSUME TypeOK, NEW c \in Copies, Admitted(c), ~junk[c], Charges(log[c]) # {}
             PROVE  \/ Declared(manifest[c], bridge[c]) = BoundPolicy(c)
                    \/ log[c][Latest(log[c])].net \in Evidence(log[c])
  BY Zenon DEF AdmittedAsCharged
<1> DEFINE bound == log[c][Latest(log[c])].net
<1>1. Readable(c) = log[c]
  BY DEF Readable
<1>2. /\ manifest[c] # Partial /\ ~(bridge[c] # None /\ manifest[c].net # None)
      /\ BindingVerdict(c, {}) = "ok"
  BY AcceptedMeans DEF Admitted
<1>3. \/ bound = None /\ bridge[c] = None /\ manifest[c].net = None
      \/ /\ bound # None /\ bound \in Accepted(c, {})
         /\ ~(bridge[c] = None /\ manifest[c].net = None)
  BY <1>1, <1>2, AcceptedBinds
<1> HIDE DEF bound
<1>4. CASE bound = None /\ bridge[c] = None /\ manifest[c].net = None
  BY <1>4 DEF Declared, BoundPolicy, bound
<1>5. CASE bound # None /\ bound \in Accepted(c, {})
  <2>1. \/ bound \in Evidence(log[c])
        \/ bridge[c] # None /\ bound = FileDigest(bridge[c])
        \/ /\ manifest[c].net # None
           /\ bound \in {SubtreeDigest(manifest[c].net), ShapeDigest(manifest[c].net)}
    BY <1>1, <1>5 DEF Accepted
  <2>2. CASE bridge[c] # None /\ bound = FileDigest(bridge[c])
    <3>1. Declared(manifest[c], bridge[c]) = Normal(bridge[c].policy)
      BY <1>2, <2>2 DEF Declared
    <3>2. bound.of = bridge[c].policy
      BY <2>2 DEF FileDigest
    <3> QED
      BY <1>5, <3>1, <3>2 DEF BoundPolicy, bound
  <2>3. CASE /\ manifest[c].net # None
             /\ bound \in {SubtreeDigest(manifest[c].net), ShapeDigest(manifest[c].net)}
    <3>1. Declared(manifest[c], bridge[c]) = Normal(manifest[c].net)
      BY <1>2, <2>3 DEF Declared
    <3>2. bound.of = manifest[c].net
      BY <2>3 DEF SubtreeDigest, ShapeDigest
    <3> QED
      BY <1>5, <3>1, <3>2 DEF BoundPolicy, bound
  <2> QED
    BY <2>1, <2>2, <2>3 DEF bound
<1> QED
  BY <1>3, <1>4, <1>5

-----------------------------------------------------------------------------
(* Records are appended, whatever is there.                                *)
LEMMA AppendType ==
  ASSUME TypeOK, NEW c \in Copies, NEW rec \in Record, AppendTo(c, rec)
  PROVE  /\ log' \in [Copies -> Seq(Record)]
         /\ \A d \in Copies \ {c} : log'[d] = log[d]
         /\ ~junk[c] => log'[c] # << >> /\ log'[c][Len(log'[c])] = rec
<1>1. log \in [Copies -> Seq(Record)] /\ log[c] \in Seq(Record)
  BY DEF TypeOK
<1> DEFINE longer == Append(log[c], rec)
<1>2. longer \in Seq(Record) /\ longer # << >> /\ longer[Len(longer)] = rec
  BY <1>1, AppendProperties
<1> HIDE DEF longer
<1>3. log' = [log EXCEPT ![c] = IF junk[c] THEN log[c] ELSE longer]
  BY DEF AppendTo, longer
<1> QED
  BY <1>1, <1>2, <1>3

LEMMA InitIInv == Init => IInv
<1> SUFFICES ASSUME Init PROVE IInv
  OBVIOUS
<1>1. TypeOK
  <2>1. manifest \in [Copies -> Manifest \cup {Partial}] /\ junk \in [Copies -> BOOLEAN]
    BY DEF Init, Manifest
  <2>2. bridge \in [Copies -> Bridge \cup {None}]
    BY DEF Init
  <2>3. /\ log \in [Copies -> Seq(Record)]
        /\ snap = None /\ job \in Job
    BY DEF Init, Job, Idle
  <2>4. owner \in [Copies -> Policies \cup {None}]
    BY <2>1, <2>2, DeclaredType DEF Init
  <2>5. edits \in 0..MaxEdits /\ crashes \in 0..MaxCrashes
    BY AdmissionAssumption DEF AdmissionAssumption, Init
  <2> QED
    BY <2>1, <2>2, <2>3, <2>4, <2>5 DEF TypeOK
<1>2. OwnerInv
  BY DEF Init, OwnerInv
<1>3. JobInv
  BY DEF Init, JobInv, At, Idle
<1> QED
  BY <1>1, <1>2, <1>3 DEF IInv

(* What does not touch a file or the owner's word leaves both in place.    *)
LEMMA FilesStay ==
  ASSUME IInv, UNCHANGED <<manifest, bridge, owner>>
  PROVE  OwnerInv'
BY DEF IInv, OwnerInv, Declared

LEMMA EditKeepsIInv == ASSUME IInv, NEW c \in Copies, Edit(c) PROVE IInv'
<1>1. /\ manifest \in [Copies -> Manifest \cup {Partial}]
      /\ bridge \in [Copies -> Bridge \cup {None}]
      /\ owner \in [Copies -> Policies \cup {None}]
  BY DEF IInv, TypeOK
<1>2. /\ UNCHANGED <<log, junk, snap, job, crashes>> /\ edits' \in 0..MaxEdits
      /\ owner' = [owner EXCEPT ![c] = Declared(manifest'[c], bridge'[c])]
  BY AdmissionAssumption DEF AdmissionAssumption, Edit, IInv, TypeOK
<1>3. /\ manifest' \in [Copies -> Manifest \cup {Partial}]
      /\ \A d \in Copies \ {c} : manifest'[d] = manifest[d]
  <2>1. CASE UNCHANGED manifest
    BY <1>1, <2>1
  <2>2. CASE \E m \in Manifest : manifest' = [manifest EXCEPT ![c] = m]
    BY <1>1, <2>2
  <2>3. ASSUME NEW p \in {None} \cup Policies
        PROVE  [net |-> p, faults |-> {}, signed |-> TRUE] \in Manifest
    BY DEF Manifest
  <2>4. ASSUME manifest[c] # Partial, NEW f \in FaultSets
        PROVE  [manifest[c] EXCEPT !.faults = f] \in Manifest
    BY <1>1, <2>4, AdmissionAssumption DEF AdmissionAssumption, Manifest
  <2>5. ASSUME manifest[c] # Partial
        PROVE  [manifest[c] EXCEPT !.signed = FALSE] \in Manifest
    BY <1>1, <2>5 DEF Manifest
  <2> QED
    BY <1>1, <2>1, <2>2, <2>3, <2>4, <2>5 DEF Edit
<1>4. /\ bridge' \in [Copies -> Bridge \cup {None}]
      /\ \A d \in Copies \ {c} : bridge'[d] = bridge[d]
  BY <1>1 DEF Edit
<1>5. Declared(manifest'[c], bridge'[c]) \in Policies \cup {None}
  BY <1>3, <1>4, DeclaredType
<1>6. OwnerInv'
  BY <1>1, <1>2, <1>3, <1>4 DEF IInv, OwnerInv, Declared
<1>7. JobInv'
  BY <1>1, <1>2, <1>3 DEF Edit, IInv, JobInv, At, Idle
<1> QED
  BY <1>1, <1>2, <1>3, <1>4, <1>5, <1>6, <1>7 DEF IInv, TypeOK

(* run reads; it appends its charge in the end.                            *)
LEMMA RunKeepsIInv == ASSUME IInv, NEW c \in Copies, Run(c) PROVE IInv'
<1>1. UNCHANGED <<manifest, bridge, junk, snap, owner, edits, crashes>>
  BY DEF Run, RunAdmit, RunDeclare, RunCharge, files
<1>2. OwnerInv'
  BY <1>1, FilesStay
<1>3. job' \in Job /\ job'.pc \notin {"unlink", "gate"}
  <2>1. CASE RunAdmit(c)
    BY <2>1 DEF RunAdmit, Goto, Job
  <2>2. CASE RunDeclare(c)
    <3>1. manifest[c] \in Manifest \cup {Partial} /\ bridge[c] \in Bridge \cup {None}
      BY DEF IInv, TypeOK
    <3>2. bridge[c] # None => FileDigest(bridge[c]) \in Digest
      BY <3>1 DEF Bridge, FileDigest, Digest
    <3>3. manifest[c] # Partial /\ manifest[c].net # None => SubtreeDigest(manifest[c].net) \in Digest
      BY <3>1 DEF Manifest, SubtreeDigest, Digest
    <3>4. \/ job' = Idle
          \/ \E d \in Digest \cup {None} : Goto(c, "charge", d)
      BY <2>2, <3>2, <3>3 DEF RunDeclare, End
    <3> QED
      BY <3>4 DEF Goto, Idle, Job
  <2>3. CASE RunCharge(c)
    BY <2>3 DEF RunCharge, End, Idle, Job
  <2> QED
    BY <2>1, <2>2, <2>3 DEF Run
<1>4. log' \in [Copies -> Seq(Record)]
  <2>1. CASE RunCharge(c)
    <3>1. [op |-> "charge", net |-> job.bound] \in Record
      BY DEF IInv, TypeOK, Job, Record
    <3> QED
      BY <2>1, <3>1, AppendType DEF IInv, RunCharge
  <2>2. CASE UNCHANGED log
    BY <2>2 DEF IInv, TypeOK
  <2> QED
    BY <2>1, <2>2 DEF Run, RunAdmit, RunDeclare, files
<1>5. JobInv'
  BY <1>3 DEF JobInv, At
<1> QED
  BY <1>1, <1>2, <1>3, <1>4, <1>5 DEF IInv, TypeOK

(* migrate-net in four steps, none of which changes the policy.            *)
LEMMA MigratedType ==
  ASSUME IInv, NEW c \in Copies, MayMigrate(c)
  PROVE  /\ Migrated(c) \in Manifest
         /\ Migrated(c).net = Normal(bridge[c].policy)
         /\ Migrated(c).net \in Policies
         /\ Normal(Migrated(c).net) = Normal(bridge[c].policy)
         /\ FileDigest(bridge[c]) \in Digest
<1>1. manifest[c] \in Manifest /\ bridge[c] \in Bridge
  BY DEF IInv, TypeOK, MayMigrate
<1>2. bridge[c].policy \in Policies /\ FileDigest(bridge[c]) \in Digest
  BY <1>1 DEF Bridge, FileDigest, Digest
<1> DEFINE p == Normal(bridge[c].policy)
<1>3. p \in Policies /\ Normal(p) = p
  BY <1>2, AdmissionAssumption DEF AdmissionAssumption
<1> HIDE DEF p
<1>4. Migrated(c) = [manifest[c] EXCEPT !.net = p, !.signed = TRUE]
  BY DEF Migrated, p
<1>5. Migrated(c) \in Manifest /\ Migrated(c).net = p
  BY <1>1, <1>3, <1>4 DEF Manifest
<1> QED
  BY <1>2, <1>3, <1>5 DEF p

LEMMA MigrateKeepsIInv == ASSUME IInv, NEW c \in Copies, Migrate(c) PROVE IInv'
<1> USE DEF At
<1>1. /\ manifest \in [Copies -> Manifest \cup {Partial}]
      /\ bridge \in [Copies -> Bridge \cup {None}]
      /\ job \in Job /\ log \in [Copies -> Seq(Record)]
  BY DEF IInv, TypeOK
<1>2. CASE MigrateWrite(c)
  <2>1. /\ manifest' = [manifest EXCEPT ![c] = Migrated(c)]
        /\ job' = [at |-> c, pc |-> "unlink", bound |-> FileDigest(bridge[c])]
        /\ UNCHANGED <<bridge, log, junk, snap, owner, edits, crashes>>
    BY <1>2 DEF MigrateWrite, Goto
  <2>2. /\ MayMigrate(c) /\ manifest[c] # Partial /\ manifest[c].net = None /\ bridge[c] # None
    BY <1>2 DEF MigrateWrite, MayMigrate
  <2>3. Migrated(c) # Partial /\ Migrated(c).net # None /\ manifest'[c] = Migrated(c)
    BY <1>1, <2>1, <2>2, MigratedType, AdmissionAssumption DEF AdmissionAssumption
  <2>4. Declared(manifest'[c], bridge'[c]) = Declared(manifest[c], bridge[c])
    BY <2>1, <2>2, <2>3, MigratedType DEF Declared
  <2>5. OwnerInv'
    BY <1>1, <2>1, <2>4 DEF IInv, OwnerInv
  <2>6. JobInv'
    BY <2>1, <2>3 DEF JobInv
  <2>7. TypeOK'
    BY <1>1, <2>1, <2>2, MigratedType DEF IInv, TypeOK, Job
  <2> QED
    BY <2>5, <2>6, <2>7 DEF IInv
<1>3. CASE MigrateUnlink(c)
  <2>1. /\ bridge' = [bridge EXCEPT ![c] = None]
        /\ job' = [at |-> c, pc |-> "evidence", bound |-> job.bound]
        /\ UNCHANGED <<manifest, log, junk, snap, owner, edits, crashes>>
        /\ manifest[c] # Partial /\ manifest[c].net # None
    BY <1>3 DEF MigrateUnlink, Goto, IInv, JobInv
  <2>2. OwnerInv'
    BY <1>1, <2>1 DEF IInv, OwnerInv, Declared
  <2>3. JobInv'
    BY <2>1 DEF JobInv
  <2>4. TypeOK'
    BY <1>1, <2>1 DEF IInv, TypeOK, Job
  <2> QED
    BY <2>2, <2>3, <2>4 DEF IInv
<1>4. CASE MigrateEvidence(c)
  <2> DEFINE rec == [op |-> "migrate-net", net |-> job.bound]
  <2>1. /\ AppendTo(c, rec) /\ rec \in Record
        /\ job' = [at |-> c, pc |-> "gate", bound |-> job.bound]
        /\ UNCHANGED <<manifest, bridge, junk, snap, owner, edits, crashes>>
    BY <1>1, <1>4 DEF MigrateEvidence, Goto, Job, Record
  <2>2. /\ log' \in [Copies -> Seq(Record)]
        /\ ~junk[c] => log'[c] # << >> /\ log'[c][Len(log'[c])] = rec
    BY <2>1, AppendType DEF IInv
  <2>3. OwnerInv'
    BY <2>1, FilesStay
  <2>4. JobInv'
    BY <2>1, <2>2 DEF JobInv
  <2>5. TypeOK'
    BY <1>1, <2>1, <2>2 DEF IInv, TypeOK, Job
  <2> QED
    BY <2>3, <2>4, <2>5 DEF IInv
<1>5. CASE MigrateGate(c)
  <2>1. job' = Idle /\ UNCHANGED <<manifest, bridge, log, junk, snap, owner, edits, crashes>>
    BY <1>5 DEF MigrateGate, End, files
  <2>2. OwnerInv' /\ JobInv'
    BY <2>1, FilesStay DEF JobInv, Idle
  <2>3. TypeOK'
    BY <1>1, <2>1 DEF IInv, TypeOK, Job, Idle
  <2> QED
    BY <2>2, <2>3 DEF IInv
<1> QED
  BY <1>2, <1>3, <1>4, <1>5 DEF Migrate

(* Snapshots carry ledgers of records.                                     *)
LEMMA SnapshotKeepsIInv == ASSUME IInv, NEW c \in Copies, Export(c) \/ Import(c) PROVE IInv'
<1>1. UNCHANGED <<manifest, bridge, junk, job, owner, edits, crashes>> /\ job = Idle
  BY DEF Export, Import, files
<1>2. OwnerInv' /\ JobInv'
  BY <1>1, FilesStay DEF JobInv, At, Idle
<1>3. log' \in [Copies -> Seq(Record)] /\ (snap' = None \/ snap' \in Seq(Record))
  BY DEF Export, Import, files, IInv, TypeOK
<1> QED
  BY <1>1, <1>2, <1>3 DEF IInv, TypeOK

(* A death keeps what the files declare: a manifest that is cut leaves     *)
(* net.json, which is removed later than the manifest is written.          *)
LEMMA CrashKeepsIInv == ASSUME IInv, NEW c \in Copies, Crash(c) \/ CrashInManifest(c) PROVE IInv'
<1>1. /\ manifest \in [Copies -> Manifest \cup {Partial}]
      /\ junk \in [Copies -> BOOLEAN] /\ crashes \in 0..MaxCrashes
  BY DEF IInv, TypeOK
<1>2. crashes' \in 0..MaxCrashes
  BY <1>1, AdmissionAssumption DEF AdmissionAssumption, Crash, CrashInManifest
<1>3. CASE Crash(c)
  <2>1. job' = Idle /\ UNCHANGED <<manifest, bridge, log, snap, owner, edits>>
    BY <1>3 DEF Crash, End
  <2>2. junk' \in [Copies -> BOOLEAN]
    BY <1>1, <1>3 DEF Crash
  <2>3. OwnerInv' /\ JobInv'
    BY <2>1, FilesStay DEF JobInv, At, Idle
  <2> QED
    BY <1>2, <2>1, <2>2, <2>3 DEF IInv, TypeOK, Job, Idle
<1>4. CASE CrashInManifest(c)
  <2>1. /\ manifest' = [manifest EXCEPT ![c] = Partial]
        /\ UNCHANGED <<bridge, log, junk, snap, job, owner, edits>> /\ job = Idle
        /\ manifest[c] # Partial /\ manifest[c].net = None
    BY <1>4 DEF CrashInManifest, MayMigrate
  <2>2. OwnerInv'
    BY <1>1, <2>1 DEF IInv, OwnerInv, Declared
  <2>3. JobInv'
    BY <2>1 DEF JobInv, At, Idle
  <2> QED
    BY <1>1, <1>2, <2>1, <2>2, <2>3 DEF IInv, TypeOK
<1> QED
  BY <1>3, <1>4

LEMMA StutterKeepsIInv == IInv /\ UNCHANGED vars => IInv'
BY DEF vars, IInv, TypeOK, OwnerInv, JobInv, Declared, At

-----------------------------------------------------------------------------
(* What the validator and migrate-net rely on holds in every state.        *)
THEOREM Invariance == Spec => []IInv
<1>1. IInv /\ [Next]_vars => IInv'
  BY EditKeepsIInv, RunKeepsIInv, MigrateKeepsIInv, SnapshotKeepsIInv, CrashKeepsIInv,
     StutterKeepsIInv DEF Next
<1> QED
  BY <1>1, InitIInv, PTL DEF Spec

(* Every variable stays in its domain.                                     *)
THEOREM TypeCorrect == Spec => []TypeOK
<1>1. IInv => TypeOK
  BY DEF IInv
<1> QED
  BY <1>1, Invariance, PTL

(* No command changes the policy of a package that the validator accepts,  *)
(* also when migrate-net dies in the middle.                               *)
THEOREM PolicyIsTheOwners == Spec => []AdmittedAsDeclared
<1>1. IInv => AdmittedAsDeclared
  BY DEF IInv, OwnerInv, AdmittedAsDeclared
<1> QED
  BY <1>1, Invariance, PTL

(* What the D12 gate accepts declares what its latest charge binds, or the *)
(* ledger carries the digest over.                                         *)
THEOREM AcceptedAsCharged == Spec => []AdmittedAsCharged
<1>1. IInv => AdmittedAsCharged
  BY AcceptedIsCharged DEF IInv
<1> QED
  BY <1>1, Invariance, PTL

(* The gate of migrate-net lends the validator the old digest; when it     *)
(* accepts, the ledger has the digest too, or has no charge to compare.    *)
LEMMA GateNeedsNoHelp ==
  ASSUME IInv, NEW c \in Copies, MigrateAccepts(c)
  PROVE  Admitted(c)
<1>1. At(c, "gate") /\ Validate(c, {job.bound}) = "ACCEPT"
  BY DEF MigrateAccepts
<1>2. BindingVerdict(c, {job.bound}) = "ok"
  BY <1>1, AcceptedMeans
<1>3. Readable(c) \in Seq(Record)
  BY EmptySeq DEF Readable, IInv, TypeOK
<1>4. BindingVerdict(c, {}) = "ok"
  <2> DEFINE records == Readable(c)
             bound   == records[Latest(records)].net
             silent  == bridge[c] = None /\ manifest[c].net = None
             binds   == bound \in Accepted(c, {})
             charged == Charges(records) # {}
  <2>1. BindingVerdict(c, {}) =
          IF ~charged THEN "ok"
          ELSE IF silent # (bound = None) THEN "net_binding_missing"
          ELSE IF ~silent /\ ~binds THEN "net_binding_mismatch"
          ELSE "ok"
    BY Zenon DEF BindingVerdict
  <2>2. CASE charged
    <3>1. \/ silent /\ bound = None
          \/ ~silent /\ bound # None /\ bound \in Accepted(c, {job.bound})
      BY <1>2, <2>2, AcceptedBinds
    <3>2. bound \in Accepted(c, {job.bound}) => binds
      <4>1. ~junk[c] /\ Readable(c) = log[c]
        BY <2>2 DEF Readable, Charges
      <4>2. /\ log[c] # << >>
            /\ log[c][Len(log[c])] = [op |-> "migrate-net", net |-> job.bound]
        BY <1>1, <4>1 DEF IInv, JobInv
      <4>3. job.bound \in Evidence(Readable(c))
        BY <1>3, <2>2, <4>1, <4>2, LastIsEvidence
      <4> QED
        BY <4>3 DEF Accepted
    <3>3. CASE silent /\ bound = None
      BY <2>1, <2>2, <3>3, Zenon
    <3>4. CASE ~silent /\ bound # None /\ binds
      BY <2>1, <2>2, <3>4, Zenon
    <3> QED
      BY <3>1, <3>2, <3>3, <3>4, Zenon
  <2>3. CASE ~charged
    BY <2>1, <2>3, Zenon
  <2> QED
    BY <2>2, <2>3
<1>5. Validate(c, {}) = Validate(c, {job.bound})
  BY <1>2, <1>4, Zenon DEF Validate
<1> QED
  BY <1>1, <1>5 DEF Admitted

(* migrate-net answers ok only when the package is accepted without it.    *)
THEOREM MigrationEnds == Spec => MigrationStandsAlone
<1> DEFINE Alone == \A c \in Copies :
                      MigrateAccepts(c) /\ job' = Idle /\ crashes' = crashes => Admitted(c)'
<1>1. IInv /\ [Next]_vars => [Alone]_vars
  <2> SUFFICES ASSUME IInv, Next, NEW c \in Copies,
                      MigrateAccepts(c), job' = Idle, crashes' = crashes
               PROVE  Admitted(c)'
    BY Zenon
  <2>1. At(c, "gate") /\ job.at = c /\ job # Idle
    BY DEF MigrateAccepts, At, Idle
  <2>2. PICK d \in Copies : \/ Edit(d) \/ Run(d) \/ Migrate(d) \/ Export(d) \/ Import(d)
                            \/ Crash(d) \/ CrashInManifest(d)
    BY Zenon DEF Next
  <2>3. MigrateGate(d)
    <3>1. ~Edit(d) /\ ~Run(d) /\ ~Export(d) /\ ~Import(d) /\ ~CrashInManifest(d)
      <4>1. job # Idle /\ job.pc = "gate"
        BY <2>1 DEF At
      <4>2. ~Edit(d)
        BY <4>1 DEF At, Edit
      <4>3. ~Run(d)
        BY <4>1 DEF At, Run, RunAdmit, RunDeclare, RunCharge
      <4>4. ~Export(d) /\ ~Import(d) /\ ~CrashInManifest(d)
        BY <4>1 DEF Export, Import, CrashInManifest, MayMigrate
      <4> QED
        BY <4>2, <4>3, <4>4
    <3>2. ~Crash(d)
      BY DEF Crash, IInv, TypeOK
    <3>3. ~MigrateWrite(d) /\ ~MigrateUnlink(d) /\ ~MigrateEvidence(d)
      BY <2>1 DEF At, MigrateWrite, MayMigrate, MigrateUnlink, MigrateEvidence
    <3> QED
      BY <2>2, <3>1, <3>2, <3>3 DEF Migrate
  <2>4. UNCHANGED <<manifest, bridge, log, junk>>
    BY <2>3 DEF MigrateGate, files
  <2>5. Admitted(c)
    BY GateNeedsNoHelp
  <2> QED
    BY <2>4, <2>5, Zenon
       DEF Admitted, Validate, BindingVerdict, Accepted, Readable
<1> QED
  BY <1>1, Invariance, PTL DEF Spec, MigrationStandsAlone

=============================================================================
