------------------------- MODULE PackageNodeProofs -------------------------
(***************************************************************************)
(* Proofs about PackageNode, for any number of nodes, invocations and      *)
(* crashes: every variable keeps its type, and a ledger whose lines all    *)
(* parse verifies.                                                         *)
(*                                                                         *)
(* The argument has three parts.  What an append computes extends an       *)
(* intact chain (AppendKeepsChain); between the computation and the write  *)
(* the ledger stands still, because the lock keeps other appends out and   *)
(* no import runs beside another command (Stage, ImportAlone); and a chain *)
(* that is exported or installed was intact before.                        *)
(***************************************************************************)
EXTENDS PackageNode, SequenceLemmas

\* What an invocation relies on while it stands at a point.
Stage(p) ==
  /\ Active(p) => proc[p].at \in Nodes
  /\ proc[p].pc \in {"exec", "account"} =>
       proc[p].cmd = "run" /\ proc[p].st.ses < MaxSession
  /\ proc[p].pc = "append" =>
       /\ proc[p].cmd # "import"
       /\ proc[p].rec \in Record
       /\ proc[p].rec = NextRecord(log[proc[p].at], proc[p].rec.body)
       /\ lock[proc[p].at] = p
  /\ proc[p].pc = "collect" => proc[p].agent \in Agents
  /\ proc[p].pc \in {"install", "chain"} =>
       /\ proc[p].cmd = "import"
       /\ proc[p].snap \in Snapshot
       /\ ChainOk(proc[p].snap.recs)

ImportAlone ==
  \A p, q \in Procs :
    p # q /\ Active(p) /\ Active(q) /\ proc[p].at = proc[q].at
      => proc[p].cmd # "import"

\* A line can lack its newline only where there is one.
OpenEnds == \A n \in Nodes : open[n] => log[n] # << >>

SnapshotsIntact == \A s \in snaps : ChainOk(s.recs)

DiskInv ==
  /\ state \in [Nodes -> StateFile]
  /\ haslog \in [Nodes -> BOOLEAN]
  /\ log \in [Nodes -> Seq(Line)]
  /\ open \in [Nodes -> BOOLEAN] /\ OpenEnds
  /\ art \in [Nodes -> [Sessions -> Outputs \cup {None}]]
  /\ snaps \subseteq Snapshot
  /\ SnapshotsIntact
  /\ ChainIntact

ProcInv ==
  /\ proc \in [Procs -> Invocation]
  /\ \A p \in Procs : Stage(p)
  /\ ImportAlone

CountInv ==
  /\ lock \in [Nodes -> Procs \cup {None}]
  /\ crashes \in Nat

IInv == DiskInv /\ ProcInv /\ CountInv

-----------------------------------------------------------------------------
(* The record that an append computes is one, whatever the ledger holds.   *)
LEMMA NextRecordType ==
  ASSUME NEW l \in Seq(Line), CanAppend(l), NEW b \in Body
  PROVE  NextRecord(l, b) \in Record /\ NextRecord(l, b).body = b
<1>1. Len(l) \in Nat
  BY LenProperties
<1>2. PredecessorHash(l) \in Digest
  <2>1. CASE l = << >>
    BY <2>1, EmptySeq DEF PredecessorHash, Genesis, Digest
  <2>2. CASE l # << >>
    <3> DEFINE k == CHOOSE i \in RecordsIn(l) : \A j \in RecordsIn(l) : j <= i
    <3>1. RecordsIn(l) \in SUBSET (1..Len(l)) /\ RecordsIn(l) # {}
      BY <2>2 DEF CanAppend, RecordsIn
    <3>2. k \in RecordsIn(l)
      BY <1>1, <3>1, LastExists
    <3>3. l[k] \in Line /\ IsRecord(l[k])
      BY <3>2, ElementOfSeq DEF RecordsIn
    <3>4. l[k] \in Record
      BY <3>3 DEF Line, IsRecord
    <3> QED BY <2>2, <3>4 DEF PredecessorHash, Record
  <2> QED BY <2>1, <2>2
<1>3. Hash(PredecessorHash(l), Len(l) + 1, b) \in Digest
  <2>1. [seq |-> Len(l) + 1, body |-> b] \in Entry
    BY <1>1 DEF Entry
  <2> QED BY <1>2, <2>1, AppendProperties DEF Hash, Digest
<1> QED BY <1>1, <1>2, <1>3 DEF NextRecord, Record

(* ... and it extends an intact chain to an intact chain.                  *)
LEMMA AppendKeepsChain ==
  ASSUME NEW l \in Seq(Line), NEW r \in Record, r = NextRecord(l, r.body),
         AllRecords(l), ChainOk(l)
  PROVE  ChainOk(Append(l, r))
<1> DEFINE m == Append(l, r)
<1>1. Len(l) \in Nat /\ r \in Line
  BY LenProperties DEF Line
<1>2. /\ Len(m) = Len(l) + 1
      /\ \A i \in 1..Len(l) : m[i] = l[i]
      /\ m[Len(l) + 1] = r
  BY <1>1, AppendProperties
<1>3. /\ r.seq = Len(l) + 1
      /\ r.prev = PredecessorHash(l)
      /\ r.h = Hash(r.prev, r.seq, r.body)
  <2> DEFINE b == r.body
  <2>1. r = [seq |-> Len(l) + 1, prev |-> PredecessorHash(l), body |-> b,
             h |-> Hash(PredecessorHash(l), Len(l) + 1, b)]
    BY DEF NextRecord
  <2> HIDE DEF b
  <2> QED BY <2>1 DEF b
<1>4. IsRecord(r)
  BY PackageAssumption DEF PackageAssumption, IsRecord
<1>5. r.prev = IF l = << >> THEN Genesis ELSE l[Len(l)].h
  <2>1. RecordsIn(l) = 1..Len(l)
    BY DEF RecordsIn, AllRecords
  <2>2. CASE l # << >>
    <3>1. Len(l) \in 1..Len(l)
      BY <2>2, EmptySeq
    <3>2. (CHOOSE i \in 1..Len(l) : \A j \in 1..Len(l) : j <= i) = Len(l)
      BY <1>1, <3>1
    <3> QED BY <1>3, <2>1, <2>2, <3>2 DEF PredecessorHash
  <2> QED BY <1>3, <2>2 DEF PredecessorHash
<1>6. \A i \in 1..Len(l) : Links(m, i)
  <2> TAKE i \in 1..Len(l)
  <2>1. Links(l, i)
    BY DEF ChainOk
  <2>2. m[i] = l[i] /\ (i # 1 => m[i - 1] = l[i - 1])
    BY <1>1, <1>2
  <2> HIDE DEF m
  <2> QED BY <2>1, <2>2 DEF Links
<1>7. Links(m, Len(l) + 1)
  <2>1. CASE l = << >>
    <3>1. Len(l) = 0
      BY <2>1, EmptySeq
    <3> HIDE DEF m
    <3> QED BY <1>2, <1>3, <1>4, <1>5, <2>1, <3>1 DEF Links
  <2>2. CASE l # << >>
    <3>1. Len(l) \in 1..Len(l)
      BY <2>2, EmptySeq
    <3>2. m[(Len(l) + 1) - 1] = l[Len(l)] /\ Len(l) + 1 # 1
      BY <1>1, <1>2, <3>1
    <3> HIDE DEF m
    <3> QED BY <1>2, <1>3, <1>4, <1>5, <2>2, <3>2 DEF Links
  <2> QED BY <2>1, <2>2
<1>8. \A i \in 1..Len(m) : i \in 1..Len(l) \/ i = Len(l) + 1
  BY <1>1, <1>2
<1> HIDE DEF m
<1> QED BY <1>6, <1>7, <1>8 DEF ChainOk, m

(* What is written behind a line without its newline joins that line.      *)
LEMMA JoinedLine ==
  ASSUME NEW l \in Seq(Line), NEW o \in BOOLEAN, o => l # << >>, ~Ended(l, o),
         NEW x \in {Torn, Junk}
  PROVE  /\ [l EXCEPT ![Len(l)] = x] \in Seq(Line)
         /\ Len([l EXCEPT ![Len(l)] = x]) = Len(l)
         /\ Len(l) \in 1..Len(l) /\ [l EXCEPT ![Len(l)] = x][Len(l)] = x
         /\ ~AllRecords([l EXCEPT ![Len(l)] = x])
<1> DEFINE m == [l EXCEPT ![Len(l)] = x]
<1>1. Len(l) \in Nat /\ x \in Line /\ ~IsRecord(x)
  BY LenProperties DEF Line, IsRecord
<1>2. Len(l) \in 1..Len(l)
  BY EmptySeq DEF Ended, EndsTorn
<1>3. m \in Seq(Line) /\ Len(m) = Len(l) /\ m[Len(l)] = x
  BY <1>1, <1>2, ExceptSeq
<1> HIDE DEF m
<1>4. ~AllRecords(m)
  BY <1>1, <1>2, <1>3 DEF AllRecords
<1> QED BY <1>2, <1>3, <1>4 DEF m

(* The append as it reaches the file: behind a line without its newline it *)
(* leaves a line that does not parse.                                      *)
LEMMA WithLineKeeps ==
  ASSUME NEW l \in Seq(Line), NEW o \in BOOLEAN, o => l # << >>,
         NEW r \in Record, r = NextRecord(l, r.body),
         AllRecords(l) => ChainOk(l)
  PROVE  /\ WithLine(l, o, r) \in Seq(Line)
         /\ AllRecords(WithLine(l, o, r)) => ChainOk(WithLine(l, o, r))
         /\ Ended(l, o) => WithLine(l, o, r) # << >>
<1>1. Len(l) \in Nat /\ r \in Line
  BY LenProperties DEF Line
<1>2. CASE ~Ended(l, o)
  <2> DEFINE m == [l EXCEPT ![Len(l)] = Junk]
  <2>1. m \in Seq(Line) /\ ~AllRecords(m)
    BY <1>2, JoinedLine
  <2>2. WithLine(l, o, r) = m
    BY <1>2 DEF WithLine
  <2> HIDE DEF m
  <2> QED BY <1>2, <2>1, <2>2
<1>3. CASE Ended(l, o)
  <2> DEFINE m == Append(l, r)
  <2>1. m \in Seq(Line) /\ Len(m) = Len(l) + 1 /\ \A i \in 1..Len(l) : m[i] = l[i]
    BY <1>1, AppendProperties
  <2>2. WithLine(l, o, r) = m
    BY <1>3 DEF WithLine
  <2>3. AllRecords(m) => AllRecords(l)
    <3>1. \A i \in 1..Len(l) : i \in 1..Len(m)
      BY <1>1, <2>1
    <3> HIDE DEF m
    <3> QED BY <2>1, <3>1 DEF AllRecords
  <2>4. AllRecords(m) => ChainOk(m)
    BY <2>3, AppendKeepsChain
  <2>5. m # << >>
    <3> HIDE DEF m
    <3> QED BY <1>1, <2>1, EmptySeq
  <2> QED BY <2>1, <2>2, <2>4, <2>5
<1> QED BY <1>2, <1>3

(* A line that is cut short is one that does not parse.                    *)
LEMMA TornAtEnd ==
  ASSUME NEW l \in Seq(Line)
  PROVE  Append(l, Torn) \in Seq(Line) /\ ~AllRecords(Append(l, Torn))
<1> DEFINE m == Append(l, Torn)
<1>1. Len(l) \in Nat /\ Torn \in Line
  BY LenProperties DEF Line
<1>2. m \in Seq(Line) /\ Len(m) = Len(l) + 1 /\ m[Len(l) + 1] = Torn
  BY <1>1, AppendProperties
<1>3. Len(l) + 1 \in 1..Len(m)
  BY <1>1, <1>2
<1> HIDE DEF m
<1>4. ~AllRecords(m)
  BY <1>2, <1>3 DEF AllRecords, IsRecord
<1> QED BY <1>2, <1>4 DEF m

LEMMA WithTornLineType ==
  ASSUME NEW l \in Seq(Line), NEW o \in BOOLEAN, o => l # << >>
  PROVE  WithTornLine(l, o) \in Seq(Line) /\ ~AllRecords(WithTornLine(l, o))
<1>1. CASE ~Ended(l, o)
  BY <1>1, JoinedLine DEF WithTornLine
<1>2. CASE Ended(l, o)
  BY <1>2, TornAtEnd DEF WithTornLine
<1> QED BY <1>1, <1>2

(* The first records of an intact chain are an intact chain.               *)
LEMMA PrefixIntact ==
  ASSUME NEW recs \in Seq(Record), ChainOk(recs),
         NEW k \in Nat, k <= Len(recs)
  PROVE  /\ SubSeq(recs, 1, k) \in Seq(Line) /\ ChainOk(SubSeq(recs, 1, k))
         /\ Len(SubSeq(recs, 1, k)) = k
<1> DEFINE m == SubSeq(recs, 1, k)
<1>1. Len(recs) \in Nat
  BY LenProperties
<1>2. \A i \in 1..k : recs[i] \in Record
  BY <1>1, ElementOfSeq
<1>3. m \in Seq(Record) /\ Len(m) = k /\ \A i \in 1..k : m[i] = recs[i]
  <2>1. /\ m \in Seq(Record)
        /\ Len(m) = IF 1 <= k THEN k - 1 + 1 ELSE 0
        /\ \A i \in 1..(k - 1 + 1) : m[i] = recs[1 + i - 1]
    BY <1>2, SubSeqProperties
  <2> HIDE DEF m
  <2> QED BY <2>1
<1>4. m \in Seq(Line)
  BY <1>3, SeqMonotonic DEF Line
<1> HIDE DEF m
<1>5. ChainOk(m)
  <2> SUFFICES ASSUME NEW i \in 1..k PROVE Links(m, i)
    BY <1>3 DEF ChainOk
  <2>1. Links(recs, i)
    BY <1>1 DEF ChainOk
  <2>2. m[i] = recs[i] /\ (i # 1 => m[i - 1] = recs[i - 1])
    BY <1>3
  <2> QED BY <2>1, <2>2 DEF Links
<1> QED BY <1>3, <1>4, <1>5 DEF m

(* Records are lines, and lines that all parse are records.                *)
LEMMA LinesAndRecords ==
  /\ Seq(Record) \subseteq Seq(Line)
  /\ \A l \in Seq(Line) : AllRecords(l) => l \in Seq(Record)
<1>1. Seq(Record) \subseteq Seq(Line)
  BY SeqMonotonic DEF Line
<1>2. ASSUME NEW l \in Seq(Line), AllRecords(l) PROVE l \in Seq(Record)
  <2>1. Len(l) \in Nat /\ l \in [1..Len(l) -> Line]
    BY LenProperties
  <2>2. \A i \in 1..Len(l) : l[i] \in Record
    BY <1>2, <2>1 DEF AllRecords, IsRecord, Line
  <2>3. l \in [1..Len(l) -> Record]
    BY <2>1, <2>2
  <2> QED BY <2>1, <2>3
<1> QED BY <1>1, <1>2

-----------------------------------------------------------------------------
(* The records an invocation is made of.                                   *)
LEMMA IdleType == EmptyState \in State /\ Idle \in Invocation
<1>1. EmptyState \in State
  BY PackageAssumption DEF EmptyState, State, PackageAssumption
<1> QED BY <1>1 DEF Idle, Invocation, Points, Final

LEMMA BeginType ==
  ASSUME NEW cmd \in Commands \cup {None}, NEW n \in Nodes \cup {None}, NEW pc \in Points
  PROVE  /\ Begin(cmd, n, pc) \in Invocation
         /\ Begin(cmd, n, pc).pc = pc
         /\ Begin(cmd, n, pc).cmd = cmd
         /\ Begin(cmd, n, pc).at = n
BY IdleType DEF Begin, Invocation, Idle

LEMMA LoadedType ==
  ASSUME NEW file \in StateFile, file \notin Unreadable
  PROVE  Loaded(file) \in State
BY IdleType DEF Loaded, StateFile

(* A step of p that leaves the ledgers of appending invocations alone      *)
(* keeps what holds of the invocations, if it keeps what holds of p.       *)
LEMMA StepOfOne ==
  ASSUME ProcInv, NEW p \in Procs, NEW x \in Invocation,
         proc' = [proc EXCEPT ![p] = x],
         \A q \in Procs \ {p} : proc[q].pc = "append" =>
           log'[proc[q].at] = log[proc[q].at] /\ lock'[proc[q].at] = q,
         \/ x.pc \in Final
         \/ Active(p) /\ x.at = proc[p].at /\ x.cmd = proc[p].cmd
         \/ MayStart(p, x.cmd, x.at),
         Stage(p)'
  PROVE  ProcInv'
<1>1. proc' \in [Procs -> Invocation]
  BY DEF ProcInv
<1>2. proc'[p] = x /\ \A q \in Procs \ {p} : proc'[q] = proc[q]
  BY DEF ProcInv
<1>3. \A q \in Procs \ {p} : Stage(q)'
  <2> SUFFICES ASSUME NEW q \in Procs \ {p} PROVE Stage(q)'
    OBVIOUS
  <2>1. Stage(q)
    BY DEF ProcInv
  <2> QED BY <1>2, <2>1 DEF Stage, Active
<1>4. ImportAlone'
  <2> SUFFICES ASSUME NEW q \in Procs, NEW r \in Procs, q # r,
                      Active(q)', Active(r)', proc'[q].at = proc'[r].at
               PROVE  proc'[q].cmd # "import" /\ proc'[r].cmd # "import"
    BY DEF ImportAlone
  <2>1. CASE q # p /\ r # p
    BY <1>2, <2>1 DEF ProcInv, ImportAlone, Active
  <2>2. ASSUME NEW o \in Procs \ {p}, Active(o)', Active(p)', proc'[o].at = proc'[p].at
        PROVE  proc'[o].cmd # "import" /\ proc'[p].cmd # "import"
    <3>1. Active(o) /\ proc[o].at = x.at /\ x.pc \notin Final
      BY <1>2, <2>2 DEF Active
    <3>2. CASE Active(p) /\ x.at = proc[p].at /\ x.cmd = proc[p].cmd
      BY <1>2, <3>1, <3>2 DEF ProcInv, ImportAlone
    <3>3. CASE MayStart(p, x.cmd, x.at)
      <4>1. {x.cmd, proc[o].cmd} \subseteq Concurrent
        BY <3>1, <3>3 DEF MayStart
      <4> QED BY <1>2, <4>1, ImportRunsAlone DEF ImportRunsAlone
    <3> QED BY <3>1, <3>2, <3>3
  <2> QED BY <2>1, <2>2
<1> QED BY <1>1, <1>2, <1>3, <1>4 DEF ProcInv

(* An invocation that ends keeps nothing.                                  *)
LEMMA EndOfOne ==
  ASSUME ProcInv, NEW p \in Procs, NEW x \in Invocation, x.pc \in Final,
         proc' = [proc EXCEPT ![p] = x],
         \A q \in Procs \ {p} : proc[q].pc = "append" =>
           log'[proc[q].at] = log[proc[q].at] /\ lock'[proc[q].at] = q
  PROVE  ProcInv'
<1>1. proc'[p] = x
  BY DEF ProcInv
<1>2. Stage(p)'
  BY <1>1 DEF Stage, Active, Final
<1> QED BY <1>2, StepOfOne

LEMMA EndType ==
  ASSUME ProcInv, NEW p \in Procs, NEW result \in Final
  PROVE  /\ Begin(proc[p].cmd, proc[p].at, result) \in Invocation
         /\ Begin(proc[p].cmd, proc[p].at, result).pc = result
<1>1. proc[p].cmd \in Commands \cup {None} /\ proc[p].at \in Nodes \cup {None}
  <2>1. proc[p] \in Invocation
    BY DEF ProcInv
  <2> QED BY <2>1 DEF Invocation
<1>2. result \in Points
  BY DEF Points
<1> QED BY <1>1, <1>2, BeginType

LEMMA DiskUnchanged ==
  ASSUME DiskInv, UNCHANGED disk
  PROVE  DiskInv'
BY DEF DiskInv, disk, SnapshotsIntact, ChainIntact, OpenEnds

(* What an append relies on survives a step that leaves ledgers and locks. *)
LEMMA AppendersKeep ==
  ASSUME ProcInv, UNCHANGED <<log, lock>>
  PROVE  \A q \in Procs : proc[q].pc = "append" =>
           log'[proc[q].at] = log[proc[q].at] /\ lock'[proc[q].at] = q
BY DEF ProcInv, Stage

-----------------------------------------------------------------------------
(* Each action keeps the invariant.                                        *)
LEMMA InitEstablishes == Init => IInv
<1> SUFFICES ASSUME Init PROVE IInv
  OBVIOUS
<1>1. << >> \in Seq(Line) /\ ChainOk(<< >>)
  BY EmptySeq DEF ChainOk
<1>2. DiskInv
  BY <1>1 DEF Init, DiskInv, StateFile, SnapshotsIntact, ChainIntact, OpenEnds
<1>3. \A p \in Procs : proc[p] = Idle
  BY DEF Init
<1>4. ProcInv
  BY <1>3, IdleType DEF Init, ProcInv, Stage, ImportAlone, Active, Idle, Final
<1>5. CountInv
  BY DEF Init, CountInv
<1> QED BY <1>2, <1>4, <1>5 DEF IInv

LEMMA RunLoadKeeps ==
  ASSUME IInv, NEW p \in Procs, NEW n \in Nodes, NEW a \in Agents, RunLoad(p, n, a)
  PROVE  IInv'
<1> DEFINE red  == state[n] \in Unreadable \/ OwnerMismatch(state[n], a)
           base == Begin("run", n, "exec")
           x    == IF red THEN Begin("run", n, "red")
                   ELSE [base EXCEPT !.agent = a, !.st = Loaded(state[n])]
<1>1. proc' = [proc EXCEPT ![p] = x] /\ MayStart(p, "run", n)
  BY DEF RunLoad
<1>2. UNCHANGED <<disk, lock, crashes>> /\ UNCHANGED log
  BY DEF RunLoad, disk
<1>3. CASE red
  <2>1. x = Begin("run", n, "red") /\ x \in Invocation /\ x.pc \in Final
    BY <1>3, BeginType DEF Commands, Points, Final
  <2> HIDE DEF x
  <2>2. ProcInv'
    BY <1>1, <1>2, <2>1, AppendersKeep, EndOfOne DEF IInv
  <2> QED BY <1>2, <2>2, DiskUnchanged DEF IInv, CountInv
<1>4. CASE ~red
  <2>1. /\ base \in Invocation
        /\ base.pc = "exec" /\ base.cmd = "run" /\ base.at = n
    BY BeginType DEF Commands, Points, Final
  <2>2. Loaded(state[n]) \in State /\ Loaded(state[n]).ses < MaxSession
    BY <1>4, LoadedType DEF RunLoad, IInv, DiskInv
  <2> HIDE DEF base
  <2>3. /\ x \in Invocation
        /\ x.pc = "exec" /\ x.cmd = "run" /\ x.at = n
        /\ x.st = Loaded(state[n])
    BY <1>4, <2>1, <2>2 DEF Invocation
  <2> HIDE DEF x
  <2>4. Stage(p)'
    <3>1. proc'[p] = x
      BY <1>1 DEF IInv, ProcInv
    <3> QED BY <2>2, <2>3, <3>1 DEF Stage, Active
  <2>5. ProcInv'
    BY <1>1, <1>2, <2>3, <2>4, AppendersKeep, StepOfOne DEF IInv
  <2> QED BY <1>2, <2>5, DiskUnchanged DEF IInv, CountInv
<1> QED BY <1>3, <1>4

(* The session that is run exists.                                         *)
LEMMA SessionType ==
  ASSUME ProcInv, NEW p \in Procs, proc[p].pc \in {"exec", "account"}
  PROVE  Session(p) \in Sessions /\ proc[p].at \in Nodes /\ proc[p].cmd = "run"
<1>1. Stage(p) /\ proc[p] \in Invocation
  BY DEF ProcInv
<1>2. proc[p].st.ses \in 0..MaxSession /\ proc[p].st.ses < MaxSession
  BY <1>1 DEF Stage, Invocation, State
<1>3. Session(p) \in Sessions
  BY <1>2, PackageAssumption DEF Session, Sessions, PackageAssumption
<1> QED BY <1>1, <1>3 DEF Stage, Active, Final

LEMMA RunExecKeeps ==
  ASSUME IInv, NEW p \in Procs, NEW o \in Outputs \cup {None}, RunExec(p, o)
  PROVE  IInv'
<1>1. Session(p) \in Sessions /\ proc[p].at \in Nodes /\ proc[p].cmd = "run"
  BY SessionType DEF IInv, RunExec
<1>2. UNCHANGED <<state, haslog, log, open, snaps, lock, crashes>>
  BY DEF RunExec
<1>3. DiskInv'
  <2>1. art' \in [Nodes -> [Sessions -> Outputs \cup {None}]]
    BY <1>1 DEF RunExec, IInv, DiskInv
  <2> QED BY <1>2, <2>1 DEF IInv, DiskInv, SnapshotsIntact, ChainIntact, OpenEnds
<1>4. ProcInv'
  <2>1. CASE o = None
    <3>1. proc' = [proc EXCEPT ![p] = Begin(proc[p].cmd, proc[p].at, "red")]
      BY <2>1 DEF RunExec, End
    <3> QED BY <1>2, <3>1, EndType, AppendersKeep, EndOfOne DEF IInv, Final
  <2>2. CASE o # None
    <3> DEFINE x == [proc[p] EXCEPT !.pc = "account"]
    <3>1. proc' = [proc EXCEPT ![p] = x]
      BY <2>2 DEF RunExec, Goto
    <3>2. proc[p] \in Invocation /\ Stage(p) /\ proc[p].pc = "exec"
      BY DEF IInv, ProcInv, RunExec
    <3>3. /\ x \in Invocation
          /\ x.pc = "account" /\ x.cmd = proc[p].cmd /\ x.at = proc[p].at
          /\ x.st = proc[p].st
      BY <3>2 DEF Invocation, Points
    <3> HIDE DEF x
    <3>4. Stage(p)'
      <4>1. proc'[p] = x
        BY <3>1 DEF IInv, ProcInv
      <4> QED BY <3>2, <3>3, <4>1 DEF Stage, Active, Final
    <3>5. Active(p)
      BY <3>2 DEF Active, Final
    <3> QED BY <1>2, <3>1, <3>3, <3>4, <3>5, AppendersKeep, StepOfOne DEF IInv
  <2> QED BY <2>1, <2>2
<1> QED BY <1>2, <1>3, <1>4 DEF IInv, CountInv

(* The lock is entered by one invocation, and only while it is free.       *)
LEMMA EnterAppendKeeps ==
  ASSUME IInv, NEW p \in Procs, NEW n \in Nodes, EnterAppend(n, p),
         UNCHANGED <<log, crashes>>
  PROVE  /\ CountInv'
         /\ CanAppend(log[n]) => lock'[n] = p
         /\ \A q \in Procs \ {p} : proc[q].pc = "append" =>
              log'[proc[q].at] = log[proc[q].at] /\ lock'[proc[q].at] = q
<1>1. lock \in [Nodes -> Procs \cup {None}] /\ crashes \in Nat
  BY DEF IInv, CountInv
<1>2. CanAppend(log[n]) => lock'[n] = p
  BY <1>1 DEF EnterAppend
<1>3. ASSUME NEW q \in Procs \ {p}, proc[q].pc = "append"
      PROVE  log'[proc[q].at] = log[proc[q].at] /\ lock'[proc[q].at] = q
  <2>1. lock[proc[q].at] = q
    BY <1>3 DEF IInv, ProcInv, Stage
  <2>2. q # None
    BY PackageAssumption DEF PackageAssumption
  <2> QED BY <1>1, <2>1, <2>2 DEF EnterAppend
<1> QED BY <1>1, <1>2, <1>3 DEF EnterAppend, CountInv

LEMMA RunAccountKeeps ==
  ASSUME IInv, NEW p \in Procs, NEW adds \in SUBSET Notes, RunAccount(p, adds)
  PROVE  IInv'
<1> DEFINE n == proc[p].at
<1>1. /\ Session(p) \in Sessions /\ n \in Nodes /\ proc[p].cmd = "run"
      /\ proc[p] \in Invocation /\ proc[p].pc = "account"
  BY SessionType DEF IInv, ProcInv, RunAccount
<1>2. UNCHANGED <<disk, crashes>> /\ UNCHANGED log /\ EnterAppend(n, p)
  BY DEF RunAccount, disk
<1>3. /\ CountInv'
      /\ CanAppend(log[n]) => lock'[n] = p
      /\ \A q \in Procs \ {p} : proc[q].pc = "append" =>
           log'[proc[q].at] = log[proc[q].at] /\ lock'[proc[q].at] = q
  BY <1>1, <1>2, EnterAppendKeeps
<1>4. CASE CanAppend(log[n])
  <2> DEFINE rec == NextRecord(log[n], Charge(p))
             x   == [proc[p] EXCEPT !.pc = "append",
                                    !.st.ses = Session(p),
                                    !.st.mem = @ \cup adds,
                                    !.rec = rec]
  <2>1. Charge(p) \in Body
    <3>1. art[n][Session(p)] \in Outputs \cup {None}
      BY <1>1 DEF IInv, DiskInv
    <3>2. Session(p) \in 0..MaxSession
      BY <1>1, PackageAssumption DEF Sessions, PackageAssumption
    <3> QED BY <1>1, <3>1, <3>2 DEF Charge, Body, Ops, Signers
  <2>2. rec \in Record /\ rec.body = Charge(p)
    BY <1>1, <1>4, <2>1, NextRecordType DEF IInv, DiskInv
  <2>3. proc' = [proc EXCEPT ![p] = x]
    <3> HIDE DEF n
    <3> QED BY <1>4 DEF RunAccount, n, IInv, ProcInv
  <2>4. rec = NextRecord(log[n], rec.body)
    BY <2>2
  <2> HIDE DEF rec
  <2>5. /\ x \in Invocation
        /\ x.pc = "append" /\ x.cmd = proc[p].cmd /\ x.at = n /\ x.rec = rec
    <3>1. /\ proc[p].st \in State
          /\ Session(p) \in 0..MaxSession
          /\ proc[p].st.mem \cup adds \in SUBSET Notes
      BY <1>1, PackageAssumption DEF Invocation, State, Sessions, PackageAssumption
    <3>2. [proc[p].st EXCEPT !.ses = Session(p), !.mem = @ \cup adds] \in State
      BY <3>1 DEF State
    <3> QED BY <1>1, <2>2, <3>1, <3>2 DEF Invocation, Points, State
  <2> HIDE DEF x
  <2>6. Stage(p)'
    <3>1. proc'[p] = x
      BY <2>3 DEF IInv, ProcInv
    <3> HIDE DEF n
    <3> QED BY <1>1, <1>2, <1>3, <1>4, <2>2, <2>4, <2>5, <3>1 DEF Stage, Active
  <2>7. Active(p)
    BY <1>1 DEF Active, Final
  <2>8. ProcInv'
    BY <1>3, <2>3, <2>5, <2>6, <2>7, StepOfOne DEF IInv
  <2> QED BY <1>2, <1>3, <2>8, DiskUnchanged DEF IInv
<1>5. CASE ~CanAppend(log[n])
  <2>1. proc' = [proc EXCEPT ![p] = Begin(proc[p].cmd, proc[p].at, "raised")]
    BY <1>5 DEF RunAccount, End
  <2>2. ProcInv'
    BY <1>3, <2>1, EndType, EndOfOne DEF IInv, Final
  <2> QED BY <1>2, <1>3, <2>2, DiskUnchanged DEF IInv
<1> QED BY <1>4, <1>5

LEMMA RunRefusedKeeps ==
  ASSUME IInv, NEW p \in Procs, RunRefused(p)
  PROVE  IInv'
<1>1. UNCHANGED <<disk, lock, crashes>> /\ UNCHANGED log
  BY DEF RunRefused, disk
<1>2. PICK result \in {"red", "raised"} :
        proc' = [proc EXCEPT ![p] = Begin(proc[p].cmd, proc[p].at, result)]
  BY DEF RunRefused, End
<1>3. ProcInv'
  BY <1>1, <1>2, EndType, AppendersKeep, EndOfOne DEF IInv, Final
<1> QED BY <1>1, <1>3, DiskUnchanged DEF IInv, CountInv

LEMMA PlainAppendKeeps ==
  ASSUME IInv, NEW p \in Procs, NEW n \in Nodes, NEW op \in PlainOps,
         PlainAppend(p, n, op)
  PROVE  IInv'
<1> DEFINE body == [op |-> op, ses |-> 0, out |-> None, signer |-> NodeKey[n]]
           base == Begin("plain", n, "append")
           rec  == NextRecord(log[n], body)
           x    == IF CanAppend(log[n]) THEN [base EXCEPT !.rec = rec]
                   ELSE Begin("plain", n, "raised")
<1>1. proc' = [proc EXCEPT ![p] = x] /\ MayStart(p, "plain", n)
  BY DEF PlainAppend
<1>2. UNCHANGED <<disk, crashes>> /\ UNCHANGED log /\ EnterAppend(n, p)
  BY DEF PlainAppend, disk
<1>3. /\ CountInv'
      /\ CanAppend(log[n]) => lock'[n] = p
      /\ \A q \in Procs \ {p} : proc[q].pc = "append" =>
           log'[proc[q].at] = log[proc[q].at] /\ lock'[proc[q].at] = q
  BY <1>2, EnterAppendKeeps
<1>4. CASE CanAppend(log[n])
  <2>1. /\ base \in Invocation
        /\ base.pc = "append" /\ base.cmd = "plain" /\ base.at = n
    BY BeginType DEF Commands, Points, Final
  <2>2. body \in Body
    BY PackageAssumption DEF PackageAssumption, Body, Ops, Signers
  <2>3. rec \in Record /\ rec.body = body
    BY <1>4, <2>2, NextRecordType DEF IInv, DiskInv
  <2>4. rec = NextRecord(log[n], rec.body)
    BY <2>3
  <2> HIDE DEF rec, base
  <2>5. /\ x \in Invocation
        /\ x.pc = "append" /\ x.cmd = "plain" /\ x.at = n /\ x.rec = rec
    BY <1>4, <2>1, <2>3 DEF Invocation
  <2> HIDE DEF x
  <2>6. Stage(p)'
    <3>1. proc'[p] = x
      BY <1>1 DEF IInv, ProcInv
    <3> QED BY <1>2, <1>3, <1>4, <2>3, <2>4, <2>5, <3>1 DEF Stage, Active
  <2>7. ProcInv'
    BY <1>1, <1>3, <2>5, <2>6, StepOfOne DEF IInv
  <2> QED BY <1>2, <1>3, <2>7, DiskUnchanged DEF IInv
<1>5. CASE ~CanAppend(log[n])
  <2>1. x \in Invocation /\ x.pc \in Final
    BY <1>5, BeginType DEF Commands, Points, Final
  <2> HIDE DEF x
  <2>2. ProcInv'
    BY <1>1, <1>3, <2>1, EndOfOne DEF IInv
  <2> QED BY <1>2, <1>3, <2>2, DiskUnchanged DEF IInv
<1> QED BY <1>4, <1>5

(* A ledger receives lines; where they all parse they are a chain.         *)
LEMMA LedgerWritten ==
  ASSUME DiskInv, NEW n \in Nodes, NEW l \in Seq(Line), AllRecords(l) => ChainOk(l),
         NEW o \in BOOLEAN, o => l # << >>,
         log' = [log EXCEPT ![n] = l], open' = [open EXCEPT ![n] = o],
         haslog' = [haslog EXCEPT ![n] = TRUE], UNCHANGED <<state, art, snaps>>
  PROVE  DiskInv'
<1>1. /\ log' \in [Nodes -> Seq(Line)] /\ haslog' \in [Nodes -> BOOLEAN]
      /\ log'[n] = l /\ \A m \in Nodes \ {n} : log'[m] = log[m]
  BY DEF DiskInv
<1>2. /\ open' \in [Nodes -> BOOLEAN]
      /\ open'[n] = o /\ \A m \in Nodes \ {n} : open'[m] = open[m]
  BY DEF DiskInv
<1>3. OpenEnds'
  BY <1>1, <1>2 DEF DiskInv, OpenEnds
<1> QED BY <1>1, <1>2, <1>3 DEF DiskInv, SnapshotsIntact, ChainIntact

(* No other invocation appends where one holds the lock.                   *)
LEMMA LockKeeps ==
  ASSUME IInv, NEW p \in Procs, proc[p].pc = "append",
         NEW l, log' = [log EXCEPT ![proc[p].at] = l]
  PROVE  \A q \in Procs \ {p} : proc[q].pc = "append" =>
           log'[proc[q].at] = log[proc[q].at]
<1> SUFFICES ASSUME NEW q \in Procs \ {p}, proc[q].pc = "append"
             PROVE  log'[proc[q].at] = log[proc[q].at]
  OBVIOUS
<1>1. lock[proc[p].at] = p /\ lock[proc[q].at] = q
  BY DEF IInv, ProcInv, Stage
<1>2. proc[q].at # proc[p].at
  BY <1>1
<1>3. proc[q].at \in Nodes
  BY DEF IInv, ProcInv, Stage, Active, Final
<1> QED BY <1>2, <1>3 DEF IInv, DiskInv

(* The write: the ledger at the node is still the one the record extends,  *)
(* and no other invocation is about to append there.                       *)
LEMMA AppendLineKeeps ==
  ASSUME IInv, NEW p \in Procs, AppendLine(p)
  PROVE  IInv'
<1> DEFINE n == proc[p].at
           r == proc[p].rec
<1>1. /\ proc[p].pc = "append" /\ proc[p] \in Invocation /\ n \in Nodes
      /\ r \in Record /\ r = NextRecord(log[n], r.body) /\ lock[n] = p
      /\ Active(p)
  BY DEF AppendLine, IInv, ProcInv, Stage, Active, Final
<1>2. UNCHANGED <<state, art, snaps, crashes>>
  BY DEF AppendLine
<1>3. DiskInv'
  <2>1. /\ log[n] \in Seq(Line) /\ (AllRecords(log[n]) => ChainOk(log[n]))
        /\ open[n] \in BOOLEAN /\ (open[n] => log[n] # << >>)
    BY <1>1 DEF IInv, DiskInv, ChainIntact, OpenEnds
  <2> DEFINE l == WithLine(log[n], open[n], r)
  <2>2. l \in Seq(Line) /\ (AllRecords(l) => ChainOk(l))
    BY <1>1, <2>1, WithLineKeeps
  <2>3. /\ log' = [log EXCEPT ![n] = l] /\ open' = [open EXCEPT ![n] = FALSE]
        /\ haslog' = [haslog EXCEPT ![n] = TRUE]
    BY DEF AppendLine
  <2> HIDE DEF l
  <2> QED BY <1>1, <1>2, <2>2, <2>3, LedgerWritten DEF IInv
<1>4. CountInv'
  BY <1>2 DEF AppendLine, IInv, CountInv
<1>5. \A q \in Procs \ {p} : proc[q].pc = "append" =>
        log'[proc[q].at] = log[proc[q].at] /\ lock'[proc[q].at] = q
  <2> SUFFICES ASSUME NEW q \in Procs \ {p}, proc[q].pc = "append"
               PROVE  log'[proc[q].at] = log[proc[q].at] /\ lock'[proc[q].at] = q
    OBVIOUS
  <2>1. proc[q].at \in Nodes /\ lock[proc[q].at] = q
    BY DEF IInv, ProcInv, Stage, Active, Final
  <2> QED BY <1>1, <2>1 DEF AppendLine, IInv, DiskInv, CountInv
<1>6. CASE proc[p].cmd = "run"
  <2> DEFINE x == [proc[p] EXCEPT !.pc = "save", !.rec = None,
                                  !.st.tip = r.h, !.st.owner = proc[p].agent]
  <2>1. proc' = [proc EXCEPT ![p] = x]
    BY <1>6 DEF AppendLine, IInv, ProcInv
  <2>2. /\ x \in Invocation
        /\ x.pc = "save" /\ x.cmd = proc[p].cmd /\ x.at = n
    <3>1. r.h \in Digest /\ proc[p].agent \in Agents \cup {None} /\ proc[p].st \in State
      BY <1>1 DEF Record, Invocation
    <3>2. [proc[p].st EXCEPT !.tip = r.h, !.owner = proc[p].agent] \in State
      BY <3>1 DEF State
    <3> QED BY <1>1, <3>1, <3>2 DEF Invocation, Points, State
  <2> HIDE DEF x
  <2>3. Stage(p)'
    <3>1. proc'[p] = x
      BY <2>1 DEF IInv, ProcInv
    <3> QED BY <1>1, <2>2, <3>1 DEF Stage
  <2>4. ProcInv'
    BY <1>1, <1>5, <2>1, <2>2, <2>3, StepOfOne DEF IInv
  <2> QED BY <1>3, <1>4, <2>4 DEF IInv
<1>7. CASE proc[p].cmd # "run"
  <2>1. proc' = [proc EXCEPT ![p] = Begin(proc[p].cmd, proc[p].at, "ok")]
    BY <1>7 DEF AppendLine, End
  <2>2. ProcInv'
    BY <1>5, <2>1, EndType, EndOfOne DEF IInv, Final
  <2> QED BY <1>3, <1>4, <2>2 DEF IInv
<1> QED BY <1>6, <1>7

(* state.json receives a state.                                            *)
LEMMA StateWritten ==
  ASSUME DiskInv, NEW n \in Nodes, NEW file \in StateFile,
         state' = [state EXCEPT ![n] = file], UNCHANGED <<haslog, log, open, art, snaps>>
  PROVE  DiskInv'
BY DEF DiskInv, SnapshotsIntact, ChainIntact, OpenEnds

LEMMA SaveStateKeeps ==
  ASSUME IInv, NEW p \in Procs, SaveState(p)
  PROVE  IInv'
<1>1. proc[p] \in Invocation /\ proc[p].at \in Nodes /\ proc[p].st \in StateFile
  BY DEF SaveState, IInv, ProcInv, Stage, Active, Final, Invocation, StateFile
<1>2. UNCHANGED <<haslog, log, open, art, snaps, lock, crashes>>
  BY DEF SaveState
<1>3. DiskInv'
  BY <1>1, <1>2, StateWritten DEF SaveState, IInv
<1>4. proc' = [proc EXCEPT ![p] = Begin(proc[p].cmd, proc[p].at, "ok")]
  BY DEF SaveState, End
<1>5. ProcInv'
  BY <1>2, <1>4, EndType, AppendersKeep, EndOfOne DEF IInv, Final
<1> QED BY <1>2, <1>3, <1>5 DEF IInv, CountInv

LEMMA MemoryLoadKeeps ==
  ASSUME IInv, NEW p \in Procs, NEW n \in Nodes, NEW note \in Notes,
         MemoryLoad(p, n, note)
  PROVE  IInv'
<1> DEFINE st   == Loaded(state[n])
           full == note \notin st.mem /\ NodeCount(st) >= MaxNodes
           red  == state[n] \in Unreadable \/ full
           base == Begin("memory", n, "save")
           x    == IF red THEN Begin("memory", n, "red")
                   ELSE [base EXCEPT !.st = [st EXCEPT !.mem = @ \cup {note}]]
<1>1. proc' = [proc EXCEPT ![p] = x] /\ MayStart(p, "memory", n)
  BY DEF MemoryLoad
<1>2. UNCHANGED <<disk, lock, crashes>> /\ UNCHANGED log
  BY DEF MemoryLoad, disk
<1>3. CASE red
  <2>1. x \in Invocation /\ x.pc \in Final
    BY <1>3, BeginType DEF Commands, Points, Final
  <2> HIDE DEF x
  <2>2. ProcInv'
    BY <1>1, <1>2, <2>1, AppendersKeep, EndOfOne DEF IInv
  <2> QED BY <1>2, <2>2, DiskUnchanged DEF IInv, CountInv
<1>4. CASE ~red
  <2>1. /\ base \in Invocation
        /\ base.pc = "save" /\ base.cmd = "memory" /\ base.at = n
    BY BeginType DEF Commands, Points, Final
  <2>2. st \in State
    BY <1>4, LoadedType DEF IInv, DiskInv
  <2> HIDE DEF base, st
  <2>3. [st EXCEPT !.mem = @ \cup {note}] \in State
    BY <2>2 DEF State
  <2>4. x \in Invocation /\ x.pc = "save" /\ x.cmd = "memory" /\ x.at = n
    BY <1>4, <2>1, <2>3 DEF Invocation
  <2> HIDE DEF x
  <2>5. Stage(p)'
    <3>1. proc'[p] = x
      BY <1>1 DEF IInv, ProcInv
    <3> QED BY <2>4, <3>1 DEF Stage, Active
  <2>6. ProcInv'
    BY <1>1, <1>2, <2>4, <2>5, AppendersKeep, StepOfOne DEF IInv
  <2> QED BY <1>2, <2>6, DiskUnchanged DEF IInv, CountInv
<1> QED BY <1>3, <1>4

-----------------------------------------------------------------------------
(* Export and import move chains that verify.                              *)
LEMMA ExportStateKeeps ==
  ASSUME IInv, NEW p \in Procs, NEW n \in Nodes, NEW a \in Agents,
         ExportState(p, n, a)
  PROVE  IInv'
<1> DEFINE st   == IF state[n] = EmptyFile THEN EmptyState ELSE Loaded(state[n])
           base == Begin("export", n, "collect")
           x    == IF state[n] = PartialFile THEN Begin("export", n, "red")
                   ELSE [base EXCEPT !.agent = a, !.st = st]
<1>1. proc' = [proc EXCEPT ![p] = x] /\ MayStart(p, "export", n)
  BY DEF ExportState
<1>2. UNCHANGED <<disk, lock, crashes>> /\ UNCHANGED log
  BY DEF ExportState, disk
<1>3. CASE state[n] = PartialFile
  <2>1. x \in Invocation /\ x.pc \in Final
    BY <1>3, BeginType DEF Commands, Points, Final
  <2> HIDE DEF x
  <2>2. ProcInv'
    BY <1>1, <1>2, <2>1, AppendersKeep, EndOfOne DEF IInv
  <2> QED BY <1>2, <2>2, DiskUnchanged DEF IInv, CountInv
<1>4. CASE state[n] # PartialFile
  <2>1. /\ base \in Invocation
        /\ base.pc = "collect" /\ base.cmd = "export" /\ base.at = n
    BY BeginType DEF Commands, Points, Final
  <2>2. st \in State
    <3>1. state[n] \in StateFile
      BY DEF IInv, DiskInv
    <3> QED BY <1>4, <3>1, LoadedType, IdleType DEF Unreadable
  <2> HIDE DEF base, st
  <2>3. /\ x \in Invocation /\ x.pc = "collect" /\ x.cmd = "export" /\ x.at = n
        /\ x.agent = a
    BY <1>4, <2>1, <2>2 DEF Invocation
  <2> HIDE DEF x
  <2>4. Stage(p)'
    <3>1. proc'[p] = x
      BY <1>1 DEF IInv, ProcInv
    <3> QED BY <2>3, <3>1 DEF Stage, Active
  <2>5. ProcInv'
    BY <1>1, <1>2, <2>3, <2>4, AppendersKeep, StepOfOne DEF IInv
  <2> QED BY <1>2, <2>5, DiskUnchanged DEF IInv, CountInv
<1> QED BY <1>3, <1>4

LEMMA ExportLedgerKeeps ==
  ASSUME IInv, NEW p \in Procs, ExportLedger(p)
  PROVE  IInv'
<1> DEFINE n == proc[p].at
           s == [agent |-> proc[p].agent, st |-> proc[p].st, recs |-> log[n]]
<1>1. /\ proc[p] \in Invocation /\ n \in Nodes /\ proc[p].agent \in Agents
  BY DEF ExportLedger, IInv, ProcInv, Stage, Active, Final
<1>2. UNCHANGED <<state, haslog, log, open, art, lock, crashes>>
  BY DEF ExportLedger
<1>3. DiskInv'
  <2>1. CASE AllRecords(log[n])
    <3>1. log[n] \in Seq(Record) /\ ChainOk(log[n])
      BY <1>1, <2>1, LinesAndRecords DEF IInv, DiskInv, ChainIntact
    <3>2. s \in Snapshot
      BY <1>1, <3>1 DEF Snapshot, Invocation
    <3>3. snaps' = snaps \cup {s}
      BY <2>1 DEF ExportLedger
    <3> QED BY <1>2, <3>1, <3>2, <3>3 DEF IInv, DiskInv, SnapshotsIntact, ChainIntact, OpenEnds
  <2>2. CASE ~AllRecords(log[n])
    <3>1. snaps' = snaps
      BY <2>2 DEF ExportLedger
    <3> QED BY <1>2, <3>1, DiskUnchanged DEF IInv, disk
  <2> QED BY <2>1, <2>2
<1>4. PICK result \in {"ok", "red"} :
        proc' = [proc EXCEPT ![p] = Begin(proc[p].cmd, proc[p].at, result)]
  BY DEF ExportLedger, End
<1>5. ProcInv'
  BY <1>2, <1>4, EndType, AppendersKeep, EndOfOne DEF IInv, Final
<1> QED BY <1>2, <1>3, <1>5 DEF IInv, CountInv

LEMMA ImportCheckKeeps ==
  ASSUME IInv, NEW p \in Procs, NEW n \in Nodes, NEW s \in snaps,
         ImportCheck(p, n, s)
  PROVE  IInv'
<1> DEFINE ends == state[n] \in Unreadable \/ ImportRejects(n, s)
           base == Begin("import", n, "install")
           x    == IF state[n] \in Unreadable THEN Begin("import", n, "raised")
                   ELSE IF ImportRejects(n, s) THEN Begin("import", n, "red")
                   ELSE [base EXCEPT !.snap = s, !.st = s.st]
<1>1. proc' = [proc EXCEPT ![p] = x] /\ MayStart(p, "import", n)
  BY DEF ImportCheck
<1>2. UNCHANGED <<disk, lock, crashes>> /\ UNCHANGED log
  BY DEF ImportCheck, disk
<1>3. CASE ends
  <2>1. x \in Invocation /\ x.pc \in Final
    BY <1>3, BeginType DEF Commands, Points, Final
  <2> HIDE DEF x
  <2>2. ProcInv'
    BY <1>1, <1>2, <2>1, AppendersKeep, EndOfOne DEF IInv
  <2> QED BY <1>2, <2>2, DiskUnchanged DEF IInv, CountInv
<1>4. CASE ~ends
  <2>1. /\ base \in Invocation
        /\ base.pc = "install" /\ base.cmd = "import" /\ base.at = n
    BY BeginType DEF Commands, Points, Final
  <2>2. s \in Snapshot /\ s.st \in State /\ ChainOk(s.recs)
    BY DEF IInv, DiskInv, SnapshotsIntact, Snapshot
  <2> HIDE DEF base
  <2>3. /\ x \in Invocation /\ x.pc = "install" /\ x.cmd = "import" /\ x.at = n
        /\ x.snap = s
    BY <1>4, <2>1, <2>2 DEF Invocation
  <2> HIDE DEF x
  <2>4. Stage(p)'
    <3>1. proc'[p] = x
      BY <1>1 DEF IInv, ProcInv
    <3> QED BY <2>2, <2>3, <3>1 DEF Stage, Active
  <2>5. ProcInv'
    BY <1>1, <1>2, <2>3, <2>4, AppendersKeep, StepOfOne DEF IInv
  <2> QED BY <1>2, <2>5, DiskUnchanged DEF IInv, CountInv
<1> QED BY <1>3, <1>4

(* An import goes on: what it holds stays with it.                         *)
LEMMA ImportGoesOn ==
  ASSUME ProcInv, NEW p \in Procs, proc[p].pc \in {"install", "chain"},
         NEW pc \in {"chain", "save"}, Goto(p, pc),
         \A q \in Procs \ {p} : proc[q].pc = "append" =>
           log'[proc[q].at] = log[proc[q].at] /\ lock'[proc[q].at] = q
  PROVE  ProcInv'
<1> DEFINE x == [proc[p] EXCEPT !.pc = pc]
<1>1. proc' = [proc EXCEPT ![p] = x]
  BY DEF Goto
<1>2. proc[p] \in Invocation /\ Stage(p) /\ Active(p)
  BY DEF ProcInv, Active, Final
<1>3. /\ x \in Invocation
      /\ x.pc = pc /\ x.cmd = proc[p].cmd /\ x.at = proc[p].at
      /\ x.snap = proc[p].snap
  BY <1>2 DEF Invocation, Points
<1> HIDE DEF x
<1>4. Stage(p)'
  <2>1. proc'[p] = x
    BY <1>1 DEF ProcInv
  <2> QED BY <1>2, <1>3, <2>1 DEF Stage, Active, Final
<1> QED BY <1>1, <1>2, <1>3, <1>4, StepOfOne

LEMMA ImportInstallKeeps ==
  ASSUME IInv, NEW p \in Procs, ImportInstall(p)
  PROVE  IInv'
<1> DEFINE n == proc[p].at
<1>1. /\ proc[p] \in Invocation /\ n \in Nodes /\ proc[p].st \in StateFile
      /\ proc[p].pc = "install"
  BY DEF ImportInstall, IInv, ProcInv, Stage, Active, Final, Invocation, StateFile
<1>2. UNCHANGED <<haslog, log, open, art, snaps, lock, crashes>>
  BY DEF ImportInstall
<1>3. DiskInv'
  <2>1. CASE haslog[n]
    BY <1>2, <2>1, DiskUnchanged DEF ImportInstall, IInv, disk
  <2>2. CASE ~haslog[n]
    BY <1>1, <1>2, <2>2, StateWritten DEF ImportInstall, IInv
  <2> QED BY <2>1, <2>2
<1>4. Goto(p, "save") \/ Goto(p, "chain")
  BY DEF ImportInstall
<1>5. ProcInv'
  BY <1>1, <1>2, <1>4, AppendersKeep, ImportGoesOn DEF IInv
<1> QED BY <1>2, <1>3, <1>5 DEF IInv, CountInv

(* No other invocation appends where one imports.                          *)
LEMMA NoAppendBeside ==
  ASSUME ProcInv, NEW p \in Procs, proc[p].pc = "chain",
         NEW q \in Procs \ {p}, proc[q].pc = "append"
  PROVE  proc[q].at # proc[p].at
BY DEF ProcInv, Stage, ImportAlone, Active, Final

LEMMA ImportLedgerKeeps ==
  ASSUME IInv, NEW p \in Procs, ImportLedger(p)
  PROVE  IInv'
<1> DEFINE n    == proc[p].at
           recs == proc[p].snap.recs
           known == \A i \in 1..Len(recs) : recs[i].body.op \in KnownOps[n]
<1>1. /\ proc[p].pc = "chain" /\ n \in Nodes
      /\ proc[p].snap \in Snapshot /\ ChainOk(recs)
  BY DEF ImportLedger, IInv, ProcInv, Stage, Active, Final
<1>2. UNCHANGED <<state, art, snaps, lock, crashes>>
  BY DEF ImportLedger
<1>3. CASE known
  <2>1. /\ log' = [log EXCEPT ![n] = recs] /\ open' = [open EXCEPT ![n] = FALSE]
        /\ haslog' = [haslog EXCEPT ![n] = TRUE]
        /\ Goto(p, "save")
    BY <1>3 DEF ImportLedger
  <2>2. recs \in Seq(Line)
    BY <1>1, LinesAndRecords DEF Snapshot
  <2>3. DiskInv'
    BY <1>1, <1>2, <2>1, <2>2, LedgerWritten DEF IInv
  <2>4. \A q \in Procs \ {p} : proc[q].pc = "append" =>
          log'[proc[q].at] = log[proc[q].at] /\ lock'[proc[q].at] = q
    <3> SUFFICES ASSUME NEW q \in Procs \ {p}, proc[q].pc = "append"
                 PROVE  log'[proc[q].at] = log[proc[q].at] /\ lock'[proc[q].at] = q
      OBVIOUS
    <3>1. proc[q].at # n
      BY <1>1, NoAppendBeside DEF IInv
    <3>2. proc[q].at \in Nodes /\ lock[proc[q].at] = q
      BY DEF IInv, ProcInv, Stage, Active, Final
    <3> QED BY <1>2, <2>1, <3>1, <3>2 DEF IInv, DiskInv
  <2>5. ProcInv'
    BY <1>1, <2>1, <2>4, ImportGoesOn DEF IInv
  <2> QED BY <1>2, <2>3, <2>5 DEF IInv, CountInv
<1>4. CASE ~known
  <2>1. UNCHANGED <<log, open, haslog>>
    BY <1>4 DEF ImportLedger
  <2>2. proc' = [proc EXCEPT ![p] = Begin(proc[p].cmd, proc[p].at, "red")]
    BY <1>4 DEF ImportLedger, End
  <2>3. ProcInv'
    BY <1>2, <2>1, <2>2, EndType, AppendersKeep, EndOfOne DEF IInv, Final
  <2> QED BY <1>2, <2>1, <2>3, DiskUnchanged DEF IInv, CountInv, disk
<1> QED BY <1>3, <1>4

-----------------------------------------------------------------------------
(* The end and the death of an invocation.                                 *)
LEMMA ExitKeeps ==
  ASSUME IInv, NEW p \in Procs, Exit(p)
  PROVE  IInv'
<1>1. UNCHANGED <<disk, lock, crashes>> /\ UNCHANGED log
  BY DEF Exit, disk
<1>2. proc' = [proc EXCEPT ![p] = Idle] /\ Idle \in Invocation /\ Idle.pc \in Final
  BY IdleType DEF Exit, Idle, Final
<1>3. ProcInv'
  BY <1>1, <1>2, AppendersKeep, EndOfOne DEF IInv
<1> QED BY <1>1, <1>3, DiskUnchanged DEF IInv, CountInv

(* A death frees the lock that the invocation held, and no other.          *)
LEMMA DeathKeeps ==
  ASSUME IInv, NEW p \in Procs, Dies(p), DiskInv',
         \A q \in Procs \ {p} : proc[q].pc = "append" =>
           log'[proc[q].at] = log[proc[q].at]
  PROVE  IInv'
<1>1. CountInv'
  BY DEF Dies, IInv, CountInv
<1>2. \A q \in Procs \ {p} : proc[q].pc = "append" =>
        log'[proc[q].at] = log[proc[q].at] /\ lock'[proc[q].at] = q
  <2> SUFFICES ASSUME NEW q \in Procs \ {p}, proc[q].pc = "append"
               PROVE  lock'[proc[q].at] = q
    OBVIOUS
  <2>1. proc[q].at \in Nodes /\ lock[proc[q].at] = q
    BY DEF IInv, ProcInv, Stage, Active, Final
  <2> QED BY <2>1 DEF Dies
<1>3. proc' = [proc EXCEPT ![p] = Idle] /\ Idle \in Invocation /\ Idle.pc \in Final
  BY IdleType DEF Dies, Idle, Final
<1>4. ProcInv'
  BY <1>2, <1>3, EndOfOne DEF IInv
<1> QED BY <1>1, <1>4 DEF IInv

LEMMA CrashKeeps ==
  ASSUME IInv, NEW p \in Procs, Crash(p)
  PROVE  IInv'
BY DiskUnchanged, DeathKeeps DEF Crash, IInv, disk

LEMMA CrashInExecKeeps ==
  ASSUME IInv, NEW p \in Procs, CrashInExec(p)
  PROVE  IInv'
<1>1. Session(p) \in Sessions /\ proc[p].at \in Nodes
  BY SessionType DEF IInv, CrashInExec
<1>2. DiskInv'
  <2>1. art' \in [Nodes -> [Sessions -> Outputs \cup {None}]]
    BY <1>1 DEF CrashInExec, IInv, DiskInv
  <2> QED BY <2>1 DEF CrashInExec, IInv, DiskInv, SnapshotsIntact, ChainIntact, OpenEnds
<1> QED BY <1>2, DeathKeeps DEF CrashInExec

LEMMA CrashInAppendKeeps ==
  ASSUME IInv, NEW p \in Procs, NEW whole \in BOOLEAN, CrashInAppend(p, whole)
  PROVE  IInv'
<1> DEFINE n == proc[p].at
           r == proc[p].rec
           l == IF whole THEN Append(log[n], r) ELSE WithTornLine(log[n], open[n])
<1>1. /\ n \in Nodes /\ proc[p].pc = "append"
      /\ r \in Record /\ r = NextRecord(log[n], r.body)
  BY DEF CrashInAppend, IInv, ProcInv, Stage, Active, Final
<1>2. /\ log' = [log EXCEPT ![n] = l] /\ open' = [open EXCEPT ![n] = whole]
      /\ haslog' = [haslog EXCEPT ![n] = TRUE] /\ UNCHANGED <<state, art, snaps>>
      /\ (whole => Ended(log[n], open[n])) /\ Dies(p)
  BY DEF CrashInAppend
<1>3. /\ log[n] \in Seq(Line) /\ (AllRecords(log[n]) => ChainOk(log[n]))
      /\ open[n] \in BOOLEAN /\ (open[n] => log[n] # << >>)
  BY <1>1 DEF IInv, DiskInv, ChainIntact, OpenEnds
<1>4. l \in Seq(Line) /\ (AllRecords(l) => ChainOk(l)) /\ (whole => l # << >>)
  <2>1. CASE whole
    <3>1. l = WithLine(log[n], open[n], r)
      BY <1>2, <2>1 DEF WithLine
    <3> QED BY <1>1, <1>2, <1>3, <2>1, <3>1, WithLineKeeps
  <2>2. CASE ~whole
    BY <1>3, <2>2, WithTornLineType
  <2> QED BY <2>1, <2>2
<1> HIDE DEF l
<1>5. DiskInv'
  BY <1>1, <1>2, <1>4, LedgerWritten DEF IInv
<1>6. \A q \in Procs \ {p} : proc[q].pc = "append" =>
        log'[proc[q].at] = log[proc[q].at]
  BY <1>1, <1>2, LockKeeps
<1> QED BY <1>2, <1>5, <1>6, DeathKeeps

LEMMA CrashInSaveKeeps ==
  ASSUME IInv, NEW p \in Procs, NEW file \in Unreadable, CrashInSave(p, file)
  PROVE  IInv'
<1>1. proc[p].at \in Nodes
  BY DEF CrashInSave, WritesState, IInv, ProcInv, Stage, Active, Final
<1>2. DiskInv'
  BY <1>1, StateWritten DEF CrashInSave, IInv, StateFile
<1> QED BY <1>2, DeathKeeps DEF CrashInSave

LEMMA CrashInLedgerKeeps ==
  ASSUME IInv, NEW p \in Procs, NEW k \in 0..MaxLog, NEW cut \in {"none", "line", "newline"},
         CrashInLedger(p, k, cut)
  PROVE  IInv'
<1> DEFINE n    == proc[p].at
           recs == proc[p].snap.recs
           head == SubSeq(recs, 1, k)
           l    == IF cut = "line" THEN Append(head, Torn) ELSE head
           o    == (cut = "newline")
<1>1. /\ proc[p].pc = "chain" /\ n \in Nodes
      /\ recs \in Seq(Record) /\ ChainOk(recs)
  BY DEF CrashInLedger, IInv, ProcInv, Stage, Active, Final, Snapshot
<1>2. k \in Nat /\ k <= Len(recs) /\ (o => k # 0)
  <2>1. k \in Nat /\ Len(recs) \in Nat
    BY <1>1, LenProperties, PackageAssumption DEF PackageAssumption
  <2>2. IF o THEN k \in 1..Len(recs) ELSE k < Len(recs)
    BY DEF CrashInLedger
  <2> QED BY <2>1, <2>2
<1>3. head \in Seq(Line) /\ ChainOk(head) /\ Len(head) = k
  BY <1>1, <1>2, PrefixIntact
<1>4. /\ log' = [log EXCEPT ![n] = l] /\ haslog' = [haslog EXCEPT ![n] = TRUE]
      /\ open' = [open EXCEPT ![n] = o]
  BY DEF CrashInLedger
<1>5. DiskInv'
  <2>1. l \in Seq(Line) /\ (AllRecords(l) => ChainOk(l))
    BY <1>3, TornAtEnd
  <2>2. o \in BOOLEAN /\ (o => l # << >>)
    <3>1. o => l = head
      OBVIOUS
    <3> HIDE DEF l, head
    <3> QED BY <1>2, <1>3, <3>1, EmptySeq
  <2> HIDE DEF l, o
  <2> QED BY <1>1, <1>4, <2>1, <2>2, LedgerWritten DEF CrashInLedger, IInv
<1>6. \A q \in Procs \ {p} : proc[q].pc = "append" =>
        log'[proc[q].at] = log[proc[q].at]
  <2> SUFFICES ASSUME NEW q \in Procs \ {p}, proc[q].pc = "append"
               PROVE  log'[proc[q].at] = log[proc[q].at]
    OBVIOUS
  <2>1. proc[q].at # n
    BY <1>1, NoAppendBeside DEF IInv
  <2>2. proc[q].at \in Nodes
    BY DEF IInv, ProcInv, Stage, Active, Final
  <2> QED BY <1>4, <2>1, <2>2 DEF IInv, DiskInv
<1> QED BY <1>5, <1>6, DeathKeeps DEF CrashInLedger

-----------------------------------------------------------------------------
LEMMA NextKeeps == IInv /\ [Next]_vars => IInv'
<1> SUFFICES ASSUME IInv, [Next]_vars PROVE IInv'
  OBVIOUS
<1>1. CASE UNCHANGED vars
  BY <1>1 DEF vars, IInv, DiskInv, ProcInv, CountInv, Stage, Active, ImportAlone,
     SnapshotsIntact, ChainIntact, OpenEnds
<1>2. ASSUME NEW p \in Procs, Run(p) PROVE IInv'
  BY <1>2, RunLoadKeeps, RunExecKeeps, RunAccountKeeps, RunRefusedKeeps DEF Run
<1>3. ASSUME NEW p \in Procs, Import(p) PROVE IInv'
  BY <1>3, ImportCheckKeeps, ImportInstallKeeps, ImportLedgerKeeps DEF Import
<1>4. ASSUME NEW p \in Procs, Failure(p) PROVE IInv'
  BY <1>4, CrashKeeps, CrashInExecKeeps, CrashInAppendKeeps, CrashInSaveKeeps,
     CrashInLedgerKeeps DEF Failure
<1>5. ASSUME NEW p \in Procs, NEW n \in Nodes, NEW op \in PlainOps, PlainAppend(p, n, op)
      PROVE  IInv'
  BY <1>5, PlainAppendKeeps
<1>6. ASSUME NEW p \in Procs, NEW n \in Nodes, NEW note \in Notes, MemoryLoad(p, n, note)
      PROVE  IInv'
  BY <1>6, MemoryLoadKeeps
<1>7. ASSUME NEW p \in Procs, NEW n \in Nodes, NEW a \in Agents, ExportState(p, n, a)
      PROVE  IInv'
  BY <1>7, ExportStateKeeps
<1>8. ASSUME NEW p \in Procs,
             AppendLine(p) \/ SaveState(p) \/ ExportLedger(p) \/ Exit(p)
      PROVE  IInv'
  BY <1>8, AppendLineKeeps, SaveStateKeeps, ExportLedgerKeeps, ExitKeeps
<1> QED BY <1>1, <1>2, <1>3, <1>4, <1>5, <1>6, <1>7, <1>8 DEF Next

(* The inductive invariant holds in every state.                           *)
THEOREM Invariance == Spec => []IInv
BY InitEstablishes, NextKeeps, PTL DEF Spec

(* Every variable of the packages stays in its domain.                     *)
THEOREM TypeCorrect == Spec => []TypeOK
<1>1. IInv => TypeOK
  BY DEF IInv, DiskInv, ProcInv, CountInv, TypeOK
<1> QED BY <1>1, Invariance, PTL

(* A ledger whose lines all parse verifies (_verify_chain), after any      *)
(* interleaving of appends and after any number of deaths.                 *)
THEOREM ChainIntactHolds == Spec => []ChainIntact
<1>1. IInv => ChainIntact
  BY DEF IInv, DiskInv
<1> QED BY <1>1, Invariance, PTL

(* A snapshot that export writes verifies on every node (cmd_export reads  *)
(* the ledger while a thread may append to it).                            *)
THEOREM SnapshotsVerify == Spec => []SnapshotsIntact
<1>1. IInv => SnapshotsIntact
  BY DEF IInv, DiskInv
<1> QED BY <1>1, Invariance, PTL
=============================================================================
