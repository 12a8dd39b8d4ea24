-------------------------- MODULE OracleDaemonProofs --------------------------
(***************************************************************************)
(* Proofs about the relayer daemon, for every set of requests and every    *)
(* value of the bounds: the types, what the replay cache says of the       *)
(* chain, and how many faults a request fulfilled twice takes.             *)
(*                                                                         *)
(* CacheInv ties the cache, its file and the mempool to the daemon's place *)
(* in the loop.  DebtInv keeps the account of every request: a fulfilment  *)
(* that is neither remembered nor awaited was paid for by a fault.         *)
(***************************************************************************)
EXTENDS OracleDaemon, TLAPS

(* The cache in memory holds what the file holds, as long as every start   *)
(* could read it; what either holds is fulfilled on chain, and no longer   *)
(* pending then.                                                           *)
CacheInv ==
  /\ pc \in {"run", "submit", "wait", "save"} => serving # None
  /\ pc # "down" /\ ~forgot => file \subseteq cache
  /\ pc = "down" => cache = {}
  /\ pc \in {"run", "submit", "wait"} => serving \notin cache
  /\ pc = "save" => serving \in cache
  /\ pc = "wait" => pool \in {serving, None}
  /\ pc = "wait" /\ pool = None /\ status = "ok" => success[serving] > 0
  /\ \A r \in cache \cup file : success[r] > 0
  /\ ~forgot => \A r \in cache \cup file : pool # r

\* Fulfilments of r, the one that may still come out of the mempool included.
Owed(r) == success[r] + (IF pool = r THEN 1 ELSE 0)

(* r's fulfilment is on disk, and in memory while there is a process; or   *)
(* the process is about to save it, or still learns of it.                 *)
Known(r) ==
  \/ r \in file /\ (pc = "down" \/ r \in cache)
  \/ pc = "save" /\ serving = r
  \/ pc = "wait" /\ serving = r /\ (pool = r \/ status = "ok")

(* Every fulfilment of a request but one that is known was paid for by a   *)
(* fault of its own, as long as faults are counted.                        *)
Paid(r) == Owed(r) <= faults + (IF Known(r) THEN 1 ELSE 0)
DebtInv == faults < MaxFaults => \A r \in Requests : Paid(r)

IInv == TypeOK /\ CacheInv /\ DebtInv

-----------------------------------------------------------------------------
LEMMA BumpType ==
  ASSUME NEW bound \in Nat, NEW count \in 0..bound
  PROVE  Bump(count, bound) \in 0..bound
BY OracleAssumption DEF Bump

\* The bounds are numbers and None is neither a request nor a number.
LEMMA Constants ==
  /\ Backfill \in Nat /\ MaxHead \in Nat /\ MaxFaults \in Nat /\ MaxCharges \in Nat
  /\ FromBlock # None => FromBlock \in Nat
  /\ None \notin Requests
BY OracleAssumption

LEMMA InitType == Init => TypeOK
<1> SUFFICES ASSUME Init PROVE TypeOK
  OBVIOUS
<1>1. /\ head \in 1..(MaxHead + 1) /\ cursor \in Nat /\ faults \in 0..MaxFaults
      /\ block \in [Requests -> 0..(MaxHead + 1)]
      /\ success \in [Requests -> 0..(MaxFaults + 1)]
      /\ charges \in [Requests -> 0..MaxCharges]
  BY Constants DEF Init
<1>2. QED
  BY <1>1 DEF Init, TypeOK

\* What each step of the chain or of the daemon does to the types.
LEMMA ChainType ==
  ASSUME TypeOK,
         \/ \E S \in SUBSET Requests : NewBlock(S)
         \/ \E result \in {"ok", "reverted"} : MineTx(result)
  PROVE  TypeOK'
<1>1. ASSUME NEW S \in SUBSET Requests, NewBlock(S) PROVE TypeOK'
  BY <1>1, Constants DEF TypeOK, NewBlock, daemon
<1>2. ASSUME NEW result \in {"ok", "reverted"}, MineTx(result) PROVE TypeOK'
  <2>1. pool \in Requests /\ success[pool] \in 0..(MaxFaults + 1)
    BY <1>2 DEF TypeOK, MineTx
  <2>2. Bump(success[pool], MaxFaults + 1) \in 0..(MaxFaults + 1)
    BY <2>1, Constants, BumpType
  <2>3. head' \in 1..(MaxHead + 1)
    BY <1>2, Constants DEF TypeOK, MineTx, Bump
  <2>4. QED
    BY <1>2, <2>2, <2>3 DEF TypeOK, MineTx, daemon
<1>3. QED
  BY <1>1, <1>2

LEMMA FaultType ==
  ASSUME TypeOK, Smooth \/ Fault \/ faults' = Bump(faults, MaxFaults)
  PROVE  faults' \in 0..MaxFaults
BY Constants DEF TypeOK, Smooth, Fault, Bump

LEMMA StartType ==
  ASSUME TypeOK, Start \/ SetCursor
  PROVE  TypeOK'
<1>1. faults' \in 0..MaxFaults
  BY FaultType DEF Start, SetCursor
<1>2. CASE Start
  BY <1>1, <1>2 DEF TypeOK, Start, chain
<1>3. CASE SetCursor
  <2>1. cursor' \in Nat
    BY <1>3, Constants DEF SetCursor, TypeOK
  <2>2. QED
    BY <1>1, <1>3, <2>1 DEF TypeOK, SetCursor, chain
<1>4. QED
  BY <1>2, <1>3

LEMMA LoopType ==
  ASSUME TypeOK, Fetch \/ Done \/ Advance \/ Crash \/ (\E r \in Requests : Skip(r))
  PROVE  TypeOK'
<1>1. faults' \in 0..MaxFaults
  BY FaultType DEF Fetch, Done, Advance, Crash, Skip
<1>2. CASE Fetch
  BY <1>1, <1>2 DEF TypeOK, Fetch, chain
<1>3. CASE Done
  BY <1>1, <1>3 DEF TypeOK, Done, chain
<1>4. CASE Advance
  BY <1>1, <1>4 DEF TypeOK, Advance, chain
<1>5. CASE Crash
  BY <1>1, <1>5 DEF TypeOK, Crash, Dies, chain
<1>6. ASSUME NEW r \in Requests, Skip(r) PROVE TypeOK'
  BY <1>1, <1>6 DEF TypeOK, Skip, chain
<1>7. QED
  BY <1>2, <1>3, <1>4, <1>5, <1>6

LEMMA ExecuteType ==
  ASSUME TypeOK, NEW r \in Requests, Execute(r)
  PROVE  TypeOK'
<1>1. faults' \in 0..MaxFaults
  BY FaultType DEF Execute
<1>2. answer' \in [Requests -> {"ok", "red", None}]
  BY DEF Execute, Red, TypeOK
<1>3. QED
  BY <1>1, <1>2 DEF TypeOK, Execute, Red, Dies, chain

LEMMA RunReturnsType ==
  ASSUME TypeOK, serving \in Requests, RunReturns
  PROVE  TypeOK'
<1>1. faults' \in 0..MaxFaults
  BY FaultType DEF RunReturns
<1>2. Bump(charges[serving], MaxCharges) \in 0..MaxCharges
  BY Constants, BumpType DEF TypeOK
<1>3. charges' \in [Requests -> 0..MaxCharges]
  BY <1>2 DEF RunReturns, Charged, TypeOK
<1>4. answer' \in [Requests -> {"ok", "red", None}]
  BY DEF RunReturns, Red, TypeOK
<1>5. QED
  BY <1>1, <1>3, <1>4 DEF TypeOK, RunReturns, Red, Dies, chain

\* Of the steps below, each has a request in hand.
LEMMA AnswerType ==
  ASSUME TypeOK, serving \in Requests, Submit \/ Receipt \/ Timeout \/ Save
  PROVE  TypeOK'
<1>1. faults' \in 0..MaxFaults
  BY FaultType DEF Submit, Receipt, Timeout, Save
<1>2. CASE Submit
  BY <1>1, <1>2 DEF TypeOK, Submit, Red
<1>3. CASE Receipt
  BY <1>1, <1>3 DEF TypeOK, Receipt, Red, chain
<1>4. CASE Timeout
  BY <1>1, <1>4 DEF TypeOK, Timeout, Red, chain
<1>5. CASE Save
  BY <1>1, <1>5 DEF TypeOK, Save, chain
<1>6. QED
  BY <1>2, <1>3, <1>4, <1>5

LEMMA TypeStep ==
  ASSUME TypeOK, CacheInv, [Next]_vars
  PROVE  TypeOK'
<1>1. CASE UNCHANGED vars
  BY <1>1 DEF TypeOK, vars, chain, daemon
<1>2. CASE Start \/ SetCursor \/ Fetch \/ Done \/ Advance \/ Crash
  BY <1>2, StartType, LoopType
<1>3. CASE RunReturns \/ Submit \/ Receipt \/ Timeout \/ Save
  <2>1. serving \in Requests
    BY <1>3 DEF RunReturns, Submit, Receipt, Timeout, Save, CacheInv, TypeOK
  <2>2. QED
    BY <1>3, <2>1, RunReturnsType, AnswerType
<1>4. ASSUME NEW r \in Requests, Skip(r) \/ Execute(r) PROVE TypeOK'
  BY <1>4, LoopType, ExecuteType
<1>5. QED
  BY <1>1, <1>2, <1>3, <1>4, ChainType DEF Next, Work

-----------------------------------------------------------------------------
LEMMA BumpPositive ==
  ASSUME NEW bound \in Nat, NEW count \in 0..bound
  PROVE  /\ Bump(count, bound) >= count /\ Bump(count, bound) <= count + 1
         /\ bound > 0 => Bump(count, bound) > 0
BY DEF Bump

\* The chain fulfils a request that is pending, and that nobody remembers.
LEMMA ChainKeepsCache ==
  ASSUME TypeOK, CacheInv,
         \/ \E S \in SUBSET Requests : NewBlock(S)
         \/ \E result \in {"ok", "reverted"} : MineTx(result)
  PROVE  CacheInv'
<1>1. ASSUME NEW S \in SUBSET Requests, NewBlock(S) PROVE CacheInv'
  BY <1>1 DEF CacheInv, NewBlock, daemon
<1>2. ASSUME NEW result \in {"ok", "reverted"}, MineTx(result) PROVE CacheInv'
  <2>1. pool \in Requests /\ success[pool] \in 0..(MaxFaults + 1)
    BY <1>2 DEF TypeOK, MineTx
  <2>2. /\ Bump(success[pool], MaxFaults + 1) > 0
        /\ \A r \in Requests : success[r] > 0 => success'[r] > 0
    BY <1>2, <2>1, Constants, BumpPositive DEF MineTx, TypeOK
  <2>3. result = "ok" => success'[pool] > 0
    BY <1>2, <2>1, <2>2 DEF MineTx, TypeOK
  <2>4. \A r \in cache \cup file : success'[r] > 0 /\ pool' # r
    BY <1>2, <2>2, Constants DEF MineTx, CacheInv, TypeOK
  <2>5. UNCHANGED <<pc, serving, cache, file, forgot>> /\ pool' = None /\ status' = result
    BY <1>2 DEF MineTx, daemon
  <2>6. QED
    BY <1>2, <2>3, <2>4, <2>5 DEF CacheInv, MineTx
<1>3. QED
  BY <1>1, <1>2

LEMMA LoopKeepsCache ==
  ASSUME TypeOK, CacheInv,
         \/ Start \/ SetCursor \/ Fetch \/ Done \/ Advance \/ Crash
         \/ \E r \in Requests : Skip(r)
  PROVE  CacheInv'
<1>0. CASE SetCursor
  BY <1>0 DEF TypeOK, CacheInv, SetCursor, chain
<1>1. CASE Start
  BY <1>1, Constants DEF TypeOK, CacheInv, Start, chain
<1>2. CASE Fetch
  BY <1>2 DEF TypeOK, CacheInv, Fetch, chain
<1>3. CASE Done
  BY <1>3 DEF TypeOK, CacheInv, Done, chain
<1>4. CASE Advance
  BY <1>4 DEF TypeOK, CacheInv, Advance, chain
<1>5. CASE Crash
  BY <1>5 DEF TypeOK, CacheInv, Crash, Dies, chain
<1>6. ASSUME NEW r \in Requests, Skip(r) PROVE CacheInv'
  BY <1>6 DEF TypeOK, CacheInv, Skip, chain
<1>7. QED
  BY <1>0, <1>1, <1>2, <1>3, <1>4, <1>5, <1>6

\* A run takes a request that is not remembered in hand, or answers it RED.
LEMMA ExecuteKeepsCache ==
  ASSUME TypeOK, CacheInv, NEW r \in Requests, Execute(r)
  PROVE  CacheInv'
BY Constants DEF TypeOK, CacheInv, Execute, Red, Dies, chain

LEMMA RunReturnsKeepsCache ==
  ASSUME TypeOK, CacheInv, RunReturns
  PROVE  CacheInv'
BY DEF TypeOK, CacheInv, RunReturns, Red, Dies, chain

LEMMA AnswerKeepsCache ==
  ASSUME TypeOK, CacheInv, Submit \/ Receipt \/ Timeout \/ Save
  PROVE  CacheInv'
<1>1. serving \in Requests
  BY DEF Submit, Receipt, Timeout, Save, CacheInv, TypeOK
<1>2. CASE Submit
  <2>1. serving \notin cache /\ (~forgot => serving \notin file)
    BY <1>2 DEF Submit, CacheInv
  <2>2. QED
    BY <1>1, <1>2, <2>1, Constants DEF TypeOK, CacheInv, Submit, Red
<1>3. CASE Receipt
  BY <1>1, <1>3, Constants DEF TypeOK, CacheInv, Receipt, Red, chain
<1>4. CASE Timeout
  BY <1>1, <1>4 DEF TypeOK, CacheInv, Timeout, Red, chain
<1>5. CASE Save
  BY <1>1, <1>5 DEF TypeOK, CacheInv, Save, chain
<1>6. QED
  BY <1>2, <1>3, <1>4, <1>5

LEMMA CacheStep ==
  ASSUME TypeOK, CacheInv, [Next]_vars
  PROVE  CacheInv'
<1>1. CASE UNCHANGED vars
  BY <1>1 DEF CacheInv, vars, chain, daemon
<1>2. CASE Start \/ SetCursor \/ Fetch \/ Done \/ Advance \/ Crash
  BY <1>2, LoopKeepsCache
<1>3. CASE RunReturns \/ Submit \/ Receipt \/ Timeout \/ Save
  BY <1>3, RunReturnsKeepsCache, AnswerKeepsCache
<1>4. ASSUME NEW r \in Requests, Skip(r) \/ Execute(r) PROVE CacheInv'
  BY <1>4, LoopKeepsCache, ExecuteKeepsCache
<1>5. QED
  BY <1>1, <1>2, <1>3, <1>4, ChainKeepsCache DEF Next, Work

-----------------------------------------------------------------------------
\* What "paid" means, by cases.
LEMMA PaidIs ==
  ASSUME TypeOK, NEW r \in Requests
  PROVE  /\ success[r] \in Nat /\ faults \in Nat
         /\ Paid(r) <=> /\ pool = r /\ Known(r)   => success[r] <= faults
                        /\ pool # r /\ Known(r)   => success[r] <= faults + 1
                        /\ pool = r /\ ~Known(r)  => success[r] + 1 <= faults
                        /\ pool # r /\ ~Known(r)  => success[r] <= faults
<1>1. success[r] \in Nat /\ faults \in Nat
  BY Constants DEF TypeOK
<1>2. CASE Known(r)
  BY <1>1, <1>2 DEF Paid, Owed
<1>3. CASE ~Known(r)
  BY <1>1, <1>3 DEF Paid, Owed
<1>4. QED
  BY <1>2, <1>3, <1>1

LEMMA PaidIsNext ==
  ASSUME TypeOK', NEW r \in Requests
  PROVE  /\ success'[r] \in Nat /\ faults' \in Nat
         /\ Paid(r)' <=> /\ pool' = r /\ Known(r)'  => success'[r] <= faults'
                         /\ pool' # r /\ Known(r)'  => success'[r] <= faults' + 1
                         /\ pool' = r /\ ~Known(r)' => success'[r] + 1 <= faults'
                         /\ pool' # r /\ ~Known(r)' => success'[r] <= faults'
<1>1. success'[r] \in Nat /\ faults' \in Nat
  BY Constants DEF TypeOK
<1>2. CASE Known(r)'
  BY <1>1, <1>2 DEF Paid, Owed
<1>3. CASE ~Known(r)'
  BY <1>1, <1>3 DEF Paid, Owed
<1>4. QED
  BY <1>2, <1>3, <1>1

(* A step that leaves the transactions alone and forgets no fulfilment,    *)
(* or counts a fault, keeps every request paid for.                        *)
LEMMA QuietKeepsPaid ==
  ASSUME TypeOK, TypeOK', NEW r \in Requests, Paid(r),
         UNCHANGED <<pool, success>>,
         \/ (Known(r) => Known(r)') /\ Smooth
         \/ Fault
  PROVE  Paid(r)'
<1>1. CASE Fault
  BY <1>1, PaidIs, PaidIsNext DEF Fault
<1>2. CASE (Known(r) => Known(r)') /\ Smooth
  BY <1>2, PaidIs, PaidIsNext DEF Smooth
<1>3. QED
  BY <1>1, <1>2

LEMMA ChainKeepsPaid ==
  ASSUME TypeOK, TypeOK', CacheInv, NEW r \in Requests, Paid(r),
         \/ \E S \in SUBSET Requests : NewBlock(S)
         \/ \E result \in {"ok", "reverted"} : MineTx(result)
  PROVE  Paid(r)'
<1>1. ASSUME NEW S \in SUBSET Requests, NewBlock(S) PROVE Paid(r)'
  <2>1. UNCHANGED <<pool, success, faults>> /\ (Known(r) => Known(r)')
    BY <1>1 DEF NewBlock, daemon, Known
  <2>2. QED
    BY <2>1, QuietKeepsPaid DEF Smooth
<1>2. ASSUME NEW result \in {"ok", "reverted"}, MineTx(result) PROVE Paid(r)'
  <2>1. pool' = None /\ status' = result /\ UNCHANGED <<pc, serving, cache, file, faults>>
    BY <1>2 DEF MineTx, daemon
  <2>2. pool \in Requests /\ r # None
    BY <1>2, Constants DEF MineTx, TypeOK
  <2>3. CASE pool # r
    <3>1. success'[r] = success[r]
      BY <1>2, <2>3 DEF MineTx, TypeOK
    <3>2. Known(r) => Known(r)' \/ (pc = "wait" /\ serving = r)
      BY <2>1 DEF Known
    <3>3. ~(pc = "wait" /\ serving = r)
      BY <2>2, <2>3, Constants DEF CacheInv
    <3>4. QED
      BY <2>1, <2>2, <2>3, <3>1, <3>2, <3>3, PaidIs, PaidIsNext
  <2>4. CASE pool = r
    <3>1. pc = "wait" /\ serving = r => status' = "ok" \/ result # "ok"
      BY <2>1
    <3>2. CASE result = "ok"
      <4>1. success'[r] <= success[r] + 1
        BY <1>2, <2>2, <2>4, <3>2, Constants DEF MineTx, TypeOK, Bump
      <4>2. Known(r) => Known(r)'
        BY <2>1, <3>1, <3>2 DEF Known
      <4>3. QED
        BY <2>1, <2>2, <2>4, <4>1, <4>2, PaidIs, PaidIsNext
    <3>3. CASE result # "ok"
      <4>1. success'[r] = success[r]
        BY <1>2, <3>3 DEF MineTx
      <4>2. QED
        BY <2>1, <2>2, <2>4, <4>1, PaidIs, PaidIsNext
    <3>4. QED
      BY <3>2, <3>3
  <2>5. QED
    BY <2>3, <2>4
<1>3. QED
  BY <1>1, <1>2

LEMMA LoopKeepsPaid ==
  ASSUME TypeOK, TypeOK', CacheInv, NEW r \in Requests, Paid(r),
         \/ Start \/ SetCursor \/ Fetch \/ RunReturns \/ Done \/ Advance \/ Crash
         \/ \E q \in Requests : Skip(q) \/ Execute(q)
  PROVE  Paid(r)'
<1>1. UNCHANGED <<pool, success>>
  BY DEF Start, SetCursor, Fetch, RunReturns, Done, Advance, Crash, Skip, Execute, chain
<1>2. Smooth \/ Fault
  BY DEF Start, SetCursor, Fetch, RunReturns, Done, Advance, Crash, Skip, Execute
<1>3. CASE Start
  <2>1. Smooth => (Known(r) => Known(r)')
    BY <1>3, Constants DEF Start, chain, Known, Smooth, Fault, TypeOK
  <2>2. QED
    BY <1>1, <1>2, <2>1, QuietKeepsPaid
<1>4. CASE Crash
  BY <1>1, <1>4, QuietKeepsPaid DEF Crash
<1>5. CASE RunReturns
  <2>1. Known(r) => Known(r)'
    BY <1>5 DEF RunReturns, Red, Dies, chain, Known
  <2>2. QED
    BY <1>1, <1>2, <2>1, QuietKeepsPaid
<1>6. ASSUME NEW q \in Requests, Skip(q) \/ Execute(q) PROVE Paid(r)'
  <2>1. Known(r) => Known(r)'
    BY <1>6 DEF Skip, Execute, Red, Dies, chain, Known
  <2>2. Smooth
    BY <1>6 DEF Skip, Execute
  <2>3. UNCHANGED <<pool, success>>
    BY <1>6 DEF Skip, Execute, chain
  <2>4. QED
    BY <2>1, <2>2, <2>3, QuietKeepsPaid
<1>7. CASE SetCursor \/ Fetch \/ Done \/ Advance
  <2>1. Known(r) => Known(r)'
    BY <1>7 DEF SetCursor, Fetch, Done, Advance, chain, Known
  <2>2. QED
    BY <1>1, <1>2, <2>1, QuietKeepsPaid
<1>8. QED
  BY <1>3, <1>4, <1>5, <1>6, <1>7

LEMMA AnswerKeepsPaid ==
  ASSUME TypeOK, TypeOK', CacheInv, faults' < MaxFaults,
         NEW r \in Requests, Paid(r),
         Submit \/ Receipt \/ Timeout \/ Save
  PROVE  Paid(r)'
<1>1. CASE Submit
  <2>1. UNCHANGED <<status, success, cache, file>> /\ pool' \in {pool, serving}
    BY <1>1 DEF Submit
  <2>2. Known(r) <=> r \in file /\ r \in cache
    BY <1>1 DEF Submit, Known
  <2>3. Known(r) => Known(r)' /\ serving # r
    <3>1. Known(r) => Known(r)'
      BY <2>1, <2>2 DEF Known
    <3>2. serving \notin cache
      BY <1>1 DEF Submit, CacheInv
    <3>3. QED
      BY <2>2, <3>1, <3>2
  <2>4. pool' = r /\ pool # r => Fault \/ (Known(r)' /\ ~Known(r) /\ Smooth)
    BY <1>1, <2>3 DEF Submit, Known
  <2>5. Smooth \/ Fault
    BY <1>1 DEF Submit
  <2>6. CASE pool' = r /\ pool # r
    BY <2>1, <2>3, <2>4, <2>6, PaidIs, PaidIsNext DEF Smooth, Fault
  <2>7. CASE ~(pool' = r /\ pool # r)
    BY <2>1, <2>3, <2>5, <2>7, PaidIs, PaidIsNext DEF Smooth, Fault
  <2>8. QED
    BY <2>6, <2>7
<1>2. CASE Receipt
  <2>1. UNCHANGED <<pool, success>> /\ Smooth
    BY <1>2 DEF Receipt, chain
  <2>2. Known(r) => Known(r)'
    BY <1>2, Constants DEF Receipt, Red, chain, Known
  <2>3. QED
    BY <2>1, <2>2, QuietKeepsPaid
<1>3. CASE Timeout
  <2>1. UNCHANGED <<pool, success>> /\ Fault
    BY <1>3, Constants DEF Timeout, chain, Fault, Bump, TypeOK
  <2>2. QED
    BY <2>1, QuietKeepsPaid
<1>4. CASE Save
  <2>1. UNCHANGED <<pool, success, cache>> /\ (Smooth \/ Fault)
    BY <1>4 DEF Save, chain
  <2>2. Smooth => (Known(r) => Known(r)')
    <3>1. file' = cache \/ Fault
      BY <1>4 DEF Save
    <3>2. serving \in cache
      BY <1>4 DEF Save, CacheInv
    <3>3. Fault => ~Smooth
      BY Constants DEF Fault, Smooth, TypeOK
    <3>4. QED
      BY <1>4, <3>1, <3>2, <3>3 DEF Save, Known
  <2>3. QED
    BY <2>1, <2>2, QuietKeepsPaid
<1>5. QED
  BY <1>1, <1>2, <1>3, <1>4

LEMMA DebtStep ==
  ASSUME TypeOK, TypeOK', CacheInv, DebtInv, [Next]_vars
  PROVE  DebtInv'
<1> SUFFICES ASSUME faults' < MaxFaults, NEW r \in Requests
             PROVE  Paid(r)'
  BY DEF DebtInv
<1>1. faults' >= faults
  BY Constants DEF TypeOK, Next, Work, vars, NewBlock, MineTx, Start, SetCursor, Fetch, Skip,
        Execute, RunReturns, Submit, Receipt, Timeout, Save, Done, Advance, Crash, Smooth, Fault, Bump
<1>2. Paid(r)
  BY <1>1, Constants DEF DebtInv, TypeOK
<1>3. CASE UNCHANGED vars
  <2>1. UNCHANGED <<pool, success, faults>> /\ (Known(r) => Known(r)')
    BY <1>3 DEF vars, chain, daemon, Known
  <2>2. QED
    BY <1>2, <2>1, QuietKeepsPaid DEF Smooth
<1>4. CASE Submit \/ Receipt \/ Timeout \/ Save
  BY <1>2, <1>4, AnswerKeepsPaid
<1>5. CASE \/ Start \/ SetCursor \/ Fetch \/ RunReturns \/ Done \/ Advance \/ Crash
           \/ \E q \in Requests : Skip(q) \/ Execute(q)
  BY <1>2, <1>5, LoopKeepsPaid
<1>6. QED
  BY <1>2, <1>3, <1>4, <1>5, ChainKeepsPaid DEF Next, Work

-----------------------------------------------------------------------------
LEMMA InitInvariant == Init => IInv
<1> SUFFICES ASSUME Init PROVE IInv
  OBVIOUS
<1>1. TypeOK
  BY InitType
<1>2. CacheInv
  BY DEF Init, CacheInv
<1>3. ASSUME NEW r \in Requests PROVE Paid(r)
  BY <1>1, PaidIs, Constants DEF Init
<1>4. QED
  BY <1>1, <1>2, <1>3 DEF IInv, DebtInv

THEOREM Invariant == Spec => []IInv
<1>1. IInv /\ [Next]_vars => IInv'
  BY TypeStep, CacheStep, DebtStep DEF IInv
<1>2. QED
  BY InitInvariant, <1>1, PTL DEF Spec

(* Every variable of the daemon and of the chain stays in its domain: no   *)
(* start puts the cursor below block 0, no answer is given without a       *)
(* request in hand.                                                        *)
THEOREM TypeCorrect == Spec => []TypeOK
<1>1. IInv => TypeOK
  BY DEF IInv
<1>2. QED
  BY <1>1, Invariant, PTL

(* What daemon_loop remembers as fulfilled, in memory or in                *)
(* .tamga-fulfilled.json, is fulfilled on chain, whatever is mined late,   *)
(* reverted or replaced and wherever the process dies.                     *)
THEOREM Remembered == Spec => []RememberedIsFulfilled
<1>1. IInv => RememberedIsFulfilled
  BY DEF IInv, CacheInv, RememberedIsFulfilled
<1>2. QED
  BY <1>1, Invariant, PTL

(* A second fulfilment of a request takes a fault: polling the same blocks *)
(* again, in any number of cycles, does not cause one.                     *)
THEOREM Duplicates == Spec => []DuplicatesNeedFaults
<1>1. ASSUME IInv, NEW r \in Requests PROVE success[r] <= 1 + faults
  <2>1. CASE faults < MaxFaults
    BY <1>1, <2>1, PaidIs DEF IInv, DebtInv
  <2>2. CASE ~(faults < MaxFaults)
    BY <1>1, <2>2, Constants DEF IInv, TypeOK
  <2>3. QED
    BY <2>1, <2>2
<1>2. IInv => DuplicatesNeedFaults
  BY <1>1 DEF DuplicatesNeedFaults
<1>3. QED
  BY <1>2, Invariant, PTL

(* While every start could read .tamga-fulfilled.json, a request in it     *)
(* stays there and is never run, charged or fulfilled again, across        *)
(* restarts and whatever other requests end the daemon (AT-207).           *)
THEOREM SettledStays == Spec => SettledStaysSettled
<1>1. ASSUME IInv, [Next]_vars, ~forgot, NEW r \in file PROVE Settled(r)
  <2>1. /\ r \in Requests /\ pool # r /\ file \subseteq Requests
        /\ pc # "down" => r \in cache /\ file \subseteq cache
    BY <1>1 DEF IInv, TypeOK, CacheInv
  <2>2. /\ pc \in {"run", "submit", "wait"} => serving # r
        /\ pc = "run" => serving \in Requests
    BY <1>1, <2>1 DEF IInv, TypeOK, CacheInv
  <2>3. r \in file'
    BY <1>1, <2>1 DEF Next, Work, vars, chain, daemon, NewBlock, MineTx, Start, SetCursor, Fetch,
      Skip, Execute, RunReturns, Submit, Receipt, Timeout, Save, Done, Advance, Crash
  <2>4. CASE \E result \in {"ok", "reverted"} : MineTx(result)
    BY <1>1, <2>1, <2>3, <2>4 DEF IInv, TypeOK, MineTx, daemon, Settled
  <2>5. CASE RunReturns
    BY <1>1, <2>1, <2>2, <2>3, <2>5 DEF IInv, TypeOK, RunReturns, Charged, chain, Settled
  <2>6. CASE ~RunReturns /\ ~\E result \in {"ok", "reverted"} : MineTx(result)
    <3>1. UNCHANGED <<success, charges>>
      BY <1>1, <2>6 DEF Next, Work, vars, chain, daemon, NewBlock, Start, SetCursor, Fetch,
        Skip, Execute, Submit, Receipt, Timeout, Save, Done, Advance, Crash
    <3>2. QED
      BY <2>3, <3>1 DEF Settled
  <2>7. QED
    BY <2>4, <2>5, <2>6
<1> DEFINE Stays == forgot \/ \A r \in file : Settled(r)
<1>2. IInv /\ [Next]_vars => [Stays]_vars
  BY <1>1
<1>3. QED
  BY <1>2, Invariant, PTL DEF Spec, SettledStaysSettled
=============================================================================
