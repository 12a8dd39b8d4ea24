---------------------------- MODULE OracleDaemon ----------------------------
(***************************************************************************)
(* The relayer daemon (tamga_oracle_relayer.daemon_loop): it polls the     *)
(* RequestExecution events of an oracle contract from a cursor on, runs    *)
(* the requested module, sends fulfillExecution and remembers the requests *)
(* it fulfilled in .tamga-fulfilled.json.                                  *)
(*                                                                         *)
(* The chain is external and modelled from how the code uses it: blocks    *)
(* with events, one pending transaction of the daemon's account (every     *)
(* submission takes the count of mined transactions as its nonce) and a    *)
(* receipt status.  A contract with a replay guard answers a second        *)
(* fulfilment with the status "reverted".                                  *)
(***************************************************************************)
EXTENDS Integers, FiniteSets

CONSTANTS
  Requests,
  FromBlock,   \* --from-block, or None
  Backfill,    \* --backfill: blocks below the head where a start begins
  MaxHead,     \* bound: blocks with new requests
  MaxFaults,   \* bound: crashes, lost answers, failed loads, polls and saves
  MaxCharges,  \* bound: executions of a request that are told apart
  Poisonous,   \* requests whose execution may raise what no handler takes
  Endless,     \* requests whose run may never end
  None

ASSUME OracleAssumption ==
  /\ FromBlock \in Nat \cup {None}
  /\ {Backfill, MaxHead, MaxFaults, MaxCharges} \subseteq Nat
  /\ None \notin Requests \cup Nat

VARIABLES
  head,     \* number of the latest block
  block,    \* block[r]: the block of r's event; 0 while not requested
  pool,     \* the request whose fulfilment is pending in the mempool, or None
  status,   \* receipt status of the transaction mined last
  success,  \* success[r]: how often r was fulfilled on chain
  pc,       \* where the daemon stands
  cursor,   \* the block the next poll starts from
  batch,    \* fetched requests that are still to be served
  serving,  \* the request being executed and submitted, or None
  cache,    \* the in-memory set `fulfilled`
  file,     \* its content on disk
  answer,   \* answer[r]: the last line logged for r
  charges,  \* charges[r]: how often a run for r was charged
  forgot,   \* a start could not read the file (history)
  faults    \* how many faults happened so far

chain  == <<head, block, pool, status, success>>
daemon == <<pc, cursor, batch, serving, cache, file, answer, charges, forgot>>
vars   == <<chain, daemon, faults>>

\* Counters saturate at their bound.
Bump(count, bound) == IF count < bound THEN count + 1 ELSE count

Init ==
  /\ head = 1 /\ block = [r \in Requests |-> 0]
  /\ pool = None /\ status = None
  /\ success = [r \in Requests |-> 0]
  /\ pc = "down" /\ cursor = 0 /\ batch = {} /\ serving = None
  /\ cache = {} /\ file = {}
  /\ answer = [r \in Requests |-> None]
  /\ charges = [r \in Requests |-> 0]
  /\ forgot = FALSE
  /\ faults = 0

-----------------------------------------------------------------------------
\* A block is mined with the events of the requests in S.
NewBlock(S) ==
  /\ head < MaxHead
  /\ \A r \in S : block[r] = 0
  /\ head' = head + 1
  /\ block' = [r \in Requests |-> IF r \in S THEN head + 1 ELSE block[r]]
  /\ UNCHANGED <<pool, status, success, daemon, faults>>

\* The pending transaction is mined, in a block of its own below the bound.
MineTx(result) ==
  /\ pool # None
  /\ pool' = None
  /\ status' = result
  /\ success' = IF result = "ok"
                THEN [success EXCEPT ![pool] = Bump(@, MaxFaults + 1)]
                ELSE success
  /\ head' = Bump(head, MaxHead)
  /\ UNCHANGED <<block, daemon, faults>>

-----------------------------------------------------------------------------
\* A step at which something goes wrong, and one at which nothing does.
Fault  == faults < MaxFaults /\ faults' = faults + 1
Smooth == faults' = faults

\* The process is gone, and what it held in memory with it.
Dies == pc' = "down" /\ batch' = {} /\ serving' = None /\ cache' = {}

\* Mutated form: the cache is not read back.
StartForgetful ==
  /\ pc = "down"
  /\ pc' = "start" /\ cache' = {}
  /\ Smooth
  /\ UNCHANGED <<chain, cursor, batch, serving, file, answer, charges, forgot>>

(***************************************************************************)
(* The process starts and loads the cache.  A file that cannot be read, or *)
(* does not parse, is taken for an empty one; an endpoint that does not    *)
(* answer ends the start.                                                  *)
(***************************************************************************)
Start ==
  /\ pc = "down"
  /\ \/ pc' = "start" /\ cache' = file /\ forgot' = forgot /\ Smooth
     \/ pc' = "start" /\ cache' = {} /\ forgot' = TRUE /\ Fault
     \/ UNCHANGED <<pc, cache, forgot>> /\ Fault
  /\ UNCHANGED <<chain, cursor, batch, serving, file, answer, charges>>

\* Mutated form: the backfill may reach below block 0.
SetCursorBelowZero ==
  /\ pc = "start"
  /\ cursor' = head - Backfill
  /\ pc' = "poll"
  /\ Smooth
  /\ UNCHANGED <<chain, batch, serving, cache, file, answer, charges, forgot>>

\* --from-block, or the head less the backfill, or 0 when the head cannot be read.
SetCursor ==
  /\ pc = "start"
  /\ IF FromBlock # None
     THEN cursor' = FromBlock /\ Smooth
     ELSE \/ cursor' = (IF head > Backfill THEN head - Backfill ELSE 0) /\ Smooth
          \/ cursor' = 0 /\ Fault
  /\ pc' = "poll"
  /\ UNCHANGED <<chain, batch, serving, cache, file, answer, charges, forgot>>

\* eth_getLogs from the cursor to the latest block; an error skips the cycle.
Fetch ==
  /\ pc = "poll"
  /\ \/ /\ batch' = {r \in Requests : block[r] # 0 /\ block[r] >= cursor}
        /\ pc' = "serve"
        /\ Smooth
     \/ pc' = "advance" /\ batch' = {} /\ Fault
  /\ UNCHANGED <<chain, cursor, serving, cache, file, answer, charges, forgot>>

\* Logs come in the order of their blocks.
Oldest(r) == r \in batch /\ \A q \in batch : block[r] <= block[q]

Skip(r) ==
  /\ pc = "serve"
  /\ Oldest(r) /\ r \in cache
  /\ batch' = batch \ {r}
  /\ Smooth
  /\ UNCHANGED <<chain, pc, cursor, serving, cache, file, answer, charges, forgot>>

Charged(r) == charges' = [charges EXCEPT ![r] = Bump(@, MaxCharges)]

\* Mutated form: a request that fails ends the cycle.
RedBreaks(r) ==
  /\ answer' = [answer EXCEPT ![r] = "red"]
  /\ pc' = "advance"
  /\ serving' = None

\* A TamgaRelayerError is logged, and the loop goes on with the next request.
Red(r) ==
  /\ answer' = [answer EXCEPT ![r] = "red"]
  /\ pc' = "serve"
  /\ serving' = None

\* Mutated form: the replay check is missing.
ExecuteAgain(r) ==
  /\ pc = "serve"
  /\ Oldest(r)
  /\ batch' = batch \ {r}
  /\ pc' = "run" /\ serving' = r
  /\ Smooth
  /\ UNCHANGED <<chain, cursor, cache, file, answer, charges, forgot>>

(***************************************************************************)
(* execute_request up to its run: refused, or handed to the runner.  A     *)
(* manifest that is missing or has no limits raises no TamgaRelayerError:  *)
(* neither handler of the loop takes it, and the daemon ends.              *)
(***************************************************************************)
Execute(r) ==
  /\ pc = "serve"
  /\ Oldest(r) /\ r \notin cache
  /\ \/ Red(r) /\ batch' = batch \ {r} /\ cache' = cache
     \/ pc' = "run" /\ serving' = r /\ batch' = batch \ {r} /\ UNCHANGED <<cache, answer>>
     \/ r \in Poisonous /\ Dies /\ answer' = answer
  /\ Smooth
  /\ UNCHANGED <<chain, cursor, file, charges, forgot>>

(***************************************************************************)
(* The run comes back, without a charge or with one; then stamp, export    *)
(* and operator ledger follow, which may fail like the rest.               *)
(***************************************************************************)
RunReturns ==
  /\ pc = "run"
  /\ \/ Red(serving) /\ charges' = charges /\ UNCHANGED <<batch, cache>>
     \/ Red(serving) /\ Charged(serving) /\ UNCHANGED <<batch, cache>>
     \/ pc' = "submit" /\ Charged(serving) /\ UNCHANGED <<batch, serving, cache, answer>>
     \/ serving \in Poisonous /\ Dies /\ Charged(serving) /\ answer' = answer
  /\ Smooth
  /\ UNCHANGED <<chain, cursor, file, forgot>>

(***************************************************************************)
(* submit_fulfillment: the node takes the transaction (in place of one of  *)
(* the same nonce that is still pending), refuses it, or takes it and the  *)
(* answer is lost.                                                         *)
(***************************************************************************)
Submit ==
  /\ pc = "submit"
  /\ \/ /\ pool' = serving /\ pc' = "wait"
        /\ Smooth
        /\ UNCHANGED <<serving, answer>>
     \/ pool' = pool /\ Red(serving) /\ Smooth
     \/ pool' = serving /\ Red(serving) /\ Fault
  /\ UNCHANGED <<head, block, status, success, cursor, batch, cache, file, charges, forgot>>

(***************************************************************************)
(* The receipt: status 1 records the request, 0 is a RED; waiting for it   *)
(* times out while the transaction may still be mined later.               *)
(***************************************************************************)
\* Mutated form: the status of the receipt is not looked at.
ReceiptUnchecked ==
  /\ pc = "wait" /\ pool = None
  /\ cache' = cache \cup {serving}
  /\ pc' = "save"
  /\ Smooth
  /\ UNCHANGED <<chain, cursor, batch, serving, file, answer, charges, forgot>>

Receipt ==
  /\ pc = "wait" /\ pool = None
  /\ IF status = "ok"
     THEN /\ cache' = cache \cup {serving}
          /\ pc' = "save"
          /\ UNCHANGED <<serving, answer>>
     ELSE Red(serving) /\ cache' = cache
  /\ Smooth
  /\ UNCHANGED <<chain, cursor, batch, file, charges, forgot>>

\* Mutated form: a wait that times out goes on waiting.
TimeoutNever == pc = "wait" /\ UNCHANGED vars

Timeout ==
  /\ pc = "wait"
  /\ Red(serving)
  /\ faults' = Bump(faults, MaxFaults)
  /\ UNCHANGED <<chain, cursor, batch, cache, file, charges, forgot>>

\* _save_replay_cache: replaces the file, or fails without a word.
Save ==
  /\ pc = "save"
  /\ \/ file' = cache /\ Smooth
     \/ file' = file /\ Fault
  /\ answer' = [answer EXCEPT ![serving] = "ok"]
  /\ serving' = None
  /\ pc' = "serve"
  /\ UNCHANGED <<chain, cursor, batch, cache, charges, forgot>>

Done ==
  /\ pc = "serve" /\ batch = {}
  /\ pc' = "advance"
  /\ Smooth
  /\ UNCHANGED <<chain, cursor, batch, serving, cache, file, answer, charges, forgot>>

\* The end of a cycle: the cursor goes to the head as it is now, if it answers.
Advance ==
  /\ pc = "advance"
  /\ cursor' \in {head, cursor}
  /\ batch' = {}
  /\ pc' = "poll"
  /\ Smooth
  /\ UNCHANGED <<chain, serving, cache, file, answer, charges, forgot>>

\* The process is killed, or ends by an RPC error of another kind than those it
\* takes; systemd starts it again.
Crash ==
  /\ pc # "down"
  /\ Dies
  /\ Fault
  /\ UNCHANGED <<chain, cursor, file, answer, charges, forgot>>

-----------------------------------------------------------------------------
\* What the daemon does as long as the run it waits for ends.
Work ==
  \/ Start
  \/ SetCursor
  \/ Fetch
  \/ \E r \in Requests : Skip(r) \/ Execute(r)
  \/ serving \notin Endless /\ RunReturns
  \/ Submit
  \/ Receipt
  \/ Timeout
  \/ Save
  \/ Done
  \/ Advance

Next ==
  \/ \E S \in SUBSET Requests : NewBlock(S)
  \/ \E result \in {"ok", "reverted"} : MineTx(result)
  \/ Work
  \/ RunReturns
  \/ Crash

Spec == Init /\ [][Next]_vars

(***************************************************************************)
(* The daemon is a sequential loop under systemd (Restart=always).  The    *)
(* RPC client gives a call up after a time, and so does the wait for a     *)
(* receipt: the daemon takes its next step whatever the chain does.  The   *)
(* run of a request has no time limit of its own (_runner passes none):    *)
(* where the run of the module may not end, nothing makes it end.          *)
(***************************************************************************)
FairSpec == Spec /\ WF_vars(Work)

-----------------------------------------------------------------------------
\* Every variable stays in its domain.
TypeOK ==
  /\ head \in 1..(MaxHead + 1)
  /\ block \in [Requests -> 0..(MaxHead + 1)]
  /\ pool \in Requests \cup {None}
  /\ status \in {"ok", "reverted", None}
  /\ success \in [Requests -> 0..(MaxFaults + 1)]
  /\ pc \in {"down", "start", "poll", "serve", "run", "submit", "wait", "save", "advance"}
  /\ cursor \in Nat
  /\ batch \subseteq Requests
  /\ serving \in Requests \cup {None}
  /\ cache \subseteq Requests /\ file \subseteq Requests
  /\ answer \in [Requests -> {"ok", "red", None}]
  /\ charges \in [Requests -> 0..MaxCharges]
  /\ forgot \in BOOLEAN
  /\ faults \in 0..MaxFaults

(* What the daemon remembers as fulfilled is fulfilled on chain: late      *)
(* receipts, reverted transactions and replaced ones never make it drop a  *)
(* request that nobody answered.                                           *)
RememberedIsFulfilled == \A r \in cache \cup file : success[r] > 0

(* A request is fulfilled twice only because of a fault (a crash before    *)
(* the save, a lost answer, a timeout, a save or a load that failed):      *)
(* polling the same block again and again does not suffice, and neither    *)
(* does a daemon that a request keeps killing.  (Where the fault counter   *)
(* saturates the count of fulfilments does, too.)                          *)
DuplicatesNeedFaults == \A r \in Requests : success[r] <= 1 + faults

\* What is recorded of r in the file, and what r has cost, stays as it is.
Settled(r) == r \in file' /\ charges'[r] = charges[r] /\ success'[r] = success[r]

(* As long as no start found .tamga-fulfilled.json unreadable, a request   *)
(* in it is never run, charged or fulfilled again, and never leaves the    *)
(* file, across any number of restarts (AT-207), failed saves and requests *)
(* that end the daemon.  (The docstring of daemon_loop promises it without *)
(* the condition, which a file that does not parse takes away.)            *)
SettledStaysSettled == [][forgot \/ \A r \in file : Settled(r)]_vars

\* The daemon waits for a run that nothing ends.
Stuck == pc = "run" /\ serving \in Endless

(* Every fetched request gets an answer, fulfilled or RED, unless the      *)
(* daemon dies or waits for a run that does not end: a request that fails  *)
(* with a TamgaRelayerError, before or after its charge, keeps none of     *)
(* those behind it waiting (daemon_loop logs it and continues).            *)
EveryFetchedIsAnswered ==
  \A r \in Requests :
    r \in batch /\ answer[r] = None ~> answer[r] # None \/ pc = "down" \/ Stuck

(* The daemon polls again and again, even if the chain does nothing and    *)
(* whatever requests kill it (systemd), unless a run does not end.         *)
KeepsPolling == []<>(pc = "poll" \/ Stuck)

(* A request that is emitted is delayed at worst: a later poll or the      *)
(* backfill finds it (AT225_DAEMON_KAOS_BULGULARI.md, finding 2).  Fails.  *)
EveryRequestIsAnswered ==
  \A r \in Requests : block[r] # 0 ~> answer[r] # None
=============================================================================
