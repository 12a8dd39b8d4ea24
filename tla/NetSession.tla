----------------------------- MODULE NetSession -----------------------------
(***************************************************************************)
(* One metered run of a package that declares network egress: the shim     *)
(* (tamga_net_shim.run_streamed) pumps the agent's stdout and turns its    *)
(* TAMGA-NET-1 lines into requests through the loopback proxy              *)
(* (tamga_netproxy.TamgaProxy), whose threads count and cap the bytes,     *)
(* while a timer watches the wall clock; at the end the runner             *)
(* (tamga_runner.cmd_run) collects what the proxy counted and logged into  *)
(* the charge.                                                             *)
(*                                                                         *)
(* Three parties act at their own pace: the agent process with its two     *)
(* pipes, the thread that runs the pump and then the accounting, and one   *)
(* proxy thread per connection, which may outlive the request it served.   *)
(* Abstracted: the unit of traffic is a chunk (what one recv returns);     *)
(* endpoints, TLS and HTTP are outcomes of a request.                      *)
(***************************************************************************)
EXTENDS Naturals, FiniteSets

CONSTANTS
  Conns,          \* bound: connections (proxy threads) alive at a time
  MaxConcurrent,  \* max_concurrent of the proxy
  MaxBytes,       \* max_bytes_per_run, in chunks
  LineCap,        \* request lines that fit the agent's stdout pipe
  PipeCap,        \* responses that fit the agent's stdin pipe
  Inputs,         \* "none", "small": fits the stdin pipe, "large": does not
  Polite,         \* the agent reads each response before its next request
  None

ASSUME SessionAssumption ==
  /\ IsFiniteSet(Conns)
  /\ MaxConcurrent \in Nat \ {0}
  /\ MaxBytes \in Nat /\ LineCap \in Nat /\ PipeCap \in Nat
  /\ Inputs \subseteq {"none", "small", "large"}
  /\ Polite \in BOOLEAN
  /\ None \notin Conns

VARIABLES
  agent,    \* the wasmtime process: running, how it exited, or killed
  input,    \* --input, as far as the agent has not read it yet
  framed,   \* the agent is net-capable: its stdin stays open for responses
  outbox,   \* request lines in the agent's stdout pipe
  inbox,    \* responses in its stdin pipe
  pc,       \* where the runner's thread stands
  buf,      \* request lines of the chunk that the pump reads
  cur,      \* connection of the request in flight, or None
  timer,    \* the wall-clock timer of the run
  conn,     \* conn[i]: where the proxy thread of connection i stands
  slots,    \* _conns: connections that count against the limit
  total,    \* _total: chunks counted
  capped,   \* the session exceeded its bytes
  late,     \* connections still alive when the proxy was stopped
  receipt,  \* chunks the charge states (net_mb), or None
  digest    \* net_events_sha256 against the events file: none, matches, differs

proxy  == <<conn, slots, total, capped>>
runner == <<pc, buf, cur, late, receipt>>
vars   == <<agent, input, framed, outbox, inbox, timer, digest, proxy, runner>>

Alive   == {i \in Conns : conn[i] # "free"}
Counted == {i \in Conns : conn[i] \in {"gate", "dial", "tunnel", "over", "closing"}}
Pumping == {"write", "pump", "http", "respond", "reap", "abort"}
Final   == {"ok", "red", "raised"}

Init ==
  /\ agent = "running"
  /\ input \in Inputs
  /\ framed \in (IF input = "none" THEN {FALSE} ELSE BOOLEAN)
  /\ outbox = 0 /\ inbox = 0
  /\ pc = "write" /\ buf = 0 /\ cur = None
  /\ timer = "armed"
  /\ conn = [i \in Conns |-> "free"]
  /\ slots = 0 /\ total = 0 /\ capped = FALSE
  /\ late = {} /\ receipt = None /\ digest = "none"

-----------------------------------------------------------------------------
(***************************************************************************)
(* The agent.                                                              *)
(***************************************************************************)
NothingOutstanding ==
  outbox = 0 /\ buf = 0 /\ inbox = 0 /\ pc \notin {"http", "respond"}

AgentAsks ==
  /\ agent = "running"
  /\ outbox < LineCap
  /\ Polite => NothingOutstanding
  /\ outbox' = outbox + 1
  /\ UNCHANGED <<agent, input, framed, inbox, timer, digest, proxy, runner>>

AgentReads ==
  /\ agent = "running"
  /\ \/ inbox > 0 /\ inbox' = inbox - 1 /\ UNCHANGED input
     \/ input = "large" /\ input' = "small" /\ UNCHANGED inbox
  /\ UNCHANGED <<agent, framed, outbox, timer, digest, proxy, runner>>

AgentExits ==
  /\ agent = "running"
  /\ agent' \in {"exit0", "failed"}
  /\ UNCHANGED <<input, framed, outbox, inbox, timer, digest, proxy, runner>>

\* Mutated form: the timer notes the time-out, but does not stop the pump.
TimerFiresLate ==
  /\ timer = "armed"
  /\ pc \in {"reap", "abort"}
  /\ timer' = "fired"
  /\ UNCHANGED <<agent, input, framed, outbox, inbox, digest, proxy, runner>>

\* The timer thread only sets a flag; the pump reads it between two chunks.
TimerFires ==
  /\ timer = "armed"
  /\ pc \in Pumping
  /\ timer' = "fired"
  /\ UNCHANGED <<agent, input, framed, outbox, inbox, digest, proxy, runner>>

-----------------------------------------------------------------------------
(***************************************************************************)
(* The runner's thread: input, pump, and one request at a time.            *)
(***************************************************************************)
\* A write to an agent that is gone is a BrokenPipeError nobody catches here.
WriteInput ==
  /\ pc = "write"
  /\ \/ input = "none" /\ pc' = "pump"
     \/ input = "small" /\ agent = "running" /\ pc' = "pump"
     \/ input # "none" /\ agent # "running" /\ pc' = "abort"
  /\ UNCHANGED <<agent, input, framed, outbox, inbox, timer, digest, proxy,
                 buf, cur, late, receipt>>

ReadChunk ==
  /\ pc = "pump" /\ buf = 0
  /\ timer # "fired"
  /\ buf' \in 1..outbox
  /\ outbox' = outbox - buf'
  /\ UNCHANGED <<agent, input, framed, inbox, timer, digest, proxy,
                 pc, cur, late, receipt>>

(***************************************************************************)
(* A request line: one that is malformed is answered at once, the others   *)
(* connect to the proxy.  Where stdin was closed after the input, even the *)
(* refusal cannot be written: _respond calls a method of None.             *)
(***************************************************************************)
TakeLine ==
  /\ pc = "pump" /\ buf > 0
  /\ buf' = buf - 1
  /\ \/ ~framed /\ pc' = "abort" /\ UNCHANGED <<cur, conn>>
     \/ framed /\ pc' = "respond" /\ UNCHANGED <<cur, conn>>
     \/ /\ framed /\ pc' = "http"
        /\ \E i \in Conns \ Alive :
             cur' = i /\ conn' = [conn EXCEPT ![i] = "accepted"]
  /\ UNCHANGED <<agent, input, framed, outbox, inbox, timer, digest,
                 slots, total, capped, late, receipt>>

\* The request is answered, refused, cut or idle for too long: the client closes.
HttpEnds ==
  /\ pc = "http"
  /\ pc' = "respond" /\ cur' = None
  /\ UNCHANGED <<agent, input, framed, outbox, inbox, timer, digest, proxy,
                 buf, late, receipt>>

HttpOver == HttpEnds /\ conn[cur] = "free"

\* The response is written: it blocks while the pipe to a live agent is full.
Respond ==
  /\ pc = "respond"
  /\ pc' = "pump"
  /\ \/ agent = "running" /\ inbox < PipeCap /\ inbox' = inbox + 1
     \/ agent # "running" /\ UNCHANGED inbox
  /\ UNCHANGED <<agent, input, framed, outbox, timer, digest, proxy,
                 buf, cur, late, receipt>>

PumpEnds ==
  /\ pc = "pump" /\ buf = 0
  /\ timer = "fired" \/ (agent # "running" /\ outbox = 0)
  /\ pc' = "reap"
  /\ UNCHANGED <<agent, input, framed, outbox, inbox, timer, digest, proxy,
                 buf, cur, late, receipt>>

(* run_streamed's finally: five seconds of grace, then the agent is killed. *)
Reap ==
  /\ pc \in {"reap", "abort"}
  /\ agent' = IF agent = "running" THEN "killed" ELSE agent
  /\ pc' = IF pc = "abort" THEN "raised"
           ELSE IF timer = "fired" \/ agent' # "exit0" THEN "red"   \* RC11, RC12
           ELSE "collect"
  /\ UNCHANGED <<input, framed, outbox, inbox, timer, digest, proxy,
                 buf, cur, late, receipt>>

-----------------------------------------------------------------------------
(***************************************************************************)
(* The accounting: the proxy is stopped (its threads are not joined), the  *)
(* cap is looked at, the counters are read, the events file is hashed.     *)
(***************************************************************************)
\* Mutated form: a capped session is charged.
CollectCapped ==
  /\ pc = "collect"
  /\ late' = Alive
  /\ pc' = "summary"
  /\ UNCHANGED <<agent, input, framed, outbox, inbox, timer, digest, proxy,
                 buf, cur, receipt>>

Collect ==
  /\ pc = "collect"
  /\ late' = Alive
  /\ \/ pc' = "red"                      \* RC12 proof mismatch, RC11 io limit
     \/ pc' = IF capped THEN "red" ELSE "summary"                       \* RC11
  /\ UNCHANGED <<agent, input, framed, outbox, inbox, timer, digest, proxy,
                 buf, cur, receipt>>

Summarise ==
  /\ pc = "summary"
  /\ receipt' = total
  /\ pc' = "hash"
  /\ UNCHANGED <<agent, input, framed, outbox, inbox, timer, digest, proxy,
                 buf, cur, late>>

HashEvents ==
  /\ pc = "hash"
  /\ digest' = "matches"
  /\ pc' = "charge"
  /\ UNCHANGED <<agent, input, framed, outbox, inbox, timer, proxy,
                 buf, cur, late, receipt>>

\* The charge, or a memory limit (RC10, RC17): see RunAccount of PackageNode.
ChargeRun ==
  /\ pc = "charge"
  /\ pc' \in {"ok", "red"}
  /\ UNCHANGED <<agent, input, framed, outbox, inbox, timer, digest, proxy,
                 buf, cur, late, receipt>>

-----------------------------------------------------------------------------
(***************************************************************************)
(* The thread of connection i.                                             *)
(***************************************************************************)
env == <<agent, input, framed, outbox, inbox, timer, runner>>

\* What a thread appends to the events file after it was hashed is not covered.
LogEvent == digest' = IF digest = "none" THEN "none" ELSE "differs"

\* Mutated form: the connection is let in without being counted.
HandleUncounted(i) ==
  /\ conn[i] = "accepted"
  /\ conn' = [conn EXCEPT ![i] = IF slots >= MaxConcurrent THEN "over limit" ELSE "gate"]
  /\ UNCHANGED <<env, digest, slots, total, capped>>

Handle(i) ==
  /\ conn[i] = "accepted"
  /\ IF slots >= MaxConcurrent
     THEN conn' = [conn EXCEPT ![i] = "over limit"] /\ UNCHANGED slots
     ELSE conn' = [conn EXCEPT ![i] = "gate"] /\ slots' = slots + 1
  /\ UNCHANGED <<env, digest, total, capped>>

DenyOverLimit(i) ==
  /\ conn[i] = "over limit"
  /\ conn' = [conn EXCEPT ![i] = "free"]
  /\ LogEvent
  /\ UNCHANGED <<env, slots, total, capped>>

\* A counted connection ends and gives its slot back, its log line written or not.
Ends(i) ==
  /\ conn' = [conn EXCEPT ![i] = "free"]
  /\ slots' = slots - 1
  /\ LogEvent \/ UNCHANGED digest
  /\ UNCHANGED <<env, total, capped>>

\* Mutated form: a capped session still opens tunnels.
GateOpen(i) ==
  /\ conn[i] = "gate"
  /\ conn' = [conn EXCEPT ![i] = "dial"]
  /\ UNCHANGED <<env, digest, slots, total, capped>>

Gate(i) ==
  /\ conn[i] = "gate"
  /\ ~capped
  /\ conn' = [conn EXCEPT ![i] = "dial"]
  /\ UNCHANGED <<env, digest, slots, total, capped>>

\* byte_cap, or not listed, malformed, silent, upstream down.
Refuse(i) == conn[i] \in {"gate", "dial"} /\ Ends(i)

Dial(i) ==
  /\ conn[i] = "dial"
  /\ conn' = [conn EXCEPT ![i] = "tunnel"]
  /\ UNCHANGED <<env, digest, slots, total, capped>>

(***************************************************************************)
(* A chunk is counted, and forwarded unless the session is over its cap.   *)
(* The flag is set in a step of its own.                                   *)
(***************************************************************************)
Chunk(i) ==
  /\ conn[i] = "tunnel"
  /\ total' = total + 1
  /\ conn' = [conn EXCEPT ![i] = IF total' > MaxBytes THEN "over" ELSE "tunnel"]
  /\ UNCHANGED <<env, digest, slots, capped>>

SetCapped(i) ==
  /\ conn[i] = "over"
  /\ capped' = TRUE
  /\ conn' = [conn EXCEPT ![i] = "closing"]
  /\ UNCHANGED <<env, digest, slots, total>>

\* Both sides are done, an error, or timeout_s without a chunk.
TunnelEnds(i) == conn[i] \in {"tunnel", "closing"} /\ Ends(i)

Serve(i) ==
  \/ Handle(i)
  \/ DenyOverLimit(i)
  \/ Gate(i)
  \/ Refuse(i)
  \/ Dial(i)
  \/ Chunk(i)
  \/ SetCapped(i)
  \/ TunnelEnds(i)

-----------------------------------------------------------------------------
Runner ==
  \/ WriteInput
  \/ ReadChunk
  \/ TakeLine
  \/ HttpOver
  \/ Respond
  \/ PumpEnds
  \/ Reap
  \/ Collect
  \/ Summarise
  \/ HashEvents
  \/ ChargeRun

Agent == AgentAsks \/ AgentReads \/ AgentExits

Next ==
  \/ Agent
  \/ TimerFires
  \/ Runner
  \/ HttpEnds
  \/ \E i \in Conns : Serve(i)

Spec == Init /\ [][Next]_vars

(***************************************************************************)
(* The runner's thread, the timer and the proxy's threads go on; a         *)
(* connection carries another chunk or runs into timeout_s.  Nothing is    *)
(* assumed of the agent: it may never write, read or exit.                 *)
(***************************************************************************)
FairSpec ==
  /\ Spec
  /\ WF_vars(Runner)
  /\ WF_vars(TimerFires)
  /\ \A i \in Conns : WF_vars(Serve(i))

-----------------------------------------------------------------------------
AgentTypes ==
  /\ agent \in {"running", "exit0", "failed", "killed"}
  /\ input \in {"none", "small", "large"}
  /\ framed \in BOOLEAN
  /\ outbox \in Nat /\ inbox \in Nat
  /\ timer \in {"armed", "fired"}

RunnerTypes ==
  /\ pc \in Pumping \cup Final \cup {"collect", "summary", "hash", "charge"}
  /\ buf \in Nat
  /\ cur \in Conns \cup {None}
  /\ late \subseteq Conns
  /\ receipt \in Nat \cup {None}
  /\ digest \in {"none", "matches", "differs"}

ProxyTypes ==
  /\ conn \in [Conns -> {"free", "accepted", "over limit", "gate", "dial",
                         "tunnel", "over", "closing"}]
  /\ slots \in Nat /\ total \in Nat
  /\ capped \in BOOLEAN

\* Every variable stays in its domain.
TypeOK == AgentTypes /\ RunnerTypes /\ ProxyTypes

(* The proxy never serves more than max_concurrent connections, although   *)
(* tunnels linger after the request they served.                           *)
ConnLimit == Cardinality(Counted) <= MaxConcurrent

(* Traffic overshoots the byte cap by at most one chunk per concurrent     *)
(* connection, although the counter, the flag and the check at the gate    *)
(* are three steps of different threads.                                   *)
OvershootBounded == total <= MaxBytes + MaxConcurrent

(* A charge states more than the cap only by what tunnels that outlived    *)
(* the session added: a session whose cap was noticed is RED 11 without a  *)
(* charge.                                                                 *)
ChargedWithinCap ==
  receipt # None => receipt <= MaxBytes + Cardinality(late)

(* Where no tunnel outlived the session, the charge is exact: it states    *)
(* all bytes, they are within the cap, and its digest is that of the       *)
(* events file (RFC-005 D12).                                              *)
ReceiptExact ==
  pc = "ok" /\ late = {} =>
    receipt = total /\ total <= MaxBytes /\ digest = "matches"

(* Every session ends, and so do its connections, whatever the agent and   *)
(* the endpoints do: by the timer, by timeout_s, and, for an endpoint that *)
(* never stops sending, by the byte cap.  (For an agent that reads its     *)
(* responses and an input that fits the pipe.)                             *)
SessionEnds == <>(pc \in Final /\ Alive = {})

(* cpu_ms_per_run is a wall-clock process time-out (RFC-002 E-5c): a run   *)
(* that reaches it is ended.  Fails for an agent that does not read: the   *)
(* pump blocks in a write and never looks at the flag.                     *)
LimitEndsRun == timer = "fired" ~> pc \in Final
=============================================================================
