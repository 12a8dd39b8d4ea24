-------------------------- MODULE NetSessionProofs --------------------------
(***************************************************************************)
(* Proofs about NetSession, for any number of connections, any limits and  *)
(* any agent: the limit on connections, the bound on the overshoot of the  *)
(* byte cap, and what a charge can state beyond the cap.                   *)
(*                                                                         *)
(* The argument counts connections by where their threads stand.  A chunk  *)
(* beyond the cap moves its connection to "over", and no connection is     *)
(* there twice: until the flag is set, total exceeds MaxBytes by at most   *)
(* the connections that are "over"; from then on no tunnel opens, and each *)
(* one that is open adds at most one chunk more.                           *)
(***************************************************************************)
EXTENDS NetSession, Integers, FiniteSetTheorems, TLAPS

\* The connections that stand, according to f, at one of the places in S.
Standing(f, S) == {i \in Conns : f[i] \in S}

CountedAt == {"gate", "dial", "tunnel", "over", "closing"}
OpenAt    == {"dial", "tunnel"}
AddingAt  == {"accepted", "gate", "dial", "tunnel"}
Places    == {"free", "accepted", "over limit"} \cup CountedAt

SlotInv ==
  /\ slots = Cardinality(Standing(conn, CountedAt))
  /\ slots <= MaxConcurrent

CapInv ==
  /\ Standing(conn, {"over", "closing"}) # {} => total > MaxBytes
  /\ Standing(conn, {"closing"}) # {} => capped
  /\ capped => total > MaxBytes
  /\ ~capped => total <= MaxBytes + Cardinality(Standing(conn, {"over"}))
  /\ capped => total + Cardinality(Standing(conn, OpenAt)) <= MaxBytes + MaxConcurrent

\* What the accounting relies on: a connection that can still add is in late.
LateInv ==
  /\ pc \in Pumping \cup {"collect", "summary"} => receipt = None
  /\ pc = "summary" =>
       /\ Alive \subseteq late
       /\ total <= MaxBytes + Cardinality(late \ Standing(conn, AddingAt))
  /\ ChargedWithinCap

IInv == TypeOK /\ SlotInv /\ CapInv /\ LateInv

-----------------------------------------------------------------------------
(* Sets of connections are finite.                                         *)
LEMMA StandingFinite ==
  ASSUME NEW f, NEW S
  PROVE  /\ IsFiniteSet(Standing(f, S))
         /\ Cardinality(Standing(f, S)) \in Nat
<1>1. Standing(f, S) \in SUBSET Conns
  BY DEF Standing
<1>2. IsFiniteSet(Standing(f, S))
  BY <1>1, FS_Subset, SessionAssumption DEF SessionAssumption
<1> QED
  BY <1>2, FS_CardinalityType

(* A thread that moves from one place to another changes each count by its *)
(* own arrival and departure.                                              *)
LEMMA StandingMove ==
  ASSUME NEW f \in [Conns -> Places], NEW i \in Conns, NEW x \in Places, NEW S
  PROVE  LET g == [f EXCEPT ![i] = x] IN
         /\ x \in S /\ f[i] \in S => Standing(g, S) = Standing(f, S)
         /\ x \notin S /\ f[i] \notin S => Standing(g, S) = Standing(f, S)
         /\ x \in S /\ f[i] \notin S =>
              Cardinality(Standing(g, S)) = Cardinality(Standing(f, S)) + 1
         /\ x \notin S /\ f[i] \in S =>
              Cardinality(Standing(g, S)) = Cardinality(Standing(f, S)) - 1
<1> DEFINE g == [f EXCEPT ![i] = x]
<1>0. IsFiniteSet(Standing(f, S))
  BY StandingFinite
<1>1. ASSUME x \in S /\ f[i] \in S PROVE Standing(g, S) = Standing(f, S)
  BY <1>1 DEF Standing
<1>2. ASSUME x \notin S /\ f[i] \notin S PROVE Standing(g, S) = Standing(f, S)
  BY <1>2 DEF Standing
<1>3. ASSUME x \in S, f[i] \notin S
      PROVE  Cardinality(Standing(g, S)) = Cardinality(Standing(f, S)) + 1
  <2>1. Standing(g, S) = Standing(f, S) \cup {i} /\ i \notin Standing(f, S)
    BY <1>3 DEF Standing
  <2> QED BY <1>0, <2>1, FS_AddElement
<1>4. ASSUME x \notin S, f[i] \in S
      PROVE  Cardinality(Standing(g, S)) = Cardinality(Standing(f, S)) - 1
  <2>1. Standing(g, S) = Standing(f, S) \ {i} /\ i \in Standing(f, S)
    BY <1>4 DEF Standing
  <2> QED BY <1>0, <2>1, FS_RemoveElement
<1> QED BY <1>1, <1>2, <1>3, <1>4

(* Connections beyond the cap and open ones are different counted ones.    *)
LEMMA OverAndOpen ==
  ASSUME NEW f
  PROVE  Cardinality(Standing(f, {"over"})) + Cardinality(Standing(f, OpenAt))
           <= Cardinality(Standing(f, CountedAt))
<1> DEFINE A == Standing(f, {"over"})
           B == Standing(f, OpenAt)
           C == Standing(f, CountedAt)
<1>1. IsFiniteSet(A) /\ IsFiniteSet(B) /\ IsFiniteSet(C)
  BY StandingFinite
<1>2. A \cap B = {} /\ A \cup B \in SUBSET C
  BY DEF Standing, OpenAt, CountedAt
<1>3. Cardinality(A \cup B) = Cardinality(A) + Cardinality(B) - Cardinality(A \cap B)
  BY <1>1, FS_Union
<1>4. Cardinality(A \cap B) = 0
  BY <1>2, FS_EmptySet
<1>5. Cardinality(A \cup B) <= Cardinality(C)
  BY <1>1, <1>2, FS_Subset
<1> QED BY <1>1, <1>3, <1>4, <1>5, FS_CardinalityType
-----------------------------------------------------------------------------
(* The inductive invariant holds initially ...                             *)
LEMMA InitEstablishes == Init => IInv
<1> SUFFICES ASSUME Init PROVE IInv
  OBVIOUS
<1>1. \A S \in {CountedAt, OpenAt, {"over"}, {"closing"}, {"over", "closing"}} :
        Standing(conn, S) = {}
  BY DEF Init, Standing, CountedAt, OpenAt
<1>2. TypeOK
  BY SessionAssumption DEF Init, TypeOK, AgentTypes, RunnerTypes, ProxyTypes, Pumping, Final,
     SessionAssumption
<1>3. SlotInv /\ CapInv
  BY <1>1, FS_EmptySet, SessionAssumption DEF Init, SlotInv, CapInv, SessionAssumption
<1>4. LateInv
  BY DEF Init, LateInv, ChargedWithinCap, Pumping
<1> QED BY <1>2, <1>3, <1>4 DEF IInv

(* ... and is kept by the agent, the timer and the runner's thread, which  *)
(* leave the proxy's counters alone.                                       *)
LEMMA ProxyUntouched ==
  ASSUME TypeOK, SlotInv, CapInv, UNCHANGED proxy
  PROVE  SlotInv' /\ CapInv'
BY DEF SlotInv, CapInv, proxy, Standing

LEMMA LateUntouched ==
  ASSUME LateInv, UNCHANGED <<proxy, late, receipt>>,
         pc' = "summary" => pc = "summary",
         pc' \in Pumping \cup {"collect"} =>
           pc \in Pumping \cup {"collect"}
  PROVE  LateInv'
BY DEF LateInv, ChargedWithinCap, proxy, Standing, Alive

LEMMA AgentKeeps ==
  ASSUME IInv, Agent \/ TimerFires
  PROVE  IInv'
<1>1. UNCHANGED <<proxy, runner, digest>>
  BY DEF Agent, AgentAsks, AgentReads, AgentExits, TimerFires
<1>2. RunnerTypes' /\ ProxyTypes'
  BY <1>1 DEF IInv, TypeOK, RunnerTypes, ProxyTypes, proxy, runner, Pumping, Final
<1>3. AgentTypes'
  BY DEF IInv, TypeOK, AgentTypes, Agent, AgentAsks, AgentReads, AgentExits, TimerFires
<1>4. LateInv'
  BY <1>1, LateUntouched DEF IInv, runner
<1> QED BY <1>1, <1>2, <1>3, <1>4, ProxyUntouched DEF IInv, TypeOK

(* The steps of the runner's thread before the accounting.                 *)
LEMMA PumpKeeps ==
  ASSUME IInv, WriteInput \/ ReadChunk \/ HttpEnds \/ Respond \/ PumpEnds \/ Reap
  PROVE  IInv'
<1> USE DEF WriteInput, ReadChunk, HttpEnds, Respond, PumpEnds, Reap
<1>1. UNCHANGED <<proxy, late, receipt>>
  OBVIOUS
<1>2. ProxyTypes'
  BY <1>1 DEF IInv, TypeOK, ProxyTypes, proxy
<1>3. AgentTypes'
  BY DEF IInv, TypeOK, AgentTypes, RunnerTypes
<1>4. RunnerTypes'
  BY DEF IInv, TypeOK, AgentTypes, RunnerTypes, Pumping, Final
<1>5. /\ pc' = "summary" => pc = "summary"
      /\ pc' \in Pumping \cup {"collect"} => pc \in Pumping \cup {"collect"}
  BY DEF Pumping
<1>6. LateInv'
  BY <1>1, <1>5, LateUntouched DEF IInv
<1> QED BY <1>1, <1>2, <1>3, <1>4, <1>6, ProxyUntouched DEF IInv, TypeOK

(* A connection that is accepted counts nowhere yet.                       *)
LEMMA TakeLineKeeps ==
  ASSUME IInv, TakeLine
  PROVE  IInv'
<1> USE DEF TakeLine
<1>1. UNCHANGED <<agent, input, framed, outbox, inbox, timer, digest,
                  slots, total, capped, late, receipt>>
  OBVIOUS
<1>2. AgentTypes' /\ RunnerTypes'
  BY DEF IInv, TypeOK, AgentTypes, RunnerTypes, Pumping, Final
<1>3. LateInv'
  BY <1>1 DEF IInv, LateInv, ChargedWithinCap, Pumping
<1>4. CASE UNCHANGED conn
  <2>1. UNCHANGED proxy
    BY <1>1, <1>4 DEF proxy
  <2> QED
    BY <1>2, <1>3, <2>1, ProxyUntouched DEF IInv, TypeOK, ProxyTypes, proxy
<1>5. CASE \E i \in Conns \ Alive : conn' = [conn EXCEPT ![i] = "accepted"]
  <2>1. PICK i \in Conns \ Alive : conn' = [conn EXCEPT ![i] = "accepted"]
    BY <1>5
  <2>2. ProxyTypes'
    BY <1>1, <2>1 DEF IInv, TypeOK, ProxyTypes
  <2>3. \A S : "free" \notin S /\ "accepted" \notin S => Standing(conn', S) = Standing(conn, S)
    BY <2>1 DEF Standing, Alive, IInv, TypeOK, ProxyTypes
  <2>4. \A S \in {CountedAt, OpenAt, {"over"}, {"closing"}, {"over", "closing"}} :
          Standing(conn', S) = Standing(conn, S)
    BY <2>3 DEF CountedAt, OpenAt
  <2>5. SlotInv' /\ CapInv'
    BY <1>1, <2>4 DEF IInv, SlotInv, CapInv
  <2> QED BY <1>2, <1>3, <2>2, <2>5 DEF IInv, TypeOK
<1> QED BY <1>4, <1>5

(* Stopping the proxy: who is alive now may still add a chunk each, and    *)
(* without the flag total exceeds the cap by those that are "over".        *)
LEMMA CollectKeeps ==
  ASSUME IInv, Collect
  PROVE  IInv'
<1> USE DEF Collect
<1>1. UNCHANGED <<agent, input, framed, outbox, inbox, timer, digest, proxy,
                  buf, cur, receipt>>
  OBVIOUS
<1>2. TypeOK'
  <2>1. AgentTypes' /\ ProxyTypes'
    BY <1>1 DEF IInv, TypeOK, AgentTypes, ProxyTypes, proxy
  <2>2. RunnerTypes'
    BY DEF IInv, TypeOK, RunnerTypes, Pumping, Final, Alive
  <2> QED BY <2>1, <2>2 DEF TypeOK
<1>3. receipt = None /\ receipt' = None
  BY <1>1 DEF IInv, LateInv
<1>4. ASSUME pc' = "summary"
      PROVE  Alive' \subseteq late'
             /\ total' <= MaxBytes + Cardinality(late' \ Standing(conn', AddingAt))
  <2> DEFINE Over == Standing(conn, {"over"})
             Rest == Alive \ Standing(conn, AddingAt)
  <2>1. ~capped /\ late' = Alive /\ Alive' = Alive /\ total' = total /\ conn' = conn
    BY <1>1, <1>4 DEF Alive, proxy
  <2>2. Over \in SUBSET Rest
    BY DEF Standing, Alive, AddingAt
  <2>3. IsFiniteSet(Rest)
    BY SessionAssumption, FS_Subset DEF SessionAssumption, Alive
  <2>4. Cardinality(Over) <= Cardinality(Rest) /\ Cardinality(Rest) \in Nat
    BY <2>2, <2>3, FS_Subset, FS_CardinalityType
  <2>5. Cardinality(Over) \in Nat
    BY StandingFinite
  <2>6. total <= MaxBytes + Cardinality(Over)
    BY <2>1 DEF IInv, CapInv
  <2>7. total \in Nat /\ MaxBytes \in Nat
    BY SessionAssumption DEF SessionAssumption, IInv, TypeOK, ProxyTypes
  <2>8. total <= MaxBytes + Cardinality(Rest)
    <3> HIDE DEF Over, Rest
    <3> QED BY <2>4, <2>5, <2>6, <2>7
  <2> QED BY <2>1, <2>8
<1>5. LateInv'
  BY <1>3, <1>4 DEF LateInv, ChargedWithinCap
<1> QED BY <1>1, <1>2, <1>5, ProxyUntouched DEF IInv

(* Reading the counters: what late tunnels added is on the charge.         *)
LEMMA SummariseKeeps ==
  ASSUME IInv, Summarise
  PROVE  IInv'
<1> USE DEF Summarise
<1>1. UNCHANGED <<agent, input, framed, outbox, inbox, timer, digest, proxy,
                  buf, cur, late>> /\ pc = "summary" /\ pc' = "hash" /\ receipt' = total
  OBVIOUS
<1>2. TypeOK'
  <2>1. AgentTypes' /\ ProxyTypes'
    BY <1>1 DEF IInv, TypeOK, AgentTypes, ProxyTypes, proxy
  <2>2. RunnerTypes'
    BY <1>1 DEF IInv, TypeOK, RunnerTypes, ProxyTypes, Pumping, Final
  <2> QED BY <2>1, <2>2 DEF TypeOK
<1>3. total <= MaxBytes + Cardinality(late)
  <2> DEFINE Rest == late \ Standing(conn, AddingAt)
  <2>1. IsFiniteSet(late)
    BY SessionAssumption, FS_Subset DEF SessionAssumption, IInv, TypeOK, RunnerTypes
  <2>2. /\ Cardinality(Rest) <= Cardinality(late)
        /\ Cardinality(Rest) \in Nat /\ Cardinality(late) \in Nat
    BY <2>1, FS_Subset, FS_CardinalityType
  <2>3. total <= MaxBytes + Cardinality(Rest)
    BY <1>1 DEF IInv, LateInv
  <2>4. total \in Nat /\ MaxBytes \in Nat
    BY SessionAssumption DEF SessionAssumption, IInv, TypeOK, ProxyTypes
  <2> HIDE DEF Rest
  <2> QED BY <2>2, <2>3, <2>4
<1>4. LateInv'
  BY <1>1, <1>3 DEF LateInv, ChargedWithinCap, Pumping
<1> QED BY <1>1, <1>2, <1>4, ProxyUntouched DEF IInv

LEMMA ChargeKeeps ==
  ASSUME IInv, HashEvents \/ ChargeRun
  PROVE  IInv'
<1>1. UNCHANGED <<agent, input, framed, outbox, inbox, timer, proxy,
                  buf, cur, late, receipt>>
      /\ pc' \in {"charge", "ok", "red"} /\ digest' \in {digest, "matches"}
  BY DEF HashEvents, ChargeRun
<1>2. TypeOK'
  <2>1. AgentTypes' /\ ProxyTypes'
    BY <1>1 DEF IInv, TypeOK, AgentTypes, ProxyTypes, proxy
  <2>2. RunnerTypes'
    BY <1>1 DEF IInv, TypeOK, RunnerTypes, Pumping, Final
  <2> QED BY <2>1, <2>2 DEF TypeOK
<1>3. LateInv'
  BY <1>1, LateUntouched DEF IInv, Pumping
<1> QED BY <1>1, <1>2, <1>3, ProxyUntouched DEF IInv

-----------------------------------------------------------------------------
(* A proxy thread that moves on without counting bytes leaves the          *)
(* accounting as it is, unless it becomes one that may count again.        *)
LEMMA MoveKeepsLate ==
  ASSUME IInv, NEW i \in Conns, NEW x \in Places,
         conn' = [conn EXCEPT ![i] = x],
         conn[i] # "free",
         x \in AddingAt => conn[i] \in AddingAt,
         UNCHANGED <<pc, late, receipt, total>>
  PROVE  LateInv'
<1>1. conn \in [Conns -> Places]
  BY DEF IInv, TypeOK, ProxyTypes, Places, CountedAt
<1>2. Alive' \subseteq Alive
  BY <1>1 DEF Alive
<1>3. Standing(conn', AddingAt) \subseteq Standing(conn, AddingAt)
  BY <1>1 DEF Standing
<1>4. ASSUME pc = "summary"
      PROVE  total <= MaxBytes + Cardinality(late \ Standing(conn', AddingAt))
  <2> DEFINE Old == late \ Standing(conn, AddingAt)
             New == late \ Standing(conn', AddingAt)
  <2>1. IsFiniteSet(New) /\ Old \in SUBSET New
    BY <1>3, SessionAssumption, FS_Subset DEF SessionAssumption, IInv, TypeOK, RunnerTypes
  <2>2. Cardinality(Old) <= Cardinality(New)
        /\ Cardinality(Old) \in Nat /\ Cardinality(New) \in Nat
    BY <2>1, FS_Subset, FS_CardinalityType
  <2>3. total <= MaxBytes + Cardinality(Old) /\ total \in Nat /\ MaxBytes \in Nat
    BY <1>4, SessionAssumption DEF SessionAssumption, IInv, TypeOK, ProxyTypes, LateInv
  <2> HIDE DEF Old, New
  <2>4. total <= MaxBytes + Cardinality(New)
    BY <2>2, <2>3
  <2> QED BY <2>4 DEF New
<1> QED BY <1>2, <1>4 DEF IInv, LateInv, ChargedWithinCap

(* What such a move does to the counts.                                    *)
LEMMA MoveCounts ==
  ASSUME IInv, NEW i \in Conns, NEW x \in Places,
         conn' = [conn EXCEPT ![i] = x]
  PROVE  /\ conn' \in [Conns -> Places]
         /\ \A S :
              /\ Cardinality(Standing(conn, S)) \in Nat
              /\ Cardinality(Standing(conn', S)) \in Nat
              /\ (x \in S <=> conn[i] \in S) => Standing(conn', S) = Standing(conn, S)
              /\ x \in S /\ conn[i] \notin S =>
                   Cardinality(Standing(conn', S)) = Cardinality(Standing(conn, S)) + 1
              /\ x \notin S /\ conn[i] \in S =>
                   Cardinality(Standing(conn', S)) = Cardinality(Standing(conn, S)) - 1
<1>1. conn \in [Conns -> Places]
  BY DEF IInv, TypeOK, ProxyTypes, Places, CountedAt
<1>2. conn' \in [Conns -> Places]
  BY <1>1
<1>3. ASSUME NEW S
      PROVE  /\ Cardinality(Standing(conn, S)) \in Nat
             /\ Cardinality(Standing(conn', S)) \in Nat
             /\ (x \in S <=> conn[i] \in S) => Standing(conn', S) = Standing(conn, S)
             /\ x \in S /\ conn[i] \notin S =>
                  Cardinality(Standing(conn', S)) = Cardinality(Standing(conn, S)) + 1
             /\ x \notin S /\ conn[i] \in S =>
                  Cardinality(Standing(conn', S)) = Cardinality(Standing(conn, S)) - 1
  BY <1>1, StandingMove, StandingFinite
<1> QED BY <1>2, <1>3

(* It leaves every set alone that holds both its places or neither.        *)
LEMMA MoveWithin ==
  ASSUME IInv, NEW i \in Conns, NEW x \in Places,
         conn' = [conn EXCEPT ![i] = x]
  PROVE  \A S : (x \in S <=> conn[i] \in S) => Standing(conn', S) = Standing(conn, S)
<1>1. conn \in [Conns -> Places]
  BY DEF IInv, TypeOK, ProxyTypes, Places, CountedAt
<1> QED BY <1>1 DEF Standing

LEMMA EnvTypes ==
  ASSUME IInv, UNCHANGED env, LogEvent \/ UNCHANGED digest
  PROVE  AgentTypes' /\ RunnerTypes'
<1>1. AgentTypes'
  BY DEF IInv, TypeOK, AgentTypes, env
<1>2. RunnerTypes'
  BY DEF IInv, TypeOK, RunnerTypes, env, runner, LogEvent, Pumping, Final
<1> QED BY <1>1, <1>2

LEMMA HandleKeeps ==
  ASSUME IInv, NEW i \in Conns, Handle(i)
  PROVE  IInv'
<1>1. conn[i] = "accepted" /\ UNCHANGED <<env, digest, total, capped>>
  BY DEF Handle
<1>2. UNCHANGED <<pc, late, receipt>>
  BY <1>1 DEF env, runner
<1>3. MaxConcurrent \in Nat /\ slots \in Nat
  BY SessionAssumption DEF SessionAssumption, IInv, TypeOK, ProxyTypes
<1>4. CASE slots >= MaxConcurrent
  <2>1. conn' = [conn EXCEPT ![i] = "over limit"] /\ slots' = slots
    BY <1>4 DEF Handle
  <2>2. LateInv'
    BY <1>1, <1>2, <2>1, MoveKeepsLate DEF Places, AddingAt
  <2>3. \A S \in {CountedAt, OpenAt, {"over"}, {"closing"}, {"over", "closing"}} :
          Standing(conn', S) = Standing(conn, S)
    BY <1>1, <2>1, MoveCounts DEF Places, CountedAt, OpenAt
  <2>4. SlotInv' /\ CapInv'
    BY <1>1, <2>1, <2>3 DEF IInv, SlotInv, CapInv
  <2>5. ProxyTypes'
    BY <1>1, <2>1 DEF IInv, TypeOK, ProxyTypes
  <2> QED BY <1>1, <2>2, <2>4, <2>5, EnvTypes DEF IInv, TypeOK
<1>5. CASE ~(slots >= MaxConcurrent)
  <2>1. conn' = [conn EXCEPT ![i] = "gate"] /\ slots' = slots + 1
    BY <1>5 DEF Handle
  <2>2. LateInv'
    BY <1>1, <1>2, <2>1, MoveKeepsLate DEF Places, CountedAt, AddingAt
  <2>3. \A S \in {OpenAt, {"over"}, {"closing"}, {"over", "closing"}} :
          Standing(conn', S) = Standing(conn, S)
    BY <1>1, <2>1, MoveCounts DEF Places, CountedAt, OpenAt
  <2>4. Cardinality(Standing(conn', CountedAt)) = Cardinality(Standing(conn, CountedAt)) + 1
    <3>1. "gate" \in Places /\ "gate" \in CountedAt /\ conn[i] \notin CountedAt
      BY <1>1 DEF Places, CountedAt
    <3> QED BY <2>1, <3>1, MoveCounts
  <2>5. SlotInv'
    BY <1>3, <1>5, <2>1, <2>4 DEF IInv, SlotInv
  <2>6. CapInv'
    BY <1>1, <2>3 DEF IInv, CapInv
  <2>7. ProxyTypes'
    <3>1. slots' \in Nat
      BY <1>3, <2>1
    <3> QED BY <1>1, <2>1, <3>1 DEF IInv, TypeOK, ProxyTypes
  <2> QED BY <1>1, <2>2, <2>5, <2>6, <2>7, EnvTypes DEF IInv, TypeOK
<1> QED BY <1>4, <1>5

(* Steps of a thread that stays counted, or uncounted, and open or not.    *)
LEMMA DenyKeeps ==
  ASSUME IInv, NEW i \in Conns, DenyOverLimit(i)
  PROVE  IInv'
<1>1. /\ conn[i] = "over limit" /\ conn' = [conn EXCEPT ![i] = "free"]
      /\ UNCHANGED <<env, slots, total, capped>> /\ LogEvent
  BY DEF DenyOverLimit
<1>2. UNCHANGED <<pc, late, receipt>>
  BY <1>1 DEF env, runner
<1>3. "free" \in Places /\ "free" \notin AddingAt
  BY DEF Places, AddingAt
<1>4. LateInv'
  BY <1>1, <1>2, <1>3, MoveKeepsLate
<1>5. \A S \in {CountedAt, OpenAt, {"over"}, {"closing"}, {"over", "closing"}} :
        Standing(conn', S) = Standing(conn, S)
  <2>1. \A S : ("free" \in S <=> "over limit" \in S) => Standing(conn', S) = Standing(conn, S)
    BY <1>1, <1>3, MoveWithin
  <2> QED BY <2>1 DEF CountedAt, OpenAt
<1>6. SlotInv' /\ CapInv'
  BY <1>1, <1>5 DEF IInv, SlotInv, CapInv
<1>7. ProxyTypes'
  BY <1>1 DEF IInv, TypeOK, ProxyTypes
<1> QED BY <1>1, <1>4, <1>6, <1>7, EnvTypes DEF IInv, TypeOK

(* A tunnel opens only while the flag is not set.                          *)
LEMMA GateKeeps ==
  ASSUME IInv, NEW i \in Conns, Gate(i)
  PROVE  IInv'
<1>1. /\ conn[i] = "gate" /\ conn' = [conn EXCEPT ![i] = "dial"] /\ ~capped
      /\ UNCHANGED <<env, digest, slots, total, capped>>
  BY DEF Gate
<1>2. UNCHANGED <<pc, late, receipt>>
  BY <1>1 DEF env, runner
<1>3. "dial" \in Places /\ conn[i] \in AddingAt
  BY <1>1 DEF Places, CountedAt, AddingAt
<1>4. LateInv'
  BY <1>1, <1>2, <1>3, MoveKeepsLate
<1>5. \A S \in {CountedAt, {"over"}, {"closing"}, {"over", "closing"}} :
        Standing(conn', S) = Standing(conn, S)
  <2>1. \A S : ("dial" \in S <=> "gate" \in S) => Standing(conn', S) = Standing(conn, S)
    BY <1>1, <1>3, MoveWithin
  <2> QED BY <2>1 DEF CountedAt
<1>6. SlotInv' /\ CapInv'
  BY <1>1, <1>5 DEF IInv, SlotInv, CapInv
<1>7. ProxyTypes'
  BY <1>1 DEF IInv, TypeOK, ProxyTypes
<1> QED BY <1>1, <1>4, <1>6, <1>7, EnvTypes DEF IInv, TypeOK

LEMMA DialKeeps ==
  ASSUME IInv, NEW i \in Conns, Dial(i)
  PROVE  IInv'
<1>1. /\ conn[i] = "dial" /\ conn' = [conn EXCEPT ![i] = "tunnel"]
      /\ UNCHANGED <<env, digest, slots, total, capped>>
  BY DEF Dial
<1>2. UNCHANGED <<pc, late, receipt>>
  BY <1>1 DEF env, runner
<1>3. "tunnel" \in Places /\ conn[i] \in AddingAt
  BY <1>1 DEF Places, CountedAt, AddingAt
<1>4. LateInv'
  BY <1>1, <1>2, <1>3, MoveKeepsLate
<1>5. \A S \in {CountedAt, OpenAt, {"over"}, {"closing"}, {"over", "closing"}} :
        Standing(conn', S) = Standing(conn, S)
  <2>1. \A S : ("tunnel" \in S <=> "dial" \in S) => Standing(conn', S) = Standing(conn, S)
    BY <1>1, <1>3, MoveWithin
  <2> QED BY <2>1 DEF CountedAt, OpenAt
<1>6. SlotInv' /\ CapInv'
  BY <1>1, <1>5 DEF IInv, SlotInv, CapInv
<1>7. ProxyTypes'
  BY <1>1 DEF IInv, TypeOK, ProxyTypes
<1> QED BY <1>1, <1>4, <1>6, <1>7, EnvTypes DEF IInv, TypeOK

(* A counted connection ends: its slot is given back, no count grows.      *)
LEMMA EndsKeeps ==
  ASSUME IInv, NEW i \in Conns, Refuse(i) \/ TunnelEnds(i)
  PROVE  IInv'
<1>1. /\ conn[i] \in {"gate", "dial", "tunnel", "closing"}
      /\ conn' = [conn EXCEPT ![i] = "free"] /\ slots' = slots - 1
      /\ UNCHANGED <<env, total, capped>> /\ (LogEvent \/ UNCHANGED digest)
  BY DEF Refuse, TunnelEnds, Ends
<1>2. UNCHANGED <<pc, late, receipt>>
  BY <1>1 DEF env, runner
<1>3. "free" \in Places /\ "free" \notin AddingAt /\ "free" \notin CountedAt
      /\ "free" \notin OpenAt /\ conn[i] \in CountedAt
  BY <1>1 DEF Places, AddingAt, CountedAt, OpenAt
<1>4. LateInv'
  BY <1>1, <1>2, <1>3, MoveKeepsLate
<1>5. SlotInv' /\ slots' \in Nat
  <2>1. /\ Cardinality(Standing(conn', CountedAt)) = Cardinality(Standing(conn, CountedAt)) - 1
        /\ Cardinality(Standing(conn', CountedAt)) \in Nat
        /\ Cardinality(Standing(conn, CountedAt)) \in Nat
    BY <1>1, <1>3, MoveCounts
  <2>2. MaxConcurrent \in Nat
    BY SessionAssumption DEF SessionAssumption
  <2> QED BY <1>1, <2>1, <2>2 DEF IInv, SlotInv
<1>6. CapInv'
  <2>1. Standing(conn', {"over"}) = Standing(conn, {"over"})
    BY <1>1 DEF Standing, IInv, TypeOK, ProxyTypes
  <2>2. /\ Standing(conn', {"closing"}) \subseteq Standing(conn, {"closing"})
        /\ Standing(conn', {"over", "closing"}) \subseteq Standing(conn, {"over", "closing"})
    BY <1>1 DEF Standing, IInv, TypeOK, ProxyTypes
  <2>3. /\ Cardinality(Standing(conn', OpenAt)) <= Cardinality(Standing(conn, OpenAt))
        /\ Cardinality(Standing(conn', OpenAt)) \in Nat
        /\ Cardinality(Standing(conn, OpenAt)) \in Nat
    <3>1. Standing(conn', OpenAt) \subseteq Standing(conn, OpenAt)
      BY <1>1, <1>3 DEF Standing, IInv, TypeOK, ProxyTypes
    <3> QED BY <3>1, StandingFinite, FS_Subset
  <2>4. total \in Nat /\ MaxBytes \in Nat /\ MaxConcurrent \in Nat
    BY SessionAssumption DEF SessionAssumption, IInv, TypeOK, ProxyTypes
  <2>5. capped => total' + Cardinality(Standing(conn', OpenAt)) <= MaxBytes + MaxConcurrent
    BY <1>1, <2>3, <2>4 DEF IInv, CapInv
  <2> QED BY <1>1, <2>1, <2>2, <2>5 DEF IInv, CapInv
<1>7. ProxyTypes'
  BY <1>1, <1>5 DEF IInv, TypeOK, ProxyTypes
<1> QED BY <1>1, <1>4, <1>5, <1>6, <1>7, EnvTypes DEF IInv, TypeOK

(* A chunk within the cap leaves the thread where it is ...                *)
LEMMA ChunkWithinKeeps ==
  ASSUME IInv, NEW i \in Conns, Chunk(i), total + 1 <= MaxBytes
  PROVE  IInv'
<1>1. conn[i] = "tunnel" /\ total' = total + 1
      /\ UNCHANGED <<env, digest, slots, capped>>
  BY DEF Chunk
<1>2. total \in Nat /\ MaxBytes \in Nat /\ MaxConcurrent \in Nat
      /\ conn \in [Conns -> Places]
  BY SessionAssumption
  DEF SessionAssumption, IInv, TypeOK, ProxyTypes, Places, CountedAt
<1>3. conn' = conn
  BY <1>1, <1>2 DEF Chunk
<1>4. UNCHANGED <<pc, late, receipt>>
  BY <1>1 DEF env, runner
<1>5. SlotInv'
  BY <1>1, <1>3 DEF IInv, SlotInv
<1>6. ~capped /\ Standing(conn, {"over", "closing"}) = {}
  BY <1>2 DEF IInv, CapInv
<1>7. CapInv'
  <2>1. Cardinality(Standing(conn', {"over"})) \in Nat
    BY StandingFinite
  <2>2. Standing(conn, {"closing"}) = {}
    BY <1>6 DEF Standing
  <2>3. total' <= MaxBytes + Cardinality(Standing(conn', {"over"}))
    BY <1>1, <1>2, <2>1
  <2> QED BY <1>1, <1>3, <1>6, <2>2, <2>3 DEF CapInv
<1>8. LateInv'
  <2>1. Cardinality(late \ Standing(conn', AddingAt)) \in Nat
    BY SessionAssumption, FS_Subset, FS_CardinalityType
    DEF SessionAssumption, IInv, TypeOK, RunnerTypes
  <2>2. total' <= MaxBytes + Cardinality(late \ Standing(conn', AddingAt))
    BY <1>1, <1>2, <2>1
  <2>3. Alive' = Alive
    BY <1>3 DEF Alive
  <2> QED BY <1>4, <2>2, <2>3 DEF IInv, LateInv, ChargedWithinCap
<1>9. ProxyTypes'
  <2>1. total' \in Nat
    BY <1>1, <1>2
  <2> QED BY <1>1, <1>3, <2>1 DEF IInv, TypeOK, ProxyTypes
<1> QED BY <1>1, <1>5, <1>7, <1>8, <1>9, EnvTypes DEF IInv, TypeOK

(* ... and one beyond it takes the thread out of the open ones for good.   *)
LEMMA ChunkBeyondKeeps ==
  ASSUME IInv, NEW i \in Conns, Chunk(i), ~(total + 1 <= MaxBytes)
  PROVE  IInv'
<1>1. conn[i] = "tunnel" /\ total' = total + 1
      /\ UNCHANGED <<env, digest, slots, capped>>
  BY DEF Chunk
<1>2. total \in Nat /\ MaxBytes \in Nat /\ MaxConcurrent \in Nat
      /\ conn \in [Conns -> Places]
  BY SessionAssumption
  DEF SessionAssumption, IInv, TypeOK, ProxyTypes, Places, CountedAt
<1>3. conn' = [conn EXCEPT ![i] = "over"] /\ total' > MaxBytes
  <2>1. total' > MaxBytes
    BY <1>1, <1>2
  <2> QED BY <2>1 DEF Chunk
<1>4. UNCHANGED <<pc, late, receipt>>
  BY <1>1 DEF env, runner
<1>5. /\ "over" \in Places /\ "over" \in CountedAt
      /\ "over" \notin OpenAt /\ "over" \notin AddingAt
      /\ conn[i] \in CountedAt /\ conn[i] \in OpenAt /\ conn[i] \in AddingAt
  BY <1>1 DEF Places, CountedAt, OpenAt, AddingAt
<1>6. SlotInv'
  <2>1. Standing(conn', CountedAt) = Standing(conn, CountedAt)
    BY <1>3, <1>5, MoveWithin
  <2> QED BY <1>1, <2>1 DEF IInv, SlotInv
<1>7. CapInv'
  <2>1. /\ Cardinality(Standing(conn', {"over"})) = Cardinality(Standing(conn, {"over"})) + 1
        /\ Cardinality(Standing(conn, {"over"})) \in Nat
    <3>1. conn[i] \notin {"over"} /\ "over" \in {"over"}
      BY <1>1
    <3> QED BY <1>3, <1>5, <3>1, MoveCounts
  <2>2. /\ Cardinality(Standing(conn', OpenAt)) = Cardinality(Standing(conn, OpenAt)) - 1
        /\ Cardinality(Standing(conn, OpenAt)) \in Nat
    BY <1>3, <1>5, MoveCounts
  <2>3. Standing(conn', {"closing"}) = Standing(conn, {"closing"})
    BY <1>1, <1>2, <1>3 DEF Standing
  <2>4. ~capped => total' <= MaxBytes + Cardinality(Standing(conn', {"over"}))
    BY <1>1, <1>2, <2>1 DEF IInv, CapInv
  <2>5. capped => total' + Cardinality(Standing(conn', OpenAt)) <= MaxBytes + MaxConcurrent
    BY <1>1, <1>2, <2>2 DEF IInv, CapInv
  <2> QED BY <1>1, <1>3, <2>3, <2>4, <2>5 DEF IInv, CapInv
<1>8. LateInv'
  <2>1. Alive' = Alive
    BY <1>1, <1>2, <1>3 DEF Alive
  <2>2. ASSUME pc = "summary"
        PROVE  total' <= MaxBytes + Cardinality(late \ Standing(conn', AddingAt))
    <3> DEFINE Old == late \ Standing(conn, AddingAt)
               New == late \ Standing(conn', AddingAt)
    <3>1. i \in late /\ IsFiniteSet(late)
      BY <1>1, <2>2, SessionAssumption, FS_Subset
      DEF SessionAssumption, IInv, TypeOK, RunnerTypes, LateInv, Alive
    <3>2. New = Old \cup {i} /\ i \notin Old
      BY <1>2, <1>3, <1>5, <3>1 DEF Standing
    <3>3. Cardinality(New) = Cardinality(Old) + 1 /\ Cardinality(Old) \in Nat
      BY <3>1, <3>2, FS_Subset, FS_AddElement, FS_CardinalityType
    <3>4. total <= MaxBytes + Cardinality(Old)
      BY <2>2 DEF IInv, LateInv
    <3> HIDE DEF Old, New
    <3>5. total' <= MaxBytes + Cardinality(New)
      BY <1>1, <1>2, <3>3, <3>4
    <3> QED BY <3>5 DEF New
  <2> QED BY <1>4, <2>1, <2>2 DEF IInv, LateInv, ChargedWithinCap
<1>9. ProxyTypes'
  <2>1. total' \in Nat
    BY <1>1, <1>2
  <2>2. conn' \in [Conns -> Places]
    BY <1>2, <1>3, <1>5
  <2> QED BY <1>1, <2>1, <2>2 DEF IInv, TypeOK, ProxyTypes, Places, CountedAt
<1> QED BY <1>1, <1>6, <1>7, <1>8, <1>9, EnvTypes DEF IInv, TypeOK

(* Setting the flag closes the gate: from here on only open tunnels add.   *)
LEMMA SetCappedKeeps ==
  ASSUME IInv, NEW i \in Conns, SetCapped(i)
  PROVE  IInv'
<1>1. conn[i] = "over" /\ capped' = TRUE /\ conn' = [conn EXCEPT ![i] = "closing"]
      /\ UNCHANGED <<env, digest, slots, total>>
  BY DEF SetCapped
<1>2. total \in Nat /\ MaxBytes \in Nat /\ MaxConcurrent \in Nat
      /\ conn \in [Conns -> Places]
  BY SessionAssumption
  DEF SessionAssumption, IInv, TypeOK, ProxyTypes, Places, CountedAt
<1>3. UNCHANGED <<pc, late, receipt>>
  BY <1>1 DEF env, runner
<1>4. "closing" \in Places /\ "closing" \notin AddingAt
  BY DEF Places, CountedAt, AddingAt
<1>5. LateInv'
  BY <1>1, <1>3, <1>4, MoveKeepsLate
<1>6. \A S \in {CountedAt, OpenAt, {"over", "closing"}} :
        Standing(conn', S) = Standing(conn, S)
  <2>1. \A S : ("closing" \in S <=> "over" \in S) => Standing(conn', S) = Standing(conn, S)
    BY <1>1, <1>4, MoveWithin
  <2> QED BY <2>1 DEF CountedAt, OpenAt
<1>7. SlotInv'
  BY <1>1, <1>6 DEF IInv, SlotInv
<1>8. CapInv'
  <2>1. total > MaxBytes
    <3>1. i \in Standing(conn, {"over", "closing"})
      BY <1>1 DEF Standing
    <3> QED BY <3>1 DEF IInv, CapInv
  <2>2. total + Cardinality(Standing(conn, OpenAt)) <= MaxBytes + MaxConcurrent
    <3>1. CASE capped
      BY <3>1 DEF IInv, CapInv
    <3>2. CASE ~capped
      <4>1. total <= MaxBytes + Cardinality(Standing(conn, {"over"}))
        BY <3>2 DEF IInv, CapInv
      <4>2. /\ Cardinality(Standing(conn, {"over"})) \in Nat
            /\ Cardinality(Standing(conn, OpenAt)) \in Nat
            /\ Cardinality(Standing(conn, CountedAt)) \in Nat
        BY StandingFinite
      <4>3. Cardinality(Standing(conn, CountedAt)) <= MaxConcurrent
        BY DEF IInv, SlotInv
      <4> QED BY <1>2, <4>1, <4>2, <4>3, OverAndOpen
    <3> QED BY <3>1, <3>2
  <2> QED BY <1>1, <1>6, <2>1, <2>2 DEF CapInv
<1>9. ProxyTypes'
  BY <1>1 DEF IInv, TypeOK, ProxyTypes
<1> QED BY <1>1, <1>5, <1>7, <1>8, <1>9, EnvTypes DEF IInv, TypeOK

-----------------------------------------------------------------------------
(* Every step keeps the inductive invariant.                               *)
LEMMA NextKeeps == IInv /\ [Next]_vars => IInv'
<1> SUFFICES ASSUME IInv, [Next]_vars PROVE IInv'
  OBVIOUS
<1>1. CASE Agent \/ TimerFires
  BY <1>1, AgentKeeps
<1>2. CASE Runner \/ HttpEnds
  BY <1>2, PumpKeeps, TakeLineKeeps, CollectKeeps, SummariseKeeps, ChargeKeeps
  DEF Runner, HttpOver
<1>3. ASSUME NEW i \in Conns, Serve(i) PROVE IInv'
  <2>1. CASE Chunk(i)
    BY <2>1, ChunkWithinKeeps, ChunkBeyondKeeps
  <2> QED
    BY <1>3, <2>1, HandleKeeps, DenyKeeps, GateKeeps, DialKeeps, EndsKeeps,
       SetCappedKeeps
    DEF Serve
<1>4. CASE UNCHANGED vars
  <2>1. UNCHANGED <<agent, input, framed, outbox, inbox, timer, digest>>
        /\ UNCHANGED <<conn, slots, total, capped>> /\ UNCHANGED <<pc, buf, cur, late, receipt>>
    BY <1>4 DEF vars, proxy, runner
  <2>2. AgentTypes'
    BY <2>1 DEF IInv, TypeOK, AgentTypes
  <2>3. RunnerTypes'
    BY <2>1 DEF IInv, TypeOK, RunnerTypes, Pumping, Final
  <2>4. ProxyTypes'
    BY <2>1 DEF IInv, TypeOK, ProxyTypes
  <2> QED
    BY <2>1, <2>2, <2>3, <2>4, ProxyUntouched, LateUntouched DEF proxy, IInv, TypeOK
<1> QED BY <1>1, <1>2, <1>3, <1>4 DEF Next

THEOREM Invariance == Spec => []IInv
BY InitEstablishes, NextKeeps, PTL DEF Spec

(* Every variable stays in its domain.                                     *)
THEOREM TypeCorrect == Spec => []TypeOK
<1>1. IInv => TypeOK
  BY DEF IInv
<1> QED BY <1>1, Invariance, PTL

(* The proxy serves at most max_concurrent connections at a time.          *)
THEOREM ConnLimitHolds == Spec => []ConnLimit
<1>1. IInv => ConnLimit
  BY DEF IInv, SlotInv, ConnLimit, Counted, Standing, CountedAt
<1> QED BY <1>1, Invariance, PTL

(* Whatever the interleaving of counter, flag and gate, the traffic of a   *)
(* session exceeds max_bytes_per_run by at most one chunk per connection.  *)
THEOREM OvershootHolds == Spec => []OvershootBounded
<1>1. ASSUME IInv PROVE OvershootBounded
  <2>1. total \in Nat /\ MaxBytes \in Nat /\ MaxConcurrent \in Nat
    BY <1>1, SessionAssumption DEF SessionAssumption, IInv, TypeOK, ProxyTypes
  <2>2. /\ Cardinality(Standing(conn, {"over"})) \in Nat
        /\ Cardinality(Standing(conn, OpenAt)) \in Nat
        /\ Cardinality(Standing(conn, CountedAt)) \in Nat
    BY StandingFinite
  <2>3. Cardinality(Standing(conn, CountedAt)) <= MaxConcurrent
    BY <1>1 DEF IInv, SlotInv
  <2>4. CASE capped
    BY <1>1, <2>1, <2>2, <2>4 DEF IInv, CapInv, OvershootBounded
  <2>5. CASE ~capped
    BY <1>1, <2>1, <2>2, <2>3, <2>5, OverAndOpen DEF IInv, CapInv, OvershootBounded
  <2> QED BY <2>4, <2>5
<1> QED BY <1>1, Invariance, PTL

(* A charge states more than the cap only by what connections added that   *)
(* were alive when the proxy was stopped.                                  *)
THEOREM ChargedWithinCapHolds == Spec => []ChargedWithinCap
<1>1. IInv => ChargedWithinCap
  BY DEF IInv, LateInv
<1> QED BY <1>1, Invariance, PTL
-----------------------------------------------------------------------------
(* Where the accounting found no connection alive there is none until the  *)
(* charge is written, so nothing it read can change behind it.             *)
Accounting == {"summary", "hash", "charge", "ok"}

ExactInv ==
  pc \in Accounting /\ late = {} =>
    /\ Alive = {} /\ total <= MaxBytes
    /\ pc # "summary" => receipt = total
    /\ pc \in {"charge", "ok"} => digest = "matches"

(* Stopping the proxy with nobody alive: the flag is down, and no thread   *)
(* stands between counting a chunk beyond the cap and setting the flag.    *)
LEMMA CollectExact ==
  ASSUME IInv, Collect
  PROVE  ExactInv'
<1> SUFFICES ASSUME pc' \in Accounting, late' = {}
             PROVE  Alive' = {} /\ total' <= MaxBytes /\ pc' = "summary"
  BY DEF ExactInv
<1>1. UNCHANGED proxy /\ late' = Alive /\ pc' = "summary" /\ ~capped
  BY DEF Collect, Accounting
<1>2. Alive = {} /\ Alive' = {}
  BY <1>1 DEF Alive, proxy
<1>3. Standing(conn, {"over"}) = {}
  BY <1>2 DEF Standing, Alive
<1>4. total \in Nat /\ MaxBytes \in Nat
  BY SessionAssumption DEF SessionAssumption, IInv, TypeOK, ProxyTypes
<1>5. total <= MaxBytes
  BY <1>1, <1>3, <1>4, FS_EmptySet DEF IInv, CapInv
<1> QED BY <1>1, <1>2, <1>5 DEF proxy

LEMMA ExactStep ==
  ASSUME IInv, ExactInv, [Next]_vars
  PROVE  ExactInv'
<1>1. CASE Collect
  BY <1>1, CollectExact
<1>2. ASSUME Summarise \/ HashEvents \/ ChargeRun
      PROVE  ExactInv'
  <2>1. UNCHANGED <<proxy, late>>
    BY <1>2 DEF Summarise, HashEvents, ChargeRun
  <2>2. Alive' = Alive /\ total' = total
    BY <2>1 DEF Alive, proxy
  <2> QED
    BY <1>2, <2>1, <2>2 DEF ExactInv, Accounting, Summarise, HashEvents, ChargeRun
<1>3. ASSUME NEW i \in Conns, Serve(i)
      PROVE  ExactInv'
  <2>1. i \in Alive
    BY <1>3 DEF Serve, Handle, DenyOverLimit, Gate, Refuse, Dial, Chunk, SetCapped,
       TunnelEnds, Alive
  <2>2. UNCHANGED <<pc, late>>
    BY <1>3 DEF Serve, Handle, DenyOverLimit, Gate, Refuse, Dial, Chunk, SetCapped,
       TunnelEnds, Ends, env, runner
  <2> QED
    BY <2>1, <2>2 DEF ExactInv
<1>4. ASSUME \/ Agent \/ TimerFires \/ WriteInput \/ ReadChunk \/ TakeLine
             \/ HttpEnds \/ Respond \/ PumpEnds \/ Reap
      PROVE  ExactInv'
  <2>1. CASE pc' \notin Accounting
    BY <2>1 DEF ExactInv
  <2>2. CASE pc' \in Accounting
    <3>1. Agent \/ TimerFires
      BY <1>4, <2>2 DEF Accounting, WriteInput, ReadChunk, TakeLine, HttpEnds, Respond,
         PumpEnds, Reap
    <3>2. UNCHANGED <<proxy, runner, digest>>
      BY <3>1 DEF Agent, AgentAsks, AgentReads, AgentExits, TimerFires
    <3> QED
      BY <3>2 DEF ExactInv, Alive, proxy, runner
  <2> QED BY <2>1, <2>2
<1>5. CASE UNCHANGED vars
  BY <1>5 DEF vars, ExactInv, Alive, proxy, runner
<1> QED
  BY <1>1, <1>2, <1>3, <1>4, <1>5 DEF Next, Runner, HttpOver

(* A charge written while no tunnel outlived the session states all bytes  *)
(* of it, within the cap, and the digest of the events file as it stays.   *)
THEOREM ReceiptExactHolds == Spec => []ReceiptExact
<1>1. Init => ExactInv
  BY DEF Init, ExactInv, Accounting
<1>2. IInv /\ ExactInv /\ [Next]_vars => ExactInv'
  BY ExactStep
<1>3. ExactInv => ReceiptExact
  BY DEF ExactInv, ReceiptExact, Accounting
<1> QED BY <1>1, <1>2, <1>3, Invariance, PTL DEF Spec
=============================================================================
