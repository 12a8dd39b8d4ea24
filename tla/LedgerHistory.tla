--------------------------- MODULE LedgerHistory ---------------------------
(***************************************************************************)
(* What the ledgers of a set of nodes promise together (RFC-003 D3/D4,     *)
(* RFC-002 E-9/E-10): a history is a sequence of committed entries that    *)
(* only ever grows at its end.  A node without a history may adopt one     *)
(* that some node published; it never rewrites its own.                    *)
(*                                                                         *)
(* There is one exception, the last entry of a history that is loose: it   *)
(* was committed, can be published and adopted, and may be withdrawn, but  *)
(* nothing is ever committed behind it.                                    *)
(*                                                                         *)
(* PackageNode implements this specification: its log is the history       *)
(* written as hash-chained lines, and its snapshots publish it.            *)
(***************************************************************************)
EXTENDS Naturals, Sequences

CONSTANTS Nodes, Fact

VARIABLES
  history,    \* history[n]: the entries committed at n, oldest first
  loose,      \* nodes whose last entry may yet be withdrawn
  published   \* histories that left a node in a snapshot

vars == <<history, loose, published>>

Init ==
  /\ history = [n \in Nodes |-> << >>]
  /\ loose = {}
  /\ published = {}

(***************************************************************************)
(* One entry is added, numbered by its place.  Stated on the histories     *)
(* before and after, so that no set of facts has to be enumerated.         *)
(***************************************************************************)
Commit(n) ==
  LET old == history[n]
      new == history'[n]
  IN
  /\ n \notin loose /\ loose' \in {loose, loose \cup {n}}
  /\ Len(new) = Len(old) + 1
  /\ SubSeq(new, 1, Len(old)) = old
  /\ new[Len(new)] \in [seq : {Len(new)}, body : Fact]
  /\ \A m \in Nodes \ {n} : history'[m] = history[m]
  /\ UNCHANGED published

\* A loose entry is withdrawn; the history it ended goes on, or stays so.
Withdraw(n) ==
  /\ n \in loose /\ loose' = loose \ {n}
  /\ history' = [history EXCEPT ![n] = SubSeq(@, 1, Len(@) - 1)]
  /\ UNCHANGED published

Publish(n) ==
  /\ published' = published \cup {history[n]}
  /\ UNCHANGED <<history, loose>>

\* An adoption that is cut short keeps the oldest entries, the last one loosely.
Adopt(n, h, k) ==
  /\ history[n] = << >> /\ n \notin loose
  /\ history' = [history EXCEPT ![n] = SubSeq(h, 1, k)]
  /\ \/ loose' = loose
     \/ k > 0 /\ loose' = loose \cup {n}
  /\ UNCHANGED published

Next ==
  \E n \in Nodes :
    \/ Commit(n)
    \/ Withdraw(n)
    \/ Publish(n)
    \/ \E h \in published : \E k \in 0..Len(h) : Adopt(n, h, k)

Spec == Init /\ [][Next]_vars
=============================================================================
