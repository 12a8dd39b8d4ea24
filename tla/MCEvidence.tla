----------------------------- MODULE MCEvidence -----------------------------
(* Constants of Evidence that a .cfg cannot write.                         *)
EXTENDS Evidence

Text(op, shaped, fits, split, number) ==
  [op |-> op, shaped |-> shaped, fits |-> fits, split |-> split, number |-> number]

Right(op) == Text(op, TRUE, TRUE, FALSE, "exact")
Wrong(op) == Text(op, FALSE, TRUE, FALSE, "exact")

\* A grant whose note holds a separator, a compute-anchor that is too long,
\* and one with a nonce of 1e16.
Requested ==
  {Right("charge"), Text("grant", TRUE, TRUE, TRUE, "exact"), Wrong("grant"),
   Right("anchor"), Wrong("anchor"), Text("compute-anchor", TRUE, FALSE, FALSE, "exact"),
   Text("compute-anchor", TRUE, TRUE, FALSE, "wide"), Right("migrate-net")}

\* Records of a wrong shape, one with a number that JCS does not write.
Strange == {Wrong("grant"), Text("compute-anchor", FALSE, TRUE, FALSE, "unwritable")}

Bodies == Requested \cup Strange
=============================================================================
