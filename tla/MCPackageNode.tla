--------------------------- MODULE MCPackageNode ---------------------------
(***************************************************************************)
(* Constants of the PackageNode runs that a .cfg cannot write.             *)
(***************************************************************************)
EXTENDS PackageNode, TLC

CONSTANT Older   \* nodes with an older release, which knows no op but charge

Registered == [n \in Nodes |-> IF n \in Older THEN {"charge"} ELSE Ops]

\* No --node-key, and imports under the L0 policy, which asks for no signature.
NoKeys   == [n \in Nodes |-> None]
PolicyL0 == [n \in Nodes |-> {None}]

Interchangeable == Permutations(Nodes)
=============================================================================
