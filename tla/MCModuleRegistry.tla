-------------------------- MODULE MCModuleRegistry --------------------------
(* Constants of ModuleRegistry that a .cfg cannot write.                   *)
EXTENDS ModuleRegistry, TLC

CONSTANTS m1, m2, p1, p2

Good(p) == [pkg |-> p, cpu |-> 1, sized |-> TRUE]

\* The module moves to another package; a second module comes without its
\* size; a note stands beside it; the limit is not the manifest's.
SomeRegistries ==
  {[mods |-> m1 :> Good(p1), notes |-> FALSE],
   [mods |-> m1 :> Good(p2), notes |-> TRUE],
   [mods |-> m1 :> Good(p1) @@ m2 :> [Good(p1) EXCEPT !.sized = FALSE], notes |-> FALSE],
   [mods |-> m1 :> Good(p1) @@ m2 :> [Good(p2) EXCEPT !.cpu = 2], notes |-> FALSE]}

\* The daemon's requests carry bytes, a run-request names a file.
SomeRequests ==
  {[asks |-> m1, cpu |-> 2, path |-> FALSE, fits |-> TRUE],
   [asks |-> m1, cpu |-> 1, path |-> FALSE, fits |-> FALSE],
   [asks |-> m1, cpu |-> 1, path |-> TRUE, fits |-> FALSE],
   [asks |-> m2, cpu |-> 1, path |-> FALSE, fits |-> TRUE],
   [asks |-> m1, cpu |-> 3, path |-> FALSE, fits |-> TRUE]}

SomeSettings ==
  {[daemon |-> TRUE, secret |-> "own"], [daemon |-> FALSE, secret |-> "known"]}
=============================================================================
