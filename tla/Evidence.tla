------------------------------ MODULE Evidence ------------------------------
(***************************************************************************)
(* What a counterparty is handed and what it can check without trusting    *)
(* the node: the ledger of a package (LedgerReaders), or a document of     *)
(* somebody else (DocumentChecks).  The two share no state, so a behaviour *)
(* is about one of them, and the other one stays as it started.            *)
(***************************************************************************)
EXTENDS LedgerReaders, DocumentChecks

VARIABLE subject

evidenceVars == <<subject, ledgerVars, docVars>>

EvidenceInit ==
  /\ LedgerInit /\ DocInit
  /\ subject \in {"package", "document"}
  /\ subject = "package" => tool = "settle" /\ via = "shell"

Package  == subject = "package" /\ LedgerNext /\ UNCHANGED <<subject, docVars>>
Document == subject = "document" /\ DocNext /\ UNCHANGED <<subject, ledgerVars>>

EvidenceSpec == EvidenceInit /\ [][Package \/ Document]_evidenceVars
=============================================================================
