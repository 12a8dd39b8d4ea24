--------------------------- MODULE DocumentChecks ---------------------------
(***************************************************************************)
(* The tools that answer for a document somebody else wrote: settlement    *)
(* claims, dispute pointers, mining receipts, attestations, epoch seals,   *)
(* time stamps, anchors, fulfilments, a snapshot's co-signatures.  Each is *)
(* a sequence of gates; the first one that stops answers, RED or           *)
(* INDETERMINATE, and GREEN is what is left when none does.                *)
(*                                                                         *)
(* What a gate looks at is a piece of a source: a field, a hash, a         *)
(* signature, an option, the answer of a node or of another program.  A    *)
(* piece is as it should be, wrong, absent, or of a kind the tool does not *)
(* know or cannot reach; how that is computed (elliptic curves, DER, JSON) *)
(* is left out.  A source is a file or a chain that may be replaced while  *)
(* the tool runs, which matters where a tool takes the same one up twice.  *)
(***************************************************************************)
EXTENDS Naturals, Sequences, FiniteSets

CONSTANT MaxReplacements

Spoiled == {"bad", "absent", "unknown"}
State   == {"ok"} \cup Spoiled

(***************************************************************************)
(* A gate reads a source or tests a piece of what was read: it speaks when *)
(* the piece is one of "when" and every condition of "given" holds.        *)
(***************************************************************************)
Gate(kind, f, p, when, says, given) ==
  [kind |-> kind, file |-> f, piece |-> p, when |-> when, says |-> says, given |-> given]

ReadIf(f, given)        == Gate("read", f, "", {}, "", given)
Read(f)                 == ReadIf(f, {})
Says(f, p, when, says)  == Gate("test", f, p, when, says, {})
Needs(f, p)             == Says(f, p, Spoiled, "RED")
IfGiven(f, p)           == Says(f, p, Spoiled \ {"absent"}, "RED")
Withholds(f, p)         == Says(f, p, Spoiled, "INDETERMINATE")
Is(f, p, states)        == [file |-> f, piece |-> p, states |-> states]
Given(f, p)             == Is(f, p, State \ {"absent"})

NeedAll(f, pieces) == [i \in DOMAIN pieces |-> Needs(f, pieces[i])]

-----------------------------------------------------------------------------
(***************************************************************************)
(* Settlement: a charge that was paid elsewhere.                           *)
(***************************************************************************)

\* A proof of another ledger is optional; its head may name a file.
ForeignChain ==
  << IfGiven("charge", "foreign_chain_proof"),
     ReadIf("source", {Given("charge", "foreign_chain_proof")}),
     Gate("test", "source", "head", Spoiled \ {"absent"}, "RED",
          {Given("charge", "foreign_chain_proof")}) >>

\* The claim is signed in one of its two forms.
ClaimSigned == << Needs("claim", "signature") >>

\* Neither side may name a seller; a submitter is never the payee.
Settle ==
  << Read("charge"), Read("claim"), Needs("charge", "settlement_bind"),
     Withholds("charge", "scheme"), Needs("charge", "delivery_hash") >>
  \o ClaimSigned \o NeedAll("claim", <<"settlementRef", "buyer">>)
  \o << IfGiven("claim", "seller"), Needs("claim", "evidenceHash") >>
  \o ForeignChain \o << IfGiven("charge", "submitter") >>

(***************************************************************************)
(* A dispute pointer routes to an arbiter and never decides itself.        *)
(* status is ok when it says none or resolved, bad for a contradiction.    *)
(***************************************************************************)
Dispute ==
  << Read("charge"), Needs("charge", "settlement_bind"), Needs("charge", "delivery_hash"),
     Says("charge", "dispute_pointer", {"absent"}, "GREEN"),
     Needs("charge", "dispute_pointer"),
     Says("charge", "status", {"ok"}, "GREEN"),
     Gate("test", "charge", "counter_claim", Spoiled, "RED", {Is("charge", "status", {"bad"})}),
     Needs("charge", "arbitration"), Needs("charge", "bond_pct"),
     Withholds("charge", "protocol"),
     Says("charge", "status", Spoiled, "INDETERMINATE") >>

\* The certificate is checked by another program, and then opened again.
BridgeBuild ==
  << Read("cert"), Needs("cert", "veridict"), Read("cert"), Needs("cert", "fields") >>

BridgeVerify ==
  << Read("claim") >> \o NeedAll("claim", <<"type", "fields", "digest">>)
  \o BridgeBuild \o << Needs("cert", "rebuilt"), Needs("claim", "limits") >>

-----------------------------------------------------------------------------
(***************************************************************************)
(* A mining receipt, in the six stages of its verifier.                    *)
(***************************************************************************)
Committed == NeedAll("receipt", <<"commitments", "work", "receipt_hash">>)
DidSigned == << Needs("receipt", "signature") >>

Kok ==
  << Read("receipt") >> \o NeedAll("receipt", <<"structure", "shape">>)
  \o Committed \o DidSigned

\* compute-anchor opens the receipt again for what it writes.
ComputeAnchorGates ==
  << Read("install"), Needs("install", "verifier") >> \o Kok
  \o << Read("receipt"), Needs("receipt", "record") >>

(***************************************************************************)
(* A delivery attestation; a label that is not known withholds.            *)
(***************************************************************************)
AttestGates == NeedAll("claim", <<"envelope", "claimId", "signature", "signer">>)

Attest ==
  << Read("argv"), Read("claim"), Needs("claim", "json"),
     Says("argv", "registry", {"bad", "unknown"}, "INDETERMINATE") >> \o AttestGates

AttestIndependent == << Read("claim"), Needs("claim", "json") >> \o AttestGates

-----------------------------------------------------------------------------
(***************************************************************************)
(* An epoch seal: inclusion, and with --rpc the root that is on chain.     *)
(***************************************************************************)
OnChainGates(unanswered) ==
  << ReadIf("chain", {Given("argv", "chainid")}),
     Gate("test", "chain", "id", Spoiled, unanswered, {Given("argv", "chainid")}),
     Read("chain"),
     Says("chain", "epoch", {"absent", "unknown"}, unanswered),
     Says("chain", "count", {"unknown"}, unanswered),
     Says("chain", "epoch", {"bad"}, "RED"), Says("chain", "count", {"bad"}, "RED") >>

\* Mutated form: a node that does not answer leaves the verdict on inclusion.
OnChainFallsBack == OnChainGates("GREEN")

OnChain == OnChainGates("INDETERMINATE")

Inclusion == NeedAll("proof", <<"fields", "inclusion">>)

Epoch ==
  << Read("argv"), Read("proof") >> \o Inclusion
  \o << Says("argv", "rpc", {"absent"}, "GREEN"),
     Says("argv", "rpc", {"bad", "unknown"}, "INDETERMINATE"),
     Says("argv", "chainid", {"bad", "unknown"}, "INDETERMINATE") >> \o OnChain

\* Freshness: two blocks of one node, K apart.  Genesis is RED.
Liveness ==
  << Read("argv"), Says("argv", "max_age_blocks", {"bad", "unknown"}, "INDETERMINATE"),
     Read("chain"),
     Says("chain", "latest", {"absent", "unknown"}, "INDETERMINATE"),
     Says("chain", "latest", {"bad"}, "RED"),
     Says("argv", "max_age_blocks", {"absent"}, "INDETERMINATE"),
     Read("chain"), Withholds("chain", "past"), Withholds("chain", "span") >>

\* The four facts of a fulfilment transaction.
VerifyTx ==
  << Read("install"), Needs("install", "web3"), Read("chain"), Needs("chain", "connected"),
     Read("chain") >>
  \o NeedAll("chain", <<"selector", "request_id", "payload", "digest">>)

\* The seals of a fulfilment package; the input is optional.
Seals ==
  NeedAll("bundle", <<"payload", "stamp", "snapshot", "charge", "delivery">>)
  \o << IfGiven("bundle", "input") >>

VerifyBundle == << Read("bundle") >> \o Seals

-----------------------------------------------------------------------------
(***************************************************************************)
(* A time stamp covers the head of a ledger.  Policy, nonce and the key of *)
(* the authority are asked for by options; without a key the signature is  *)
(* not looked at, and an algorithm without its library withholds.          *)
(***************************************************************************)
TokenInfo   == << Needs("response", "token") >>
TokenSyntax == NeedAll("response", <<"syntax", "status">>) \o TokenInfo

TokenSignature ==
  << Says("response", "signature", {"bad"}, "RED"),
     Says("response", "signature", {"unknown"}, "INDETERMINATE") >>

TokenBond ==
  TokenSyntax
  \o << IfGiven("response", "policy"), Needs("response", "imprint"), IfGiven("response", "nonce") >>
  \o TokenSignature

Stamp == << Read("response"), Read("ledger"), Needs("ledger", "chain") >> \o TokenBond

(***************************************************************************)
(* An anchor over three products.  A product of the anchor is ok when it   *)
(* is claimed as proved and its source is named, bad when it is named as   *)
(* not proved, unknown when it is claimed without a source.                *)
(***************************************************************************)
Products == {"tamga", "sester", "veridict"}

\* An evidence that is named must be proved; the first one is always named.
SovereignBuild ==
  << Read("tamga"), Needs("tamga", "evidence"), Read("sester"), IfGiven("sester", "evidence"),
     Read("veridict"), IfGiven("veridict", "evidence") >>

Recheck(p) ==
  << ReadIf(p, {Is("anchor", p, {"ok", "bad"})}),
     Gate("test", p, "evidence", Spoiled, "RED", {Is("anchor", p, {"ok"})}) >>

SovereignVerify ==
  << Read("anchor") >> \o NeedAll("anchor", <<"type", "root", "lists", "proved", "verdicts">>)
  \o << Says("anchor", "sources", Spoiled, "UNVERIFIED") >>
  \o Recheck("tamga") \o Recheck("sester") \o Recheck("veridict")
  \o << Gate("test", "anchor", "tamga", {"absent", "unknown"}, "STRUCTURAL",
             {Is("anchor", p, {"absent", "unknown"}) : p \in {"sester", "veridict"}}) >>

-----------------------------------------------------------------------------
\* A canonical digest: without --expect it is measured, not judged.
CanonicalDigest ==
  << Read("argv"), Read("doc"), Needs("doc", "json"),
     Says("argv", "expect", {"absent"}, "MEASURED"), Needs("argv", "expect"),
     Needs("doc", "digest") >>

\* A bundle of a foreign ledger, and the anchor line it sends.
Pugio ==
  << Read("bundle") >>
  \o NeedAll("bundle", <<"version", "events", "chain", "head", "merkle_root", "event_count">>)

PugioAnchor ==
  << Read("line") >> \o NeedAll("line", <<"json", "type", "source", "version", "fields", "anchor_id">>)

\* A leaf of another registry is never established here.
ForeignLeaf ==
  << Read("leaf"), Says("leaf", "tag", {"absent"}, "INDETERMINATE"), Needs("leaf", "digest"),
     Says("leaf", "tag", State, "INDETERMINATE") >>

(***************************************************************************)
(* Import with --cosign-policy L1 (option ok): the trusted and the revoked *)
(* nodes must be given, and every record signed by a trusted one.  L0 has  *)
(* the embedded chain alone, and a snapshot without a chain has no record. *)
(***************************************************************************)
CosignLists == NeedAll("argv", <<"node_trust", "node_revoked">>)

Cosign ==
  << Read("argv"), Read("snapshot"),
     Says("snapshot", "chain", {"absent"}, "GREEN"), Needs("snapshot", "chain"),
     Says("argv", "cosign_policy", Spoiled, "GREEN") >> \o CosignLists
  \o NeedAll("snapshot", <<"node_sig", "signature", "unrevoked", "trusted">>)

Tools == {"settle", "dispute", "bridge-build", "bridge", "kok", "compute-anchor", "attest",
          "attest-independent", "epoch", "liveness", "tx", "bundle", "stamp", "sovereign-build",
          "sovereign", "digest", "pugio", "pugio-anchor", "leaf", "cosign"}

Gates(t) ==
  CASE t = "settle"             -> Settle            [] t = "dispute"       -> Dispute
    [] t = "bridge-build"       -> BridgeBuild       [] t = "bridge"        -> BridgeVerify
    [] t = "kok"                -> Kok               [] t = "compute-anchor" -> ComputeAnchorGates
    [] t = "attest-independent" -> AttestIndependent [] t = "attest"        -> Attest
    [] t = "epoch"              -> Epoch             [] t = "liveness"      -> Liveness
    [] t = "tx"                 -> VerifyTx          [] t = "bundle"        -> VerifyBundle
    [] t = "stamp"              -> Stamp             [] t = "sovereign-build" -> SovereignBuild
    [] t = "sovereign"          -> SovereignVerify   [] t = "digest"        -> CanonicalDigest
    [] t = "pugio"              -> Pugio             [] t = "pugio-anchor"  -> PugioAnchor
    [] t = "leaf"               -> ForeignLeaf       [] t = "cosign"        -> Cosign

GatesIn(t)    == {Gates(t)[i] : i \in DOMAIN Gates(t)}
Files(t)      == {g.file : g \in GatesIn(t)}
PiecesIn(t)   == {<<g.file, g.piece>> : g \in {h \in GatesIn(t) : h.kind = "test"}}
                   \cup {<<c.file, c.piece>> : c \in UNION {g.given : g \in GatesIn(t)}}

-----------------------------------------------------------------------------
VARIABLES
  tool,      \* which of the tools runs
  via,       \* from a shell, or as the subprocess of an MCP call
  at,        \* the next gate
  source,    \* source[f]: how often it was replaced, and its pieces
  taken,      \* taken[f]: the source as it was read last
  looked,    \* the pieces that were tested, with the version they were of
  verdict,   \* what the tool said, or "none"
  answer,    \* what its caller is told, or "none"
  replaced

docVars == <<tool, via, at, source, taken, looked, verdict, answer, replaced>>

Pristine(t) == [f \in Files(t) |-> [ver |-> 0, is |-> [x \in {y \in PiecesIn(t) : y[1] = f} |-> "ok"]]]

\* The MCP server starts the attestation and the bundle verifier.
Served == {"attest", "bundle"}

DocInit ==
  /\ tool \in Tools /\ via \in {"shell", "mcp"} /\ (via = "mcp" => tool \in Served)
  /\ at = 1 /\ source = Pristine(tool) /\ taken = Pristine(tool) /\ looked = {}
  /\ verdict = "none" /\ answer = "none" /\ replaced = 0

\* A source is replaced; the options of a call are what they were.
Replace ==
  /\ answer = "none" /\ replaced < MaxReplacements /\ replaced' = replaced + 1
  /\ \E x \in PiecesIn(tool), s \in State :
       /\ s # source[x[1]].is[x]
       /\ x[1] = "argv" => at = 1
       /\ source' = [source EXCEPT ![x[1]] = [ver |-> @.ver + 1, is |-> [@.is EXCEPT ![x] = s]]]
  /\ UNCHANGED <<tool, via, at, taken, looked, verdict, answer>>

Applies ==
  LET g == Gates(tool)[at] IN
    \A c \in g.given : taken[c.file].is[<<c.file, c.piece>>] \in c.states

Skip ==
  /\ verdict = "none" /\ at <= Len(Gates(tool)) /\ ~Applies /\ at' = at + 1
  /\ UNCHANGED <<tool, via, source, taken, looked, verdict, answer, replaced>>

TakeUp ==
  /\ verdict = "none" /\ at <= Len(Gates(tool)) /\ Applies
  /\ LET g == Gates(tool)[at] IN
       g.kind = "read" /\ taken' = [taken EXCEPT ![g.file] = source[g.file]]
  /\ at' = at + 1
  /\ UNCHANGED <<tool, via, source, looked, verdict, answer, replaced>>

\* A gate lets the piece pass, or ends the run.
Test ==
  /\ verdict = "none" /\ at <= Len(Gates(tool)) /\ Applies
  /\ LET g == Gates(tool)[at]
         x == <<g.file, g.piece>>
     IN  /\ g.kind = "test"
         /\ looked' = looked \cup {[of |-> x, ver |-> taken[g.file].ver,
                                       is |-> taken[g.file].is[x]]}
         /\ IF taken[g.file].is[x] \in g.when
            THEN verdict' = g.says /\ UNCHANGED at
            ELSE at' = at + 1 /\ UNCHANGED verdict
  /\ UNCHANGED <<tool, via, source, taken, answer, replaced>>

Pass ==
  /\ verdict = "none" /\ at > Len(Gates(tool)) /\ verdict' = "GREEN"
  /\ UNCHANGED <<tool, via, at, source, taken, looked, answer, replaced>>

\* _run_cli: the verdict is ok when the subprocess left with code 0.
Answer ==
  /\ verdict # "none" /\ answer = "none"
  /\ answer' = IF via = "mcp" /\ verdict # "GREEN" THEN "not ok" ELSE verdict
  /\ UNCHANGED <<tool, via, at, source, taken, looked, verdict, replaced>>

\* MAX_TIMEOUT: the subprocess is given up.
TimeOut ==
  /\ via = "mcp" /\ answer = "none" /\ answer' = "not ok"
  /\ UNCHANGED <<tool, via, at, source, taken, looked, verdict, replaced>>

DocNext == Replace \/ Skip \/ TakeUp \/ Test \/ Pass \/ Answer \/ TimeOut

-----------------------------------------------------------------------------
(***************************************************************************)
(* What the tools say a GREEN stands for: the pieces that are as they      *)
(* should be, and those that are when they are given at all.               *)
(***************************************************************************)
Of(f, pieces)   == {<<f, p>> : p \in pieces}
Chosen(f, p)    == taken[f].is[<<f, p>>] # "absent"
If(cond, S)     == IF cond THEN S ELSE {}
Promise(must, may) == [must |-> must, may |-> may]

Stands ==
  CASE tool = "settle" ->
         Promise(Of("charge", {"settlement_bind", "scheme", "delivery_hash"})
                   \cup Of("claim", {"signature", "settlementRef", "buyer", "evidenceHash"}),
                 Of("claim", {"seller"}) \cup Of("charge", {"foreign_chain_proof", "submitter"})
                   \cup If(Chosen("charge", "foreign_chain_proof"), Of("source", {"head"})))
    [] tool = "dispute" ->
         Promise(Of("charge", {"settlement_bind", "delivery_hash"})
                   \cup If(Chosen("charge", "dispute_pointer"), Of("charge", {"status"})),
                 Of("charge", {"dispute_pointer"}))
    [] tool \in {"bridge-build", "bridge"} ->
         Promise(Of("cert", {"veridict", "fields"})
                   \cup If(tool = "bridge", Of("claim", {"digest", "fields", "type", "limits"})
                                              \cup Of("cert", {"rebuilt"})), {})
    [] tool \in {"kok", "compute-anchor"} ->
         Promise(Of("receipt", {"commitments", "work", "receipt_hash", "signature"})
                   \cup If(tool = "compute-anchor", Of("receipt", {"record"})), {})
    [] tool \in {"attest", "attest-independent"} ->
         Promise(Of("claim", {"envelope", "claimId", "signature", "signer"}),
                 If(tool = "attest", Of("argv", {"registry"})))
    [] tool = "epoch" ->
         Promise(Of("proof", {"fields", "inclusion"})
                   \cup If(Chosen("argv", "rpc"),
                           Of("chain", {"epoch"}) \cup If(Chosen("argv", "chainid"), Of("chain", {"id"}))),
                 If(Chosen("argv", "rpc"), Of("chain", {"count"})))
    [] tool = "liveness" -> Promise(Of("chain", {"past", "span"}), {})
    [] tool = "tx"       -> Promise(Of("chain", {"selector", "request_id", "payload", "digest"}), {})
    [] tool = "bundle"   -> Promise(Of("bundle", {"payload", "stamp", "snapshot", "charge", "delivery"}),
                                    Of("bundle", {"input"}))
    [] tool = "stamp"    -> Promise(Of("ledger", {"chain"}) \cup Of("response", {"status", "token", "imprint"}),
                                    Of("response", {"policy", "nonce", "signature"}))
    [] tool = "sovereign-build" ->
         Promise(Of("tamga", {"evidence"}), Of("sester", {"evidence"}) \cup Of("veridict", {"evidence"}))
    [] tool = "sovereign" ->
         Promise(Of("anchor", {"root", "lists", "proved", "verdicts", "sources"})
                   \cup UNION {If(taken["anchor"].is[<<"anchor", p>>] = "ok", Of(p, {"evidence"})) :
                                 p \in Products}, {})
    [] tool = "digest"       -> Promise(Of("doc", {"digest"}), {})
    [] tool = "pugio"        -> Promise(Of("bundle", {"chain", "head", "merkle_root", "event_count"}), {})
    [] tool = "pugio-anchor" -> Promise(Of("line", {"fields", "anchor_id"}), {})
    [] tool = "leaf"         -> Promise(Of("leaf", {"established"}), {})
    [] tool = "cosign" ->
         Promise(If(/\ taken["argv"].is[<<"argv", "cosign_policy">>] = "ok"
                    /\ Chosen("snapshot", "chain"),
                    Of("snapshot", {"node_sig", "signature", "unrevoked", "trusted"})),
                 Of("snapshot", {"chain"}))

(***************************************************************************)
(* GREEN is told to the caller, over MCP as from a shell, only after every *)
(* piece it stands for was looked at and was right; and in a tool that     *)
(* takes its sources up once, all of it in the one version the tool holds, *)
(* however the sources are replaced meanwhile.                             *)
(***************************************************************************)
TakesTwice == {"bridge-build", "bridge", "compute-anchor", "epoch", "liveness", "tx"}

Seen(x, states) == \E l \in looked : l.of = x /\ l.is \in states

GreenIsGrounded ==
  answer = "GREEN" =>
    /\ \A x \in Stands.must : Seen(x, {"ok"})
    /\ \A x \in Stands.may  : Seen(x, {"ok", "absent"})
    /\ tool \notin TakesTwice => \A l \in looked : l.ver = taken[l.of[1]].ver
=============================================================================
