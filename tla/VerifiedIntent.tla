--------------------------- MODULE VerifiedIntent ---------------------------
(***************************************************************************)
(* The verified intent export and the handoff that checks it              *)
(* (verified_intent_export.py, cli._write_verified_intent_bundle and       *)
(* trust_receipt_store.replay_trust_receipt with its bundle checks).       *)
(*                                                                         *)
(* An export judges the draft file once, in memory, and then writes four   *)
(* files into one directory: the packet, the receipt, the decision and,    *)
(* after reading those three back, a manifest with their hashes.  A        *)
(* handoff reads the files one at a time and some of them twice, and       *)
(* judges the draft file as it is by then.  Nothing is locked: exporters   *)
(* race, crash half way, and hands edit the draft and the bundle.          *)
(*                                                                         *)
(* A packet's content other than its link to the receipt is its body, the  *)
(* record [draft, env, reworded]: a body names the draft's bytes and the   *)
(* context (receipt_links), so it tells apart every two exports, and       *)
(* reworded says its summary text is not the exporter's.  A hash is the    *)
(* value hashed.  What an export puts into a packet is BuildPacket.        *)
(***************************************************************************)
EXTENDS DraftVerification

CONSTANTS
    Drafts,         \* names of the draft files' possible contents
    DraftOf,        \* the draft each of them is
    Replacements,   \* those the draft file gets by being replaced
    Environments,   \* trusted environments an exporter is run in
    Consumer,       \* the consumer profile: its workflows and allow lists
    Exporters,      \* running `profile export-intent` commands
    Missing,        \* a file that is not there
    Torn,           \* a file that is cut short
    MaxExports,     \* bounds: exports begun,
    MaxMishaps      \*   exporters killed, edits of the draft or the bundle

ASSUME DraftsAreKnown ==
    /\ Drafts \subseteq DOMAIN DraftOf /\ Replacements \subseteq Drafts
    /\ \A d \in Drafts : DraftOf[d] \in DraftRecords
ASSUME BoundsAreNumbers == {MaxExports, MaxMishaps} \subseteq Nat

\* The consumer's tables and allow list (_EFFECT_TO_CONSUMER,
\* _PII_EXPORT_ALLOWED_CONSUMER_EFFECTS) hold canonical names only: its
\* workflows are registered ones, and it has no name for an effect's alias.
ASSUME ConsumerIsCanonical ==
    /\ Consumer.workflows \subseteq Registry.workflows
    /\ \A e \in DOMAIN Registry.effectAlias :
          e \notin DOMAIN Consumer.effectName \cup Consumer.allowedEffects

VARIABLES
    draft,          \* content of the draft file
    dir,            \* content of the bundle's four files
    exporters,      \* what each exporter is doing
    job,            \* the handoff check in progress or last finished
    finished,       \* exports that wrote their manifest
    whole,          \* an undisturbed export of the draft as it is, is in dir
    used            \* how much of each bound is used

vars == <<draft, dir, exporters, job, finished, whole, used>>

Names == {"packet", "receipt", "decision", "manifest"}

----------------------------------------------------------------------------
\* What a packet says.  It is built from the draft as written.

AmbiguityResolved(d) ==
    d.ambiguity \in {None, "resolved", "unstated"} /\ ~d.unresolved

\* A name the consumer's table does not hold is kept as it is.
ConsumerName(table, x) == IF x \in DOMAIN table THEN table[x] ELSE x

EvidenceBindings(d) ==
    UNION {{[claim |-> c.id, evidence |-> r.id, verified |-> c.status = "verified"]
              : r \in c.refs} : c \in d.claims}

BuildPacket(d, env) ==
    LET effects == EffectsOf(d) \cup Consumer.impliedEffects
        capabilities == UNION {op.capabilities : op \in OpsOf(d)}
                          \cup Consumer.impliedCapabilities
        allowed == {ConsumerName(Consumer.effectName, e) : e \in effects}
        allowedCaps == {ConsumerName(Consumer.capabilityName, c) : c \in capabilities}
    IN [workflow |-> d.workflow,
        allowed |-> allowed,
        denied |-> Consumer.denied \ allowed,
        capabilities |-> allowedCaps,
        deniedCapabilities |-> Consumer.denied \ allowedCaps,
        roles |-> RolesOf(d),
        operations |-> {Consumer.roleOperation[r] :
                          r \in RolesOf(d) \cap DOMAIN Consumer.roleOperation},
        canonical |-> {[op EXCEPT !.op = IF ResolveOp(@) # None THEN ResolveOp(@)
                                                               ELSE @]
                         : op \in OpsOf(d)},
        bindings |-> EvidenceBindings(d),
        resolved |-> AmbiguityResolved(d),
        env |-> env]

\* The validator of packets, slot by slot.  It lets evidence ids of fixtures
\* pass, whatever the ledger holds.
ValidBindings(p) ==
    /\ \A b \in p.bindings : /\ b.claim \in Consumer.claims
                             /\ b.evidence \in Registry.records \cup Consumer.fixtures
                             /\ b.verified
    /\ \E b \in p.bindings : b.claim = Consumer.authorizationClaim

\* Faulty variant: what the consumer would be allowed is not compared with
\* the profile's allow list.
ValidEffectsDeniedOnly(p) == p.denied = Consumer.denied

ValidEffects(p) ==
    /\ p.denied = Consumer.denied
    /\ p.allowed \subseteq Consumer.allowedEffects
    /\ Consumer.requiredEffects \subseteq p.allowed

ValidCapabilities(p) ==
    /\ p.deniedCapabilities = Consumer.denied
    /\ p.capabilities \subseteq Consumer.allowedEffects
    /\ Consumer.requiredEffects \subseteq p.capabilities

ValidOperations(p) ==
    /\ p.canonical # {}
    /\ p.operations = Consumer.operations
    /\ p.roles = Consumer.roles

ValidPacket(p) ==
    /\ p.workflow \in Consumer.workflows
    /\ ValidBindings(p) /\ ValidEffects(p) /\ ValidCapabilities(p)
    /\ ValidOperations(p)
    /\ p.resolved
    /\ p.env \in Consumer.environments

----------------------------------------------------------------------------
\* The export itself: a function of the draft and the environment.

AuthorizationEvidence(d) ==
    \E c \in d.claims : /\ c.id \in Consumer.claims
                        /\ c.status = "verified"
                        /\ c.refs # {}

Exportable(d, env) ==
    /\ d.workflow \in Consumer.workflows
    /\ AmbiguityResolved(d)
    /\ TrustGate(d, env) = "passed"
    /\ AuthorizationEvidence(d)
    /\ ValidPacket(BuildPacket(d, env))

\* The verdicts on the drafts, once each: the drafts and environments of
\* which something holds.
Where(Holds(_, _)) ==
    UNION {{<<d, env>> : env \in {e \in Environments : Holds(DraftOf[d], e)}} : d \in Drafts}

Passing(d, env) == TrustGate(d, env) = "passed"

Exports == Where(Exportable)

Passes == Where(Passing)

\* Faulty variant: a pass of the gate is enough.
GrantedByGate(d, env) == <<d, env>> \in Passes

Granted(d, env) == <<d, env>> \in Exports

Body(d, env) == [draft |-> d, env |-> env, reworded |-> FALSE]

StableProjection(r) == [draft |-> r.draft, env |-> r.env, body |-> r.body]

\* The receipt the gate gives, and the same with the packet's hash put in.
GateReceipt(d, env) ==
    LET bare == [draft |-> d, env |-> env, body |-> Missing, proj |-> Missing]
    IN [bare EXCEPT !.proj = StableProjection(bare)]

\* Faulty variant: the projection's hash is not made again.
AttachOnly(r, body) == [r EXCEPT !.body = body]

Attach(r, body) ==
    LET bound == [r EXCEPT !.body = body]
    IN [bound EXCEPT !.proj = StableProjection(bound)]

Receipt(d, env) == Attach(GateReceipt(d, env), Body(d, env))
Packet(d, env) == [body |-> Body(d, env), proj |-> Receipt(d, env).proj]

\* The bytes an export puts into a file (a decision embeds its receipt).
Content(file, d, env) ==
    IF file = "packet" THEN Packet(d, env) ELSE Receipt(d, env)

\* A manifest record: raw hashes of the files as read back, canonical hashes
\* of the values in memory.
Record(raw, d, env) ==
    [raw |-> raw, receipt |-> Receipt(d, env), decision |-> Receipt(d, env),
     packet |-> Body(d, env)]

----------------------------------------------------------------------------
\* Exporters.  The three files are written in this order and read back in
\* that one.

WriteOrder == <<"packet", "receipt", "decision">>
ReadOrder == <<"receipt", "decision", "packet">>

Nothing == [f \in Names \ {"manifest"} |-> Missing]
Idle == [at |-> "idle", k |-> 0, open |-> FALSE, draft |-> None, env |-> None,
         seen |-> Nothing, alone |-> FALSE]

\* A command loads and judges the draft; when the export is refused it writes
\* its result file only, which nothing reads.
Export(x) ==
    /\ exporters[x].at = "idle" /\ used.exports < MaxExports
    /\ \E env \in Environments :
          exporters' = IF Granted(draft, env)
                         THEN [exporters EXCEPT ![x] =
                                 [Idle EXCEPT !.at = "write", !.k = 1,
                                              !.draft = draft, !.env = env]]
                         ELSE exporters
    /\ used' = [used EXCEPT !.exports = @ + 1]
    /\ UNCHANGED <<draft, dir, job, finished, whole>>

\* Exporter x changed the directory: nobody else's export is undisturbed now.
Disturb(x, mine) ==
    [y \in Exporters |-> IF y = x THEN mine ELSE [exporters[y] EXCEPT !.alone = FALSE]]

\* Path.write_text truncates a file and then writes it.
OpenFile(x) ==
    LET e == exporters[x] IN
    /\ \/ e.at = "write" /\ ~e.open /\ dir' = [dir EXCEPT ![WriteOrder[e.k]] = Torn]
       \/ e.at = "manifest" /\ ~e.open /\ dir' = [dir EXCEPT !.manifest = Torn]
    /\ exporters' = Disturb(x, [e EXCEPT !.open = TRUE,
                                         !.alone = @ \/ (e.at = "write" /\ e.k = 1)])
    /\ whole' = FALSE
    /\ UNCHANGED <<draft, job, finished, used>>

\* What a file holds after a write: the bytes written, unless another
\* exporter has written it since it was truncated; a longer rest stays then.
Written(file, content) ==
    IF dir[file] = Torn THEN {content} ELSE {content, Torn}

WriteFile(x) ==
    LET e == exporters[x]
        file == WriteOrder[e.k]
    IN /\ e.at = "write" /\ e.open
       /\ \E c \in Written(file, Content(file, e.draft, e.env)) :
             dir' = [dir EXCEPT ![file] = c]
       /\ exporters' = Disturb(x,
            IF e.k < 3 THEN [e EXCEPT !.k = @ + 1, !.open = FALSE]
                       ELSE [e EXCEPT !.at = "read", !.k = 1, !.open = FALSE])
       /\ whole' = FALSE
       /\ UNCHANGED <<draft, job, finished, used>>

ReadBack(x) ==
    LET e == exporters[x] IN
    /\ e.at = "read"
    /\ exporters' = [exporters EXCEPT ![x] =
         [e EXCEPT !.seen[ReadOrder[e.k]] = dir[ReadOrder[e.k]],
                   !.at = IF e.k = 3 THEN "manifest" ELSE @, !.k = @ + 1]]
    /\ UNCHANGED <<draft, dir, job, finished, whole, used>>

WriteManifest(x) ==
    LET e == exporters[x] IN
    /\ e.at = "manifest" /\ e.open
    /\ \E c \in Written("manifest", Record(e.seen, e.draft, e.env)) :
          dir' = [dir EXCEPT !.manifest = c]
    /\ finished' = finished \cup {<<e.draft, e.env>>}
    /\ whole' = (e.alone /\ draft = e.draft)
    /\ exporters' = Disturb(x, Idle)
    /\ UNCHANGED <<draft, job, used>>

\* Killed: what is written stays, and a file being written stays cut short.
Crash(x) ==
    /\ exporters[x].at # "idle" /\ used.mishaps < MaxMishaps
    /\ exporters' = [exporters EXCEPT ![x] = Idle]
    /\ used' = [used EXCEPT !.mishaps = @ + 1]
    /\ UNCHANGED <<draft, dir, job, finished, whole>>

----------------------------------------------------------------------------
\* The handoff check.  Files it has read are kept in job.read.  It collects
\* errors and refuses at the end; reading on changes nothing, so here the
\* first error ends it.

NotRead == [f \in {"packet", "receipt", "sidecar", "decision", "manifest"} |-> Missing]
NoJob == [at |-> "idle", read |-> NotRead, draft |-> None]

Readable(content) == content \notin {Missing, Torn}

\* Where the check goes on, when what it has read so far agrees.
Go(next, agrees, slot, content) ==
    job' = IF Readable(content) /\ agrees
             THEN [job EXCEPT !.at = next, !.read[slot] = content]
             ELSE [NoJob EXCEPT !.at = "refused"]

StartHandoff ==
    /\ job.at \in {"idle", "accepted", "refused"}
    /\ job' = [NoJob EXCEPT !.at = "packet"]
    /\ UNCHANGED <<draft, dir, exporters, finished, whole, used>>

ReadPacket ==
    /\ job.at = "packet"
    /\ Go("receipt", TRUE, "packet", dir.packet)
    /\ UNCHANGED <<draft, dir, exporters, finished, whole, used>>

\* The packet's links and hash against the receipt.
Linked(p, r) ==
    /\ p.body.draft = r.draft /\ p.body.env = r.env
    /\ p.proj = r.proj
    /\ p.body = r.body

ReadReceipt ==
    /\ job.at = "receipt"
    /\ Go("replay", Readable(dir.receipt) => Linked(job.read.packet, dir.receipt),
          "receipt", dir.receipt)
    /\ UNCHANGED <<draft, dir, exporters, finished, whole, used>>

\* Replay reads the receipt again: it must project as the first one did.
ReplayReceipt ==
    /\ job.at = "replay"
    /\ Go("judge", Readable(dir.receipt) => dir.receipt.proj = job.read.receipt.proj,
          "receipt", dir.receipt)
    /\ UNCHANGED <<draft, dir, exporters, finished, whole, used>>

\* The draft file, judged again in the receipt's own context, gives the
\* receipt again, with the hash of the packet built again.
\* Faulty variant: the packet's hash is taken over from the receipt.
ReplaysWithItsPacket(r, d) ==
    /\ <<d, r.env>> \in Passes
    /\ Attach(GateReceipt(d, r.env), r.body) = r

Replays(r, d) ==
    /\ <<d, r.env>> \in Passes
    /\ r.proj = StableProjection(r)
    /\ Attach(GateReceipt(d, r.env), Body(d, r.env)) = r

JudgeDraft ==
    /\ job.at = "judge"
    /\ job' = IF Replays(job.read.receipt, draft)
                THEN [job EXCEPT !.at = "sidecar", !.draft = draft]
                ELSE [NoJob EXCEPT !.at = "refused"]
    /\ UNCHANGED <<draft, dir, exporters, finished, whole, used>>

\* The bundle checks read the packet again, the decision, the manifest and
\* the bytes of the receipt.
ReadSidecar ==
    /\ job.at = "sidecar"
    /\ Go("decision", Readable(dir.packet) => dir.packet.body = job.read.receipt.body,
          "sidecar", dir.packet)
    /\ UNCHANGED <<draft, dir, exporters, finished, whole, used>>

ReadDecision ==
    /\ job.at = "decision"
    /\ Go("manifest",
          Readable(dir.decision) =>
            StableProjection(dir.decision) = StableProjection(job.read.receipt),
          "decision", dir.decision)
    /\ UNCHANGED <<draft, dir, exporters, finished, whole, used>>

ReadManifest ==
    /\ job.at = "manifest"
    /\ Go("bytes", TRUE, "manifest", dir.manifest)
    /\ UNCHANGED <<draft, dir, exporters, finished, whole, used>>

\* The manifest's record is of exactly the bytes and values that were read.
RecordMatches(m, receiptBytes) ==
    /\ m.raw = [receipt |-> receiptBytes, decision |-> job.read.decision,
                packet |-> job.read.sidecar]
    /\ m.receipt = job.read.receipt
    /\ m.decision = job.read.decision
    /\ m.packet = job.read.sidecar.body

ReadReceiptBytes ==
    /\ job.at = "bytes"
    /\ job' = IF RecordMatches(job.read.manifest, dir.receipt)
                THEN [job EXCEPT !.at = "accepted"]
                ELSE [NoJob EXCEPT !.at = "refused"]
    /\ UNCHANGED <<draft, dir, exporters, finished, whole, used>>

----------------------------------------------------------------------------
\* Hands.

\* The draft file is replaced.
EditDraft ==
    /\ used.mishaps < MaxMishaps
    /\ \E d \in Replacements \ {draft} : draft' = d
    /\ whole' = FALSE
    /\ used' = [used EXCEPT !.mishaps = @ + 1]
    /\ UNCHANGED <<dir, exporters, job, finished>>

Reword(body) == [body EXCEPT !.reworded = TRUE]

RewordReceipt(r) == Attach(r, Reword(r.body))

\* Someone changes the packet's summary, and makes the hashes in some of the
\* other files again so that they fit.
RewordBundle ==
    /\ used.mishaps < MaxMishaps
    /\ \A f \in Names : Readable(dir[f])
    /\ \E others \in SUBSET (Names \ {"packet"}) :
         LET rec == IF "receipt" \in others THEN RewordReceipt(dir.receipt) ELSE dir.receipt
             dec == IF "decision" \in others THEN RewordReceipt(dir.decision)
                                             ELSE dir.decision
             pac == [body |-> Reword(dir.packet.body), proj |-> rec.proj]
             man == IF "manifest" \in others
                      THEN [raw |-> [receipt |-> rec, decision |-> dec, packet |-> pac],
                            receipt |-> rec, decision |-> dec, packet |-> pac.body]
                      ELSE dir.manifest
         IN dir' = [packet |-> pac, receipt |-> rec, decision |-> dec, manifest |-> man]
    /\ exporters' = [y \in Exporters |-> [exporters[y] EXCEPT !.alone = FALSE]]
    /\ whole' = FALSE
    /\ used' = [used EXCEPT !.mishaps = @ + 1]
    /\ UNCHANGED <<draft, job, finished>>

----------------------------------------------------------------------------
Init ==
    /\ draft \in Drafts \ Replacements
    /\ dir = [f \in Names |-> Missing]
    /\ exporters = [x \in Exporters |-> Idle]
    /\ job = NoJob
    /\ finished = {}
    /\ whole = FALSE
    /\ used = [exports |-> 0, mishaps |-> 0]

Check ==
    \/ ReadPacket \/ ReadReceipt \/ ReplayReceipt \/ JudgeDraft
    \/ ReadSidecar \/ ReadDecision \/ ReadManifest \/ ReadReceiptBytes

Next ==
    \/ \E x \in Exporters : \/ Export(x) \/ OpenFile(x) \/ WriteFile(x)
                            \/ ReadBack(x) \/ WriteManifest(x) \/ Crash(x)
    \/ StartHandoff \/ Check
    \/ EditDraft \/ RewordBundle

\* A handoff check is one sequential call that waits for nothing, so once it
\* is called it goes on.  Nobody need call it, or export, or let an exporter
\* finish.
Spec == Init /\ [][Next]_vars /\ WF_vars(Check)

----------------------------------------------------------------------------
\* Properties.

Bodies == [draft : Drafts, env : Environments, reworded : BOOLEAN]

\* The bundle's files hold what an export or a hand put there, an exporter
\* that writes has an export to write, and the manifest is written last.
TypeOK ==
    /\ draft \in Drafts
    /\ \A f \in Names : Readable(dir[f]) =>
          /\ f = "packet" => dir[f].body \in Bodies
          /\ f \in {"receipt", "decision"} => dir[f].body \in Bodies
          /\ f = "manifest" => dir[f].packet \in Bodies
    /\ \A x \in Exporters : exporters[x].at # "idle" =>
          <<exporters[x].draft, exporters[x].env>> \in Exports
    /\ Readable(dir.manifest) => finished # {}
    /\ finished \subseteq Exports
    /\ whole \in BOOLEAN

\* verify_verified_intent_packet_handoff_from_files: whatever is being
\* written, killed or edited while it reads, a check it accepts hands over
\* the draft it judged with exactly the packet that exporting that draft
\* gives, of an export that had run to its end.  So the files, read one at a
\* time, implement a handoff that is a single step.
Handoff(x) == [draft |-> x[1], packet |-> Packet(x[1], x[2])]

NoHandoff(why) == [draft |-> why, packet |-> Missing]

Promise == INSTANCE HandoffPromise WITH
    Handoffs <- {Handoff(x) : x \in Exports},
    Pending <- NoHandoff("pending"),
    Refused <- NoHandoff("refused"),
    exported <- {Handoff(x) : x \in finished},
    answer <- IF job.at = "accepted" THEN [draft |-> job.draft, packet |-> job.read.packet]
              ELSE NoHandoff(IF job.at \in {"idle", "refused"} THEN "refused" ELSE "pending")

HandoffIsOneExport == Promise!Spec

\* A packet that says what Normalize says, with nothing in it that the specs
\* or the workflow would not have.
DescribedAsJudged(d, env) ==
    LET p == BuildPacket(d, env)
        n == Normalize(d)
    IN /\ p.workflow = n.workflow
       /\ p.canonical = OpsOf(n)
       /\ \A op \in p.canonical : \A e \in op.effects :
             /\ ResolveOp(op.op) # None => EffectAllowed(SpecOf(op.op), e)
             /\ Families(e) \cap Demand(p.workflow, "forbidden_families") = {}

Described == Where(DescribedAsJudged)

VerifiesAsWritten(d, env) == Verify(d, env).status = "passed"

VerifiesCanonically(d, env) ==
    VerifiesAsWritten([Normalize(d) EXCEPT !.environment = None], env)

Verified == Where(VerifiesAsWritten)

VerifiedCanonically == Where(VerifiesCanonically)

\* _build_packet reads the draft as written, the gate a normalized copy: in a
\* packet that is exported the two agree, so that the consumer is told of the
\* operations, effects and workflow that were judged, and every effect is one
\* its operation's spec admits and of no family the workflow forbids.
PacketDescribesWhatWasJudged ==
    Readable(dir.packet) => <<dir.packet.body.draft, dir.packet.body.env>> \in Described

\* normalize_draft and _execution_context_findings: an alias or a declared
\* environment never makes a draft pass the verifier.  A draft that passes
\* also passes written with canonical names and without its environment.
SpellingNeverHelps ==
    \A env \in Environments :
        <<draft, env>> \in Verified => <<draft, env>> \in VerifiedCanonically

\* The bundle an undisturbed export leaves, of a draft that has not changed
\* since, is accepted by every handoff check that begins while it is there,
\* whatever half-written or edited bundle the export found in the directory.
WholeBundleIsAccepted ==
    (whole /\ job.at = "packet") ~> (job.at = "accepted" \/ ~whole)

\* docs/verified_intent_packet.md: a packet makes no stronger claim than the
\* evidence ledger: evidence it calls verified and ledger bound is evidence
\* the ledger accepts for that claim.
PacketClaimsOnlyWhatTheLedgerHolds ==
    Readable(dir.packet) =>
        LET d == DraftOf[dir.packet.body.draft]
        IN \A b \in EvidenceBindings(d) : b.verified =>
              \E c \in d.claims : \E r \in c.refs :
                 c.id = b.claim /\ r.id = b.evidence /\ Accepts(d, c, r)

=============================================================================
