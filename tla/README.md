# AiNIR in TLA+

TLA+ models of AiNIR (`src/src/ainir/`), the TLC runs that check them and the TLAPS proofs about them.
AiNIR takes an untrusted draft of a workflow, verifies it against registries, issues a TrustReceipt for
it, and lowers what passes to a TypeScript skeleton that a host runs, or exports it as a packet for a consumer. Beside
this pipeline it takes evidence from outside providers, and decides for a host whether a proposed tool call may be executed.
The models are about what happens between its steps: files that several processes write, registries, profiles and evidence that
change under a running process, boundaries that are judged in one place and cut in another.

Paths below are relative to `src/src/ainir/`.

## 1. Inventory

### The pipeline

    draft file --load_draft--> DraftModule --verify_draft--> VerificationReport
                                   |                               |
                 safety registry, operation registry, evidence ledger (cached per process,
                 or taken from an active registry bundle)
                                   |                               |
                          evaluate_trust_gate  <--------  assess_lowering_eligibility
                                   |                               |
                       decision + TrustReceipt             lower_to_typescript
                                   |        \                      |
           artifact directory (decision,     \              skeleton, run by a host
            receipt, JSONL manifest,          export_verified_intent_packet
            registry sidecar)                                |
                                   |                bundle: packet, receipt, decision, manifest
              receipt replay: exact | current | migrated     |
                                                    handoff check, with a replay in it

    bundle of evidence --provider.resolve--> resolution --validate_evidence_resolution--> accepted or not
    tool call + reviewed profile --> envelope --host: consent, transaction--> context --> assessment

Almost everything is synchronous Python with no threads, locks or retries of its own. What makes it hard is
that its state is in files that any number of such processes share, in `lru_cache`s that outlive a change of the
files, and in one `ContextVar`.

### Components

| Component | State | Operations | Hard behaviour | What makes it correct |
|---|---|---|---|---|
| Receipt store (`trust_receipt_store.py`, `cli.py` bundle writer) | decision, receipt and manifest files of a directory | `issue_trust_receipt`, `_write_trust_gate_bundle`, `replay_trust_receipt` | three truncating writes, no lock, no rename; crash between any two; two issuers of one id; replay reads four files one after another | a replay passes only on a complete bundle of one run; one active record per receipt; history is not lost |
| Transactions and lowering (`transaction_contract.py`, `lowering.py`) | the task, the declared transactions, the skeleton so far | `transaction_findings`, `lower_to_typescript` | transactions that overlap or share an id; failure in the middle of one | declared units take effect as a whole; order kept |
| Lowering gate (`lowering_gate.py`) | none | `assess_lowering_eligibility` | a report about another draft, or an earlier one | nothing is lowered that does not verify now |
| Registry provenance and caches (`registry_provenance.py`, `safety_registry.py`, `operation_registry.py`, `evidence_ledger.py`) | three places for each registry file (repository, package, working directory), three caches | `get_*`, `registry_snapshot`, `registry_snapshot_failures` | silent fallback from one place to another, one of which the snapshot does not read; judged with a cache, bound by a later reading | the receipt names the registries that judged |
| Registry evolution (`registry_evolution.py`) | snapshot, diff and migration artifacts | `build_registry_snapshot`, `capture_registry_snapshot`, `diff_registry_snapshots`, migration records | a capture that mixes cached and fresh data; approval bound to two snapshots | a sidecar holds what judged; breaking changes need approval |
| Registry replay (`registry_replay.py`) | the process working directory, the active bundle | `replay_trust_receipt_mode` | receipt read three times; working directory of the whole process changed | the historical receipt is not rewritten; the evaluated registry is the one asked for |
| Registry context (`registry_context.py`, `profile_runtime.py`, `profiles.py`) | a `ContextVar`, a token per context | `use_registry_bundle`, `profile_registry_context` | nesting, copied contexts, exits out of order, exceptions | no draft is judged under another context's registries |
| Trust Gate (`trust_gate.py`) | none | `evaluate_trust_gate` | verifies, snapshots, verifies again in the lowering gate | passes only if nothing critical was found |
| Verifier and Strict Draft AST (`verifier.py`, `draft_ast.py`, `normalizer.py`, `policy_core.py`, `core.py`, `safety_model.py`) | none | `load_draft`, `verify_draft` | many rules on one document | what it passes obeys the registry's policies |
| Evidence ledger (`evidence_ledger.py`) | records, a root | `decide` | draft file and artifact read again after the draft was loaded | evidence vouches for the draft in memory |
| Evidence provider (`evidence_provider.py`) | a bundle loaded into a provider, the host's keys | `resolve`, `validate_evidence_resolution` | bundle read twice; answers kept across reloads; revocation; evaluation times of the host's choice; nothing a provider says of itself counts | what is accepted was issued for this draft, and not past its revocation |
| MCP tool call profile (`mcp_tool_call.py`), OpenAI adapter (`openai_function_tool_adapter.py`) | a loaded profile, its descriptor files, artifacts the host keeps | envelope, context, assessment; function binding, preflight | descriptor files read again by each validation; artifacts of several profile versions combined | a call goes ahead only as consented, prepared and reviewed |
| VerifiedIntent export (`verified_intent_export.py`) | four bundle files | export, handoff check | written file by file, no lock; packet built from the draft as written, judged as normalized | what is handed over is one export of the draft as judged |
| Profile authoring, conformance (`profile_manifest.py`, `conformance_runner.py`, `mcp_conformance.py`) | cases, reports | compile, run | partial failure of a suite | a report covers every case |
| Command line (`cli.py`) | files | all of the above | order of persistent effects in one command | a failed command leaves nothing that passes |
| Contracts, resources, harnesses | none | validation, packaging, test drivers | none of their own | pure |

Every hazard, at its line, is in `PROJECT.json` under `hazards`, with the property that covers it.

## 2. Modules

| Module | Models | Kind |
|---|---|---|
| `ReceiptStore` | the artifact directory: issuers, the gate bundle writer, replayers, crashes | specification |
| `MCReceiptStore` | small directories and symmetry | model checking |
| `ReceiptStoreProofs` | bundle safety with any number of issuers, the ledger kept by one | proofs |
| `TransactionBinding` | verifier rules, lowering gate, lowerer loop, host | specification |
| `MCTransactionBinding` | sets of small drafts | model checking |
| `TransactionBindingProofs` | order and atomicity, for tasks of any length | proofs |
| `RegistryProvenance` | registry copies, caches, snapshots, receipts, replays, sidecars | specification |
| `MCRegistryProvenance` | which registries a run has | model checking |
| `RegistryProvenanceProofs` | what receipts, sidecars and replays say of registries | proofs |
| `RegistryEvolution` | what an operation spec permits, the diff of two registries and its classification, migration records | operators |
| `RegistryReplay` | the replay modes, profile contexts, captures, over files that change | specification |
| `MCRegistryReplay` | small registries, a profile, symmetry | model checking |
| `RegistryReplayProofs` | what a replay is about, contexts, and the classification of changes | proofs |
| `EvidenceBinding` | the decisions of the evidence ledger in one evaluation | specification |
| `MCEvidenceBinding` | three drafts in two layouts, one file or two | model checking |
| `EvidenceBindingProofs` | what an accepted draft is bound to, for all constants | proofs |
| `DraftVerification` | parser, normalizer, verifier, policy core, lowering gate and Trust Gate over drafts | operators |
| `HandoffPromise` | what a handoff promises: one step, of one finished export | abstract specification |
| `VerifiedIntent` | export, bundle files, handoff check with its replay, crashes and edits | specification, implements `HandoffPromise` |
| `MCVerifiedIntent` | a registry cut down from the packaged one, drafts that each fall to one rule | model checking |
| `VerifiedIntentProofs` | the refinement of `HandoffPromise`; what the judgement says of a draft, in any registry | proofs |
| `EvidenceProvider` | issuer, bundle file, provider, host validation | specification |
| `MCEvidenceProvider` | three drafts, three policies | model checking |
| `EvidenceProviderProofs` | what an accepted report rests on | proofs |
| `McpToolCall` | profiles, descriptor files, envelopes, contexts, assessments, function bindings | specification |
| `MCMcpToolCall` | two tools, five versions of a profile | model checking |
| `McpToolCallProofs` | what a handed-off call rests on | proofs |

The specifications cut the system where it is narrow. `ReceiptStore` takes a run of the Trust Gate as a
value and looks at every file access. `RegistryProvenance` takes writing a receipt as one step and looks at every
reading of a registry. `TransactionBinding` takes verification as one step and looks at what is made of a draft
afterwards. `EvidenceBinding` takes everything in an evaluation but the ledger's answers as settled in the draft's
favour, and looks at every file access behind them. `RegistryReplay`, which extends `RegistryEvolution`, takes files as whole and
well-formed, and looks at which registry each reading of a replay comes from. `VerifiedIntent` extends `DraftVerification`,
so that here the draft is whole and every rule is evaluated, and looks at every file access of an export and a handoff.
`EvidenceProvider` and `McpToolCall` stand by themselves, as the code does: neither calls the Trust Gate.

Operators named as a *faulty variant* in a module are mutated forms of the definition next to them: the runs are
repeated with one in place of the original, and must then report a violation. They are used nowhere else.

### ReceiptStore

| State | Code |
|---|---|
| `decisionFile`, `receiptFile` per slot | `<receipt_id>.trust_gate_decision.json`, `<receipt_id>.trust_receipt.json`; slot `GateSlot` is the fixed names of `trust evaluate --out-dir` |
| `manifest` | `trust_receipt_manifest.jsonl`: its records, and whether its last line is broken |
| `pc`, `art`, `rawReceipt`, `rawDecision`, `text` | locals of an `issue_trust_receipt` call in one process |
| `replay` | locals of a `replay_trust_receipt` call |
| `content` | draft files and the registries behind them |
| `completed` | history variable: runs whose manifest write came to its end |

`Path.write_text` truncates the file when it opens it and fills it when it closes it. So `OpenX` leaves `Torn` and
`FillX` the bytes, and if another process has filled the file in between, the shorter text may end before the longer
one does (`Written`, `Overwritten`). The manifest is loaded in one step, extended in memory and written in two. `Die`
stops an issuer anywhere, and in the middle of the manifest it leaves any number of whole lines, with or
without a part of the next.

A receipt id digests the draft, the snapshot, the report and the context, so it is modelled by the draft, the
`content` and the command's purpose. The bytes of two runs differ by `generated_at` (the serial) while their stable
projections may be equal: that is the case that makes mixed bundles possible.

### TransactionBinding

`ValidBinding` is the loop body of `transaction_findings` (rules TX002 to TX017), `TransactionsPass` the function.
`Eligible` is `assess_lowering_eligibility`, which verifies again. `EmitOperation` and `EmitTransaction` are the two
branches of the lowerer's outer loop; `TxIdOf` and `TxById` reproduce the two dict comprehensions, in which the last
transaction stands. `RunOperation`, `Commit` and `Fail` are the host, which is not in the repository: they follow the
contract the generated code states (`runTransaction` and its rollback).

### RegistryProvenance

`files` has three copies of each registry. The *primary* one is the repository's for the ledger and the package's for the others,
the *secondary* one is the other of the two, and *working* is `Path.cwd()/registries`, which is one directory for all processes and none
of the other two. `Init` is a source checkout, in which repository and package agree, or an installed package without a repository;
later any copy may be edited, broken, removed or created.

`Consult` is the first use of a registry (`lru_cache`), with each loader's own order of the three and its own reaction to a broken one
(`Effective`); `ReadItem` is one round of the loop of `registry_snapshot`, which reads primary and secondary only, and
without that fallback (`ItemOf`).
`IssueReceipt`/`FinishReplay` are the end of `evaluate_trust_gate`; `WriteSidecar`/`RefuseSidecar` the second half of
`receipt issue`. Three things are history, which the code does not store: in a receipt the field `judged`, the registries
that judged; `steady`, under which processes no file has changed; and `local`, that a ledger of the working directory stood in for a missing
one of the repository.

### RegistryEvolution and RegistryReplay

| State | Code |
|---|---|
| `files` | the operation registry and the external consumer profiles as packaged; two components, because `_component_data` treats them differently |
| `cache` | `lru_cache` of `_default_operation_registry` |
| `active` | `_ACTIVE_REGISTRY_BUNDLE`, per context |
| `frame` | history variable: the bundle of the with-block the context is in |
| `job` | locals of a replay or an issue: `before` is the digest of the receipt's bytes, `receipt` what was parsed from the second reading, `judged` (history) the registry that `verify_draft` used, `bound` the snapshot in the fresh receipt, `runtime` the one captured afterwards |
| `report` | a replay that just passed, with the diff it carries |

`RegistryEvolution` has the rules an operation spec stands for (`OperationBinds`: O003, O004, O009, and the two lists of which one
member is enough, `required_capability_any` in O007 and `requires_policy_any` in O008), with the meaning of fields that are left out, and `diff_registry_snapshots` over such specs (`ClassifyField`, `Overall`). `RegistryReplay` uses both: a registry
decides, and a change of it is classified, so that the two can be compared.

`ReadReceipt` is the second reading of the receipt's file; `Judge`, `Bind`, `CaptureRuntime` and `CaptureComponents` are the
steps of `_evaluate` and `capture_registry_snapshot` that read a registry; `Finish` is the third reading and the comparisons
(`Reproduced`), which differ by mode. Profiles (`EnterProfile`, `LeaveProfile`) and migrated replays (`ReadReceipt`,
`CaptureComponents`) enter and leave a bundle through `Enter` and `Leave`. A replay that is certain to fail ends at once: a
failure leaves nothing but its report.

### EvidenceBinding

| State | Code |
|---|---|
| `files` | the draft's source file and the record's artifact; `DraftPath` and `ArtifactPath` may be one path, as for the bundled example drafts |
| `loaded` | `DraftModule.raw` without its `__` fields, and the bytes it came from |
| `pc`, `done` | which of the three readings of `decide` is next, and how many of the six decisions of `evaluate_trust_gate` are taken |
| `edits` | history variable: changes of each file since `load_draft` |

`ReadArtifact` is `decide` up to the artifact's hash (line 149), `ReadDraft` the hash of the draft's file (to line 156 or, if
it is the recorded one, to 170), `ReadArtifactAgain` the comparison of payloads. `Subject` says with which payload the
caller asks: `verify_draft` with the normalized one, both gates with the draft as loaded. A comparison that raises makes
both hashes `None` (line 166), so the branch of `ReadArtifactAgain` for an artifact that cannot be parsed accepts, and so does
`ReadDraft` without a root.

### DraftVerification and VerifiedIntent

`DraftVerification` follows the calls from `parse_draft_ast` to `evaluate_trust_gate`. A draft is a record of operations (with
effects, capabilities, policies, parameters), claims with their references to evidence, holes, ambiguities, transactions and a declared
environment; the registry is a constant with aliases, specs, effect and operation families, and workflow profiles. Each group of
rules is an operator that gives the set of findings it raises (`ParseFindings`, `NormalizeFindings`, `TrustFindings`,
`OperationFindings`, `CapabilityFindings`, `PolicyFindings`, ...), and `Verify`, `LoweringFindings` and `TrustGate` combine them as the
functions of these names do. `Judged` is the draft `verify_draft` judges: normalized. The gates look at the draft as loaded.

| State | Code |
|---|---|
| `draft` | the draft file |
| `dir` | the four files `_write_verified_intent_bundle` writes |
| `exporters` | locals of `profile export-intent` commands: which file is next, open or not, what was read back |
| `job` | locals of `verify_verified_intent_packet_handoff_from_files` and of the `replay_trust_receipt` in it |
| `finished`, `whole` | history variables: exports that wrote their manifest; whether the directory holds an undisturbed export of the draft as it is |

`BuildPacket` is `_build_packet` (from the draft as written), `ValidPacket` the validator of packets, `Exportable` the export's refusals;
`Attach` puts the packet's hash into the receipt and makes the projection's hash again. `OpenFile`, `WriteFile`, `ReadBack` and
`WriteManifest` are the writes of the bundle in their order, `ReadPacket` to `ReadReceiptBytes` the readings of a handoff check in theirs,
and `JudgeDraft` the evaluation in between, which builds the packet again. `Crash`, `EditDraft` and `RewordBundle` are the environment; a
hand that rewords the packet may make any of the hashes in the other files again.

`HandoffPromise` has two variables: which exports have finished, and the answer of the last check. Its steps are to finish an
export, to ask, and to answer with a refusal or with one finished export, draft and packet together. `HandoffIsOneExport` is its `Spec`
under the mapping in `VerifiedIntent`: the eight readings of a check amount to one step.

### EvidenceProvider

| State | Code |
|---|---|
| `bundleFile`, `draftFile` | files named on the command line |
| `keys` | `verification_keys` of the host; `_verification_keys_for_bundle` takes the key's id from the bundle |
| `opened` | the bundle as `evidence resolve` has read it first |
| `provider` | bundle, signature status, key id and validation of a `FixtureEvidenceProvider`, `FileEvidenceProvider`, `SignedBundleEvidenceProvider`, or of an object of someone else's making |
| `request`, `resolution`, `report` | values of these names |
| `now`, `revokedAt`, `issued` | the issuer, which is not in the repository; `issued` is a history variable |

`Resolve` is `provider.resolve`, `Accepts` is `validate_evidence_resolution` with `_validate_record_against_request` (`Warrants`,
`SubjectBound`, `NotRevoked`). `Open`, `Load`, `Ask` and `Validate` are the steps of `evidence resolve`, and may be taken again in any
combination, as a program that uses the library may.

### McpToolCall

| State | Code |
|---|---|
| `profileFile`, `descriptorFile` | the profile and the descriptors beside it |
| `adapter` | `HostOwnedMCPToolCallAdapter.profile`, loaded once |
| `job` | the operation in progress, and which descriptor file its current validation reads next (`next`, in the profile's `order`) |
| `envelopes`, `context`, `binding`, `assessment` | artifacts the host keeps |
| `obtained` | what people and the host's transaction manager said, which is not in the repository |

A validation of a profile is a sequence of `ReadDescriptor` steps, and each stage of an operation begins with one: before the reviewed
descriptor of a function is read (`ReadReviewed`), before an envelope is built (`Build`), before a call is judged (`Judge`). An
invalid profile raises, except in an assessment, where it makes the assessment invalid. `Verdict` is the sum of the checks of
`assess_mcp_tool_call`: `ReviewedCall`, `HostVouches`, `Consented`, `Prepared`. `ValidPreflight` is the part of
`validate_openai_function_tool_preflight` that compares the parts of a preflight.

## 3. Runs

| Run | Question | Result |
|---|---|---|
| `receipt_serial` | One issuer at a time, both commands, contents that change, crashes anywhere: is there one active record per id, the newest; does each bundle replay when its command returned; is the manifest an append log for `receipt issue`; is a torn one refused and kept? | holds |
| `receipt_race` | Two issuers, a replayer, a crash, every interleaving: does a replay pass only on one complete bundle? | holds |
| `tx_lowering` | One declared transaction, good or bad, or two that are apart, overlap, nest or share an id; a host that may fail; a draft that is replaced after its report: do declared units take effect as a whole and in order, and is nothing lowered that does not verify? | holds |
| `tx_shared_boundary` | Two transactions that share an operation: is each still atomic? | violated (finding) |
| `registry_files` | Registry files that change between processes and under them: was a passed receipt judged by the registries it names, does it replay exactly under them, and does a sidecar hold what judged? | holds |
| `registry_replay` | Two contexts that issue, replay in three modes and run profiles, while files change: was what passes judged by the registry it names, for the receipt and draft in the files; do bundles stay in their context; do changes classified as tightening only narrow what complete specs permit? | holds |
| `evidence_bound` | A ledger with a root, files that change during an evaluation: is evidence accepted only for the recorded payload, and for each layout of it? | holds while the draft's file rests |
| `evidence_no_root` | A ledger without a root, no file changes: is a draft that passes the recorded one? | violated (finding) |
| `tool_call` | Five versions of a profile, descriptor files that are replaced at any moment, artifacts that are kept and combined: was a call that is handed off consented to and prepared as it is, judged against the files, and given to the model with the reviewed schema? | holds |
| `evidence_provider` | An issuer that revokes, a bundle that is edited between its two readings, a provider that says what it likes, evaluation times ahead of and behind the clock: was what is accepted as signed issued for this draft, and is it accepted only up to the bound after its revocation? | holds |
| `verified_intent` | Two exporters on one directory, a crash or an edit, handoff checks that read file by file: is an accepted handoff one finished export of the draft judged; is an undisturbed bundle accepted in the end; does a packet say what was judged; does spelling never help? | holds |
| `packet_overstates_evidence` | A verified claim with two references of which the ledger accepts one: does the packet claim no more than the ledger? | violated (finding) |

Some properties have a premise that separates what the code promises from what it does not, and each run visits states on
both sides of it, except that the specs of `registry_replay` leave no field out and widen no choice. `DeclaredTransactionsAreAtomic` speaks of drafts whose transactions share no operation, whatever their ids;
`tx_shared_boundary` shows what happens to the others. `PassedMeansJudgedAsBound` and `PassedReceiptReplays` speak of
*steady* processes, under which no registry file changed, and except the ledger where a ledger of the working directory stood in
for a missing one of the repository. `NarrowingChangesNeverAdmit` speaks of changes that are each
compatible or tightening, between specs that leave no field out and in which no list of which one member is enough gains another. What happens beyond
these premises is under "deliberately not claimed".

### Findings

* `tx_shared_boundary`: transactions are judged one by one and the last one to name an operation takes it
  (`lowering.py:57`). The first one's boundary is cut although the draft is verified. The roles a workflow requires
  together are safe nevertheless (`RequiredRolesAreAtomic` in `tx_lowering`), because each accepted transaction must hold
  all of them.
* `evidence_no_root`: without a root the variable `artifact` is unbound, the exception handler sets both hashes to
  `None`, and the comparison succeeds (`evidence_ledger.py:138,162-167`). `registry_replay.py:434` relies on the contrary.
* `packet_overstates_evidence`: `_evidence_bindings` calls every reference of a verified claim `verified` and `ledger_bound`
  (`verified_intent_export.py:962-964`); verifier and gate ask the ledger for one accepted reference per claim.
  `docs/verified_intent_packet.md:93` says that a packet makes no stronger claims than the ledger supports.

### What is deliberately not claimed

About receipts and registries:

* That the manifest is an append log for every command. `trust evaluate --out-dir` writes it with its single record (`cli.py:445`),
  and `profile export-intent --out` does the same (`cli.py:485`), so receipts issued into that directory lose their record and
  stop replaying, although the store documents manifests as append logs (`trust_receipt_store.py:686`). `IssuesKeepTheLog` is
  about `receipt issue`.
* That replay is a function of receipt and snapshot (`PROTECTED_INVARIANTS.md:16`). A process that cached a registry before the
  file changed binds the changed file (`trust_gate.py:142`) and judges with the cached one. A sidecar is refused in this case
  (`SidecarBindsWhatJudged`), and nothing of it can happen while files are left alone during a run and no ledger of the working directory
  stands in (`PassedReceiptReplays`). 
* That a change classified as `tightening` only narrows (`docs/trust_receipt_registry_evolution.md:27`). The classifier goes by the
  names of fields: a spec that no longer lists its workflows is allowed in all of them (`operation_registry.py:215`), and the
  change is `tightening` (`registry_evolution.py:698`); one that gains a required effect may thereby allow it
  (`operation_registry.py:59`); a member that
  `required_capability_any` or `requires_policy_any` gains is called tightening (`registry_evolution.py:685`) although one member is
  enough to pass (`operation_registry.py:241,255`); a change in both directions does not
  count beside a tightening one (`registry_evolution.py:736`). Outside the model, an emptied `trusted_spec_levels` is read as its default. `NarrowingChangesNeverAdmit` is about what the classification is right about.
* With two issuers on one directory, `ActiveIsLatest`, `IssuesKeepTheLog` and
  `FinishedBundleReplays` fail: the manifest is read, extended and written with no lock, and an update is lost. They
  are checked, and proved, for one issuer at a time. What holds with any number is that no replay *passes* wrongly.
* That the history of a receipt id can be followed: a superseded record names a successor that is in the manifest until a crash
  truncates the manifest; the record before the lost one may already be retired.
* A crash between truncating the manifest and writing it may leave an empty file, which is a valid, empty history.
* That `receipt replay --env` can replay what `receipt issue` wrote: source and purpose of its context differ (`cli.py:710`), and both
  enter the receipt id. This is a comparison of two constants, for a test rather than a model.
* That the receipt names the ledger that judged, wherever the command is called (`docs/v1_known_limitations.md:41` calls the ledger bundled, and the
  snapshot is said to "Read the effective registry", `registry_provenance.py:71`). Without a repository copy `EvidenceLedger.load` prefers
  `Path.cwd()/registries/evidence_ledger.yaml` to the packaged ledger (`evidence_ledger.py:68-75`), while `registry_snapshot` looks at repository and
  package only (`registry_provenance.py:123-130`): that ledger judges, the snapshot names the packaged one and finds no drift, the receipt may
  pass, and another process elsewhere may judge otherwise. The other loaders take the working directory last, and where they do the snapshot has found no file
  and is invalid. The capture of a sidecar notices the difference (`SidecarBindsWhatJudged` has no exception), but the
  receipt is in the directory by then. TLC refutes `PassedMeansJudgedAsBound` without its exception for the ledger, with one edit.
* A *refused* receipt need not replay identically even when files are at rest: the snapshot does not bind the
  contents of a fallback copy when the first copy is broken. `PassedReceiptReplays` is therefore about passed ones.
* Exact replay is not part of `PassedReplayJudgesWhatItNames`: it captures nothing after the evaluation, and may judge with a
  stale cache. The capture is what makes current and migrated replay immune to stale caches.
* That a migrated replay can pass: one to a target whose external consumer profiles differ from the packaged file always fails,
  because `_component_data` reads that file even when a bundle is active (`registry_evolution.py:203`). The model has this
  behaviour; no property asks for more.
* A draft's file that changes after it was loaded: `decide` hashes the file, not the draft in memory
  (`evidence_ledger.py:155`), so a file that has come to hold the artifact's bytes vouches for whatever was loaded from it
  before. `QuietRunIsBound` and `StableDraftIsBound` are about files at rest.
* A record whose artifact uses an alias: the verifier compares the normalized payload with the artifact as written, so
  such a record loses its warrant when a comment is added to the draft. The bundled artifacts are in normal form, and
  `CommentKeepsWarrant` is about records in normal form.
* Roles that several operations hold: `RequiredRolesAreAtomic` assumes one operation per required role, because the
  verifier requires that some operation of each role is in the boundary, not all of them.

About evidence from providers:

* An accepted report is about one evaluation time and never expires by itself. The host chooses that time; the clock only limits
  what the issuer can have said. Evaluation times ahead of the clock are therefore allowed and covered.
* Without a policy that wants a verified signature, whoever can write the bundle can make a file or fixture bundle that is
  accepted; the properties about issuing and revoking are about signed evidence.
* `evidence resolve --out-dir` that ends in an error leaves the reports of an earlier run.

About tool calls:

* An envelope names its profile by id. One that was normalized under an earlier version passes an assessment under a later one with
  the resources the earlier version bound, although resource pointers are "profile-bound" (`docs/mcp_tool_call_profile.md:39`).
  `PreflightIsOneReview` holds because a preflight compares the profile's hash as well.
* A consent is judged at the evaluation time in the context, and nothing counts how often it is presented.

About verified intents:

* A refused export leaves the bundle of an earlier one in the directory, and an accepted handoff of it is still of a finished export
  of the draft as it is judged then.
* Handoff checks need not end while exporters write: `WholeBundleIsAccepted` is about bundles that are left alone.

### Bounds

| Bound | Where | Why it is enough for the cases of interest |
|---|---|---|
| `MaxIssues` 2 or 3 | ReceiptStore | two for a conflict, three to supersede twice around a crash |
| `MaxEdits` 0 or 1 | ReceiptStore | a second content gives a second receipt id for the same draft |
| `MaxCrashes` 0 to 2 | ReceiptStore | one half-written bundle; two for a torn manifest that meets a second crash |
| tasks of 3 or 4 operations | TransactionBinding | a segment with an operation before, inside and after it; two segments that overlap without nesting |
| `MaxEdits` 0 or 1, `Replacements` | TransactionBinding | one replacement between report and lowering, by a draft that verifies or one that does not |
| `MaxEdits` 2, `MaxRuns` 2, two processes | RegistryProvenance | change both copies, or one and back, or create one in the working directory and replace it; issue, then replay, in one process or in two at once. Processes and versions are symmetric: every version is accepted by some draft and none is named |
| `MaxJobs` 2, `MaxChanges` 2, two versions of which one is the stricter | RegistryReplay | evaluations and profile contexts: one replay inside a profile, or beside an issue or another replay, with a file changed and changed back or two files changed in between |
| `MaxEdits` 1 (draft), 7 (artifact) | EvidenceBinding | seven changes of the artifact do make a foreign draft pass, so the bound of `StableDraftIsBound` is met from both sides |
| three payloads, two layouts | EvidenceBinding | the recorded draft, one that normalizes to it, one that does not; the recorded bytes and others |
| `MaxTime` 1, `MaxObtained` 1, `MaxEnvelopes` 2 | McpToolCall | a consent that runs out, and a second call of equal arguments for it to be mistaken for |
| `MaxEdits` 1 profile, 1 descriptor; five versions | McpToolCall | an envelope, context or binding of one version that meets another; a descriptor replaced in any of the readings of a preflight |
| `MaxTime` 1, `MaxEvaluationTime` 3, `Lifetime` 3 | EvidenceProvider | evaluation before, at and after a check; ages of zero, the bound, and one more; the end of a record's validity |
| `MaxPublished` 2, `MaxEdits` 1, one key id | EvidenceProvider | a bundle before and after the revocation; one edit between any two readings |
| `MaxExports` 2, two exporters | VerifiedIntent | two exports that race or follow each other, in one environment or two |
| `MaxMishaps` 1 | VerifiedIntent | one killed exporter, one edit of the draft, or one edit of the bundle, at any moment; a crash beside a complete second export |
| drafts of `OneRefDrafts` and `AllDrafts` | VerifiedIntent | one good draft in two spellings, and drafts that each fall to one rule of one stage; two references, and one to a fixture record that the ledger does not have, in `AllDrafts` only |

`CHECK_DEADLOCK FALSE` is set for `ReceiptStore`, `TransactionBinding`, `RegistryProvenance`, `RegistryReplay` and `McpToolCall`:
their programs end, and the counters stop the environment. Another run, question or check can always follow in `EvidenceBinding`,
`EvidenceProvider` and `VerifiedIntent`, and deadlock is checked.

### Fairness

`VerifiedIntent` assumes `WF_vars(Check)`: a handoff check that has begun goes on. It is one sequential call that opens files and
waits for nobody, so a step of it is enabled until it has its answer, and nothing in the code stops it. Nothing is assumed of
exporters, which may be killed, nor of anyone's beginning something. `WholeBundleIsAccepted` is the liveness property this allows:
a check that begins on an undisturbed bundle accepts it, unless the bundle or the draft is changed in the meantime.

No other specification states fairness. Their components do not wait for one another: commands run to their end or die, and a
process may be killed anywhere, so that nothing must happen. The one loop whose end depends on an index, the lowerer's, is covered
by `TaskOrderIsKept`.

## 4. Proofs

Every invariant and every action property of the passing runs is a theorem, for all values of the constants that the named
assumptions allow. Each module below has an inductive invariant (`IInv`, or the name given), with `Init => IInv`,
`IInv /\ [Next]_vars => IInv'` and `IInv => P` for each property `P`; the step is one lemma per action. TLC checked
each property on the runs' instances before it was proved.

| Module | Theorem | States |
|---|---|---|
| `ReceiptStoreProofs` | `TypeCorrect` | `[]TypeOK` |
| | `NoMixedBundlePasses`, `NoUnfinishedBundlePasses` | `[]NoMixedBundle`, `[]OnlyFinishedIssuesPass` |
| | `ActiveRecordIsLatest`, `FinishedBundlesReplay`, `TheLogIsKept` | one issuer: `[]ActiveIsLatest`, `[]FinishedBundleReplays`, `[]IssuesKeepTheLog` |
| | `TornManifestsAreKept` | one issuer: `TornManifestIsKept`, an action property |
| `TransactionBindingProofs` | `TypeCorrect` | `[]TypeOK` |
| | `StaleReportsLowerNothing`, `TasksRunInOrder` | `[]StaleReportLowersNothing`, `[]TaskOrderIsKept` |
| | `TransactionsAreAtomic`, `RolesAreAtomic` | `[]DeclaredTransactionsAreAtomic`, `[]RequiredRolesAreAtomic` |
| `RegistryProvenanceProofs` | `TypeCorrect` | `[]TypeOK` |
| | `PassedIsJudgedAsBound`, `SidecarsBind`, `PassedReceiptsReplay` | `[]PassedMeansJudgedAsBound`, `[]SidecarBindsWhatJudged`, `[]PassedReceiptReplays` |
| `RegistryReplayProofs` | `TypeCorrect` | `[]TypeOK` |
| | `ContextsAreApart` | `[]JudgedInItsOwnContext` |
| | `ReplaysJudgeWhatTheyName`, `ReplaysAreAboutTheFile` | `[]PassedReplayJudgesWhatItNames`, `[]PassedReplayIsAboutTheFile` |
| | `NarrowingIsSafe` | `[]NarrowingChangesNeverAdmit` |
| `EvidenceBindingProofs` | `TypeCorrect` | `[]TypeOK` |
| | `StableDraftsAreBound`, `QuietRunsAreBound` | with a root: `[]StableDraftIsBound`, `[]QuietRunIsBound` |
| | `CommentsKeepTheWarrant` | record in normal form: `CommentKeepsWarrant`, an action property |
| `EvidenceProviderProofs` | `TypeCorrect` | `[]TypeOK` |
| | `SignedWasIssued`, `RevocationIsEffective`, `EvidenceMatchesTheDraft` | `[]SignedRecordsWereIssued`, `[]RevocationReachesHosts`, `[]EvidenceIsAboutTheDraft` |
| `McpToolCallProofs` | `TypeCorrect` | `[]TypeOK` |
| | `NoCallWithoutConsent`, `NoCallWithoutTransaction` | `[]ConsentCoversCall`, `[]TransactionCoversCall` |
| | `SchemaWasReviewed`, `OnePreflightOneReview` | `[]ModelSawReviewedSchema`, `[]PreflightIsOneReview` |
| | `FilesAreJudged` | `JudgedAgainstFiles`, an action property |
| `VerifiedIntentProofs` | `TypeCorrect` | `[]TypeOK` |
| | `HandoffsAreExports` | `HandoffIsOneExport`: the refinement of `HandoffPromise` |
| | `PacketsDescribe`, `AliasesNeverHelp` | `[]PacketDescribesWhatWasJudged`, `[]SpellingNeverHelps` |

### Receipt store

Assumptions: `KindsAssumption` (the two commands), `BoundsAssumption` (the bounds are naturals) and `ConstantsDistinct` (the
markers for a missing and a torn file are no artifacts, and the fixed file name is no receipt id).

*Any number of issuers.* `PassInv` is a conjunction:

* `TypeInv`: `TypeOK`, and an issuer that is not idle holds a run of the gate;
* `FilesInv`: where there is a receipt file there is a decision file (a replay never takes the branch for a receipt
  with no decision beside it), and a receipt is in the slot of its id;
* `RecordsInv`: every record in the manifest pairs the canonical digests of one run, and that run is finished; in an
  issuer's memory this is so of all records but the last, which is of the run it is persisting;
* `ReplaysInv`: the same for the manifest a replayer has read, and for a replay that passed the two properties themselves.

A replay passes only if an active record agrees with the receipt, its raw bytes and the decision; the record's canonical digests
come from one run in memory, so receipt and decision are of that run; and a complete line with those digests exists only after,
or at, the end of that run's manifest write. The step that needs care is `FillManifest`/`Die` over a manifest that another
issuer has filled since the truncation; the lemmas `WithActiveRecordShape`, `OverwrittenShape` and `PrefixShape` say what
sequences result.

*One issuer at a time* (`Issuers = {p}`, the hypothesis under which these properties hold at all; see "deliberately not claimed").
`SerialInv(p)` says how far the issuer's bundle is on disk at each of its steps (`BundleInv`), that the manifest, and the text that
is about to replace it, has at most one active record per id and the newest (`ManifestInv`), and that while nobody was killed it has a
record of every finished issue (`LogInv`). That a manifest is empty between its truncation and its writing is part of
`ManifestInv`: it is why a crash there may lose history and cannot falsify it. Runs are numbered as they are evaluated (`SerialsInv`).

### Transactions and lowering

Assumptions: `DraftsAssumption` (drafts have the shape the parser gives them, and a task), `EnvironmentsAssumption`,
`MaxEditsAssumption`. Tasks may have any length and drafts any number of transactions.

`IInv`: the calls of the skeleton cover the task so far, without gap or overlap, and end where a transaction ends (`CallsAreTyped`,
`CallsFollow`); the host is at an operation of a call (`HostFollows`); what took effect is the operations 1 to *n* for
some *n* that is a *cut*, an operation after which the lowerer starts another call (`InOrder`); before the lowering nothing has
happened (`Untouched`). A valid transaction lists as many distinct operations as lie between its first and its last, so
it is all of them (`FullSpanHasNoGaps`): an interval. A transaction of which some operations took effect and some did
not would have operations on both sides of a cut, which the lowerer tells apart only if another transaction names one of them. If
none is shared, none is cut. A role's operations are in every valid transaction, so that an overlap cannot separate them.

### Registries

`RegistryProvenance`. Assumptions: `ComponentsAssumption` (a list of registries with the safety registry in it), `AcceptingAssumption`,
`BoundsAssumption`, `MarkersAssumption` (the markers for files and caches are no versions), `IssueIsNoReceipt`. `IInv`
has, per process, which registries are loaded and which files read at each step (`LoadedSoFar`, `ReadSoFar`), that cache and snapshot agree
with the files while the process is steady, apart from a ledger of the working directory (`SteadyFiles`), and that a capture is of a receipt this very cache judged
(`CaptureIsOfItsReceipt`); of receipts, sidecars and verdicts, what they say of the registries that judged (`ResultsHold`). A snapshot
without drift is the one thing that ties a copy to what a loader takes from it, and only for registries that can be read: hence the premise that the receipt
passed. A copy in the working directory is tied to nothing: for the ledger that is the exception in the two statements, for the others load() comes to
it only when the snapshot has found no file.

`RegistryReplay`. Assumptions: `ProfileAssumption` (a profile adds operations and replaces none), `SnapshotsAssumption`,
`MarkersAssumption`, `OperationsAssumption` (specs have the fields of specs), `BoundsAssumption`. `IInv`: a bundle is in force exactly in the
with-blocks of its context (`frame = active`); a job does what its mode has it do (`ModeFits`); from the verdict to the capture the registry
that judged is the one in force, the bundle of the context or the loaded cache (`JudgementStands`), so that the capture, if it agrees,
is of that registry (`Captured`); and the receipt read first is older than any that may still be written, so that the file holds
it again only if it held it throughout (`ReadTwice`). `NarrowingIsSafe` is about no behaviour: it is proved of `OperationBinds` and `ClassifyField`
for any two specs, field by field; for the lists of which one member is enough from the premise that none gains a member (`AnyOfNarrows`).

### Evidence

`EvidenceBinding`. Assumptions: `CanonAssumption`, `RecordAssumption`, `FilesAssumption`, `BoundsAssumption`. Nothing is assumed of the
normal form, not even that it is idempotent. The root is a hypothesis of two theorems, and `evidence_no_root` shows
that it is needed; `CommentsKeepTheWarrant` has the hypothesis that the record is in normal form, which the bundled records are. The
invariant adds to `TypeOK` that an unchanged file still holds what was loaded (`FileIsLoaded`), and `CountedChanges`: for a draft the
evidence was not recorded for, the artifact changes within each decision of a gate and changes back before the next one, so the
number of changes is at least twice the number of those decisions, less one while the artifact is not the recorded one. The
verifier's two decisions do not count: they are about another payload, and may be right about it.

`EvidenceProvider`. Assumptions: `TimeAssumption`, `BoundsAssumption`, `KeyAssumption` (the host's key is not another's), `SourcesAssumption`,
`PoliciesAssumption` (ages are numbers), `DraftsAssumption` (a file is parsed to one payload). The invariant follows the signature: wherever a
bundle signed with the host's key is, in the file, opened or in a provider, the hash under the signature is that of one issued record
(`BundlesAreSigned`); issued records are about drafts and dated, and those that do not say revoked are no younger than the revocation
(`IssuedRecords`); and an accepted report that counts as signed rests on an issued record (`Founded`).

### Tool calls

Assumptions: `BoundsAssumption`, `ProfileAssumption` (a profile lists its tools in some order), `ArgumentsAssumption`. The invariant follows
the artifacts. A context was built from something that was obtained for an envelope with the same call and resources (`ContextIsBuilt`); what is obtained
is obtained for the resources its own profile binds (`GrantsAreReviewed`); an operation half way holds artifacts of the stage before
(`JobIsPrepared`), and if no file was replaced it has found the files before `next` as reviewed (`FilesAreRead`); a binding holds the definition
its envelope was made for (`BindingIsReviewed`); what passed had passed every check (`PassedChecks`). Contexts and
envelopes of several profiles may be combined at will: nothing in the invariant relates a context's profile to the adapter's, which is why
`PreflightIsOneReview` needs the comparison of profile hashes in `ValidPreflight`.

### Verified intents

Assumptions: `DraftsAreKnown`, `BoundsAreNumbers`, `ConsumerIsCanonical` (the consumer's tables hold canonical names, as the code's do) and
`AliasesAreOneStep`. The registry, the consumer's tables and the drafts are otherwise arbitrary.

*Files.* `IInv`: a file that can be read holds something of its own kind that some export made, or a reworded one; a manifest that was
not reworded is of a finished export (`ManifestIsOfFinished`); what a check has read agrees as far as it has been compared
(`Knows`). The refinement: `finished` maps to the promise's finished exports; its answer is none while the check is at work, a refusal, or
the draft and packet the check read. All steps of an exporter but the last, of the environment, and of a check but the first and last, map
to stutters; `WriteManifest` finishes an export, the end of a check answers. In the answer `Knows` gives what the promise asks for: the
packet has the body of the receipt, the receipt is the one of the draft as judged during the check, and the manifest is of its export, finished.

*Judgement.* `SpellingNeverHelps` and `PacketDescribesWhatWasJudged` are about operators: the findings of a draft as written and of its normalized form are
compared rule by rule, and a packet that passes the validators with the draft the verifier judged, slot by slot.

### What is left to TLC

`WholeBundleIsAccepted`, the one liveness property: TLAPS has no rule here for `ENABLED`, on which fairness rests. The three runs that expect a
violation, which show what does not hold. Recursive definitions: none is declared, and no property speaks of what an induction over data would
have to show.

## 5. Abstractions

* SHA-256 and canonical JSON are injective: a digest is the value it digests.
* A draft is a model value in `ReceiptStore`, a task with roles and transactions in `TransactionBinding`, and a set of
  accepting registry versions in `RegistryProvenance`, and a record with all its operations and claims in `DraftVerification`.
* All readings of one registry within a snapshot are one step (the code reads the file up to three times).
* The receipts of `ReceiptStore` bind no VerifiedIntent packet; those of `VerifiedIntent` all do.
* All processes of `RegistryProvenance` have one working directory, and what it holds is not the repository's own copy. Bundles made active by a
  context are left out, and so is a registry whose record ids repeat.
* `RegistryReplay` has one draft, one receipt file and seven fields of an operation spec, which stand for the others: lists that
  require all or one of their members, lists that allow, switches and metadata. Files are whole and well-formed; a receipt's bundle is intact; `parent_snapshot_hash`, which
  nothing compares, is left out. A change of the working directory by another thread is one more way for `EditDraft` to
  put another draft behind the path.
* `EvidenceBinding` has one verified claim with one reference, and a record whose own fields (status, producer, reliability,
  kind) are in order; a decision reads each file in one step.
* Contract validation of stored artifacts is not modelled beyond "parses": artifacts are the ones the program wrote.

* `DraftVerification` gives rules by name and leaves out texts, source positions and severities that do not decide; aliases resolve
  in one step (`AliasesAreOneStep`: true of the packaged registries, and normalization does not look twice). The rules about transactions are in
  `TransactionBinding`.
* `VerifiedIntent`: the draft's bytes and the context stand for the content of a packet, which is a function of them. An export that
  is refused ends at its first error, a handoff check likewise: both collect errors in the code, and the answer is the same.
  The file with the export's result is written and never read. The name of the consumer profile and the search for the draft's
  path are left out, as is a consumer whose slots are constant (intent, grounding, contracts).
* `EvidenceProvider`: one provider; kinds of evidence and of producer and the version are taken with the issuer's id. A report is
  cleared when another answer is sought.
* `McpToolCall`: schemas are names, with the arguments that conform to each; paths are names with a normal form, and an argument that is no
  string, or an empty one, is absent. The last context,
  binding and assessment are kept, and all envelopes.

### Not modelled

* Profile authoring and conformance: a manifest is compiled in one call; a conformance run evaluates cases one after another, and an
  exception ends it before a report is written. The reports are read by nothing but the rendering of one of them. What a compiled
  profile does to the registries in force is in `RegistryReplay`.
* Authoring an MCP profile from descriptors (`mcp_authoring.py`) and the facade over the adapter (`mcp_host_adapter.py`): functions
  of their arguments, whose results are judged by the validators that are modelled.
* Contract validation, canonical JSON, packaging: pure functions of one document.
* Harnesses: drivers of what is modelled.

## 6. Plan

In order of weight; each step has its runs, and its proofs where named.

1. *Done*: receipt store, its safety proofs; transactions and lowering; registry provenance; the evidence ledger's
   decisions, with their proofs; registry evolution, contexts and replay modes; evidence providers; tool calls and the function
   adapter; draft verification; verified intents, with the promise they implement and its liveness.
2. *Done*: proofs of every invariant and action property of the passing runs, and the step simulation of `HandoffPromise`.
3. `ReceiptLedger`: an abstract ledger (finished issues, one active per id) that `ReceiptStore` with one issuer implements, with the
   refinement proved from `SerialInv`.
4. More about operators that have no state: that `Judged` is a fixed point of the normalization when aliases are one step, and what
   `diff_registry_snapshots` says of two diffs in a row.
