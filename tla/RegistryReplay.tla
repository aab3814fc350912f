--------------------------- MODULE RegistryReplay --------------------------
(***************************************************************************)
(* Replaying a TrustReceipt under another registry than its own.           *)
(*                                                                         *)
(* One process evaluates drafts in several contexts (threads or tasks).    *)
(* It caches the operation registry at first use; the files may be         *)
(* upgraded under it.  A context may have a registry bundle of its own in  *)
(* force: a compiled profile, or the target of a migrated replay.          *)
(*                                                                         *)
(* The three modes of replay_trust_receipt_mode share their steps: the     *)
(* receipt's bytes, the receipt, the draft, the gate (verify, then bind a  *)
(* snapshot), a capture of the registry, and the receipt's bytes again.    *)
(* Other contexts and programs act between any two of them.  Receipts are  *)
(* issued by the same gate.  A replay that fails leaves nothing but its    *)
(* report, so it ends where its failure is certain.                        *)
(***************************************************************************)
EXTENDS RegistryEvolution, Naturals, FiniteSets

CONSTANTS
    Contexts,
    OpsVersions,         \* packaged operation registries: op |-> spec
    Externals,           \* packaged external consumer profiles
    ProfileOperations,   \* what a profile adds: op |-> spec
    Drafts,              \* [op, workflow, effects, capabilities, policies]
    Snapshots,           \* registries that were captured in portable artifacts
    None, NotLoaded,
    MaxJobs,             \* bound on evaluations and profile contexts
    MaxChanges           \* bound on changes of files by other programs

Packaged == [operations : OpsVersions, external : Externals]

(* _compile_additive: what the base has, and what the profile adds.        *)
WithProfile(registry) ==
    [registry EXCEPT !.operations =
        [op \in DOMAIN @ \cup DOMAIN ProfileOperations |->
            IF op \in DOMAIN @ THEN @[op] ELSE ProfileOperations[op]]]

Bundles == Packaged \cup {WithProfile(r) : r \in Packaged}

(* Reviewers have recorded their decision on every pair of snapshots.      *)
Records == {MigrationRecord(s, t, a) : s \in Snapshots, t \in Snapshots, a \in BOOLEAN}

ASSUME ProfileAssumption ==
    \A ops \in OpsVersions : DOMAIN ops \cap DOMAIN ProfileOperations = {}
ASSUME SnapshotsAssumption == Snapshots \subseteq Bundles
ASSUME MarkersAssumption == None \notin Bundles /\ NotLoaded \notin OpsVersions
ASSUME OperationsAssumption ==
    \A ops \in OpsVersions \cup {ProfileOperations} :
        \A op \in DOMAIN ops : ops[op] \in OperationSpec
ASSUME BoundsAssumption == MaxJobs \in Nat /\ MaxChanges \in Nat

Statuses == {"passed", "refused"}

(* The operation registries a draft may be judged with.                    *)
Judgements == {b.operations : b \in Bundles}

(* A receipt: serial stands for generated_at.  judged is history, the      *)
(* registry the decision was made with; the code stores only the one it    *)
(* binds.                                                                  *)
Receipts ==
    [serial : 0 .. MaxJobs, draft : Drafts, registry : Bundles,
     status : Statuses, judged : Judgements]

VARIABLES
    files,        \* the packaged registries on disk
    cache,        \* get_operation_registry's lru_cache
    active,       \* context |-> the ContextVar's bundle or None
    frame,        \* context |-> history: the bundle of its own open with-block
    draftFile, receiptFile,
    job,          \* context |-> the evaluation it is in
    report,       \* the replay that just passed, until the next evaluation
    jobs, changes

vars == <<files, cache, active, frame, draftFile, receiptFile, job, report,
          jobs, changes>>

NoJob ==
    [pc |-> "idle", mode |-> None, source |-> None, target |-> None,
     record |-> None, accept |-> FALSE, before |-> None, receipt |-> None,
     draft |-> None, judged |-> None, status |-> None, bound |-> None,
     runtime |-> None]

Optional(S) == {None} \cup S

JobIsTyped(j) ==
    /\ DOMAIN j = DOMAIN NoJob
    /\ j.pc \in {"idle", "receipt", "load", "bind",
                 "write", "runtime", "components", "finish"}
    /\ j.mode \in Optional({"issue", "exact", "current", "migrated"})
    /\ j.source \in Optional(Snapshots) /\ j.target \in Optional(Snapshots)
    /\ j.before \in Optional(Receipts) /\ j.receipt \in Optional(Receipts)
    /\ j.draft \in Optional(Drafts) /\ j.status \in Optional(Statuses)
    /\ j.judged \in Optional(Judgements)
    /\ j.bound \in Optional(Bundles) /\ j.runtime \in Optional(Bundles)

TypeOK ==
    /\ files \in Packaged
    /\ cache \in {NotLoaded} \cup OpsVersions
    /\ active \in [Contexts -> Optional(Bundles)]
    /\ frame \in [Contexts -> Optional(Bundles)]
    /\ draftFile \in Drafts
    /\ receiptFile \in Receipts
    /\ DOMAIN job = Contexts
    /\ \A c \in Contexts : JobIsTyped(job[c])
    /\ jobs \in 0 .. MaxJobs /\ changes \in 0 .. MaxChanges

Init ==
    /\ files \in Packaged
    /\ cache = NotLoaded
    /\ active = [c \in Contexts |-> None]
    /\ frame = active
    /\ draftFile \in Drafts
    /\ \E r \in Packaged :
        receiptFile = [serial |-> 0, draft |-> draftFile, registry |-> r,
                       status |-> Verdict(r.operations, draftFile),
                       judged |-> r.operations]
    /\ job = [c \in Contexts |-> NoJob]
    /\ report = None
    /\ jobs = 0 /\ changes = 0

---------------------------------------------------------------------------
(* Other programs *)

(* An upgrade replaces one registry file.                                  *)
Upgrade ==
    /\ changes < MaxChanges
    /\ \E r \in Packaged \ {files} :
        /\ r.operations = files.operations \/ r.external = files.external
        /\ files' = r
    /\ changes' = changes + 1
    /\ UNCHANGED <<cache, active, frame, draftFile, receiptFile, job, report, jobs>>

EditDraft ==
    /\ changes < MaxChanges
    /\ draftFile' \in Drafts \ {draftFile}
    /\ changes' = changes + 1
    /\ UNCHANGED <<files, cache, active, frame, receiptFile, job, report, jobs>>

---------------------------------------------------------------------------
(* Registry contexts *)

(* Faulty variant: the override belongs to the process.                    *)
InEveryContext(c, bundle) == [k \in Contexts |-> bundle]

(* _ACTIVE_REGISTRY_BUNDLE.set, and reset to the value before: no with-    *)
(* block is entered when a bundle is in force, so that is None.            *)
InContext(c, bundle) == [active EXCEPT ![c] = bundle]

Enter(c, bundle) ==
    /\ active' = InContext(c, bundle)
    /\ frame' = [frame EXCEPT ![c] = bundle]

Leave(c) ==
    /\ active' = InContext(c, None)
    /\ frame' = [frame EXCEPT ![c] = None]

(* What the process judges with outside any bundle.                        *)
Loaded == IF cache = NotLoaded THEN files.operations ELSE cache

(* compile_profile and profile_registry_context: the base is the cached    *)
(* operation registry and the external profiles as they are in the file.   *)
EnterProfile(c) ==
    /\ job[c].pc = "idle" /\ active[c] = None /\ jobs < MaxJobs
    /\ jobs' = jobs + 1
    /\ cache' = Loaded
    /\ Enter(c, WithProfile([operations |-> Loaded, external |-> files.external]))
    /\ UNCHANGED <<files, draftFile, receiptFile, job, report, changes>>

LeaveProfile(c) ==
    /\ job[c].pc = "idle" /\ frame[c] # None
    /\ Leave(c)
    /\ UNCHANGED <<files, cache, draftFile, receiptFile, job, report, jobs, changes>>

---------------------------------------------------------------------------
(* Evaluations *)

Begin(c, fields, pc) ==
    /\ job[c].pc = "idle" /\ jobs < MaxJobs
    /\ jobs' = jobs + 1
    /\ report' = None
    /\ job' = [job EXCEPT ![c] =
           [f \in DOMAIN NoJob |->
               IF f = "pc" THEN pc
               ELSE IF f \in DOMAIN fields THEN fields[f] ELSE NoJob[f]]]
    /\ UNCHANGED <<files, cache, active, frame, draftFile, receiptFile, changes>>

(* receipt issue, trust evaluate, a conformance case                       *)
StartIssue(c) == Begin(c, [mode |-> "issue"], "load")

StartExact(c) == Begin(c, [mode |-> "exact", before |-> receiptFile], "receipt")

StartCurrent(c) ==
    \E s \in Optional(Snapshots) :
        Begin(c, [mode |-> "current", source |-> s, before |-> receiptFile], "receipt")

(* The artifacts are read once and checked against each other.  A missing  *)
(* or refused one, or no --accept-unsigned-local-approval, is a failure.   *)
StartMigrated(c) ==
    \E s \in Snapshots, t \in Snapshots, r \in Records, accept \in BOOLEAN :
        /\ RecordIsValid(r, s, t)
        /\ accept
        /\ Begin(c, [mode |-> "migrated", source |-> s, target |-> t, record |-> r,
                     accept |-> accept, before |-> receiptFile], "receipt")

Continue(c, pc, fields) ==
    job' = [job EXCEPT ![c] =
        [f \in DOMAIN NoJob |->
            IF f = "pc" THEN pc
            ELSE IF f \in DOMAIN fields THEN fields[f] ELSE @[f]]]

Quit(c) == job' = [job EXCEPT ![c] = NoJob]

(* The second reading of the file: verify_trust_receipt_artifact, or the   *)
(* first step of replay_trust_receipt.  A migrated replay goes on to put   *)
(* the target in force, unless a bundle is in force already; nobody else   *)
(* can tell when.                                                          *)
ReadReceipt(c) ==
    /\ job[c].pc = "receipt"
    /\ \/ /\ job[c].mode # "migrated"
          /\ Continue(c, "load", [receipt |-> receiptFile])
          /\ UNCHANGED <<active, frame>>
       \/ /\ job[c].mode = "migrated" /\ active[c] = None
          /\ Continue(c, "load", [receipt |-> receiptFile])
          /\ Enter(c, job[c].target)
       \/ /\ job[c].mode = "migrated" /\ active[c] # None
          /\ Quit(c)
          /\ UNCHANGED <<active, frame>>
    /\ UNCHANGED <<files, cache, draftFile, receiptFile, report, jobs, changes>>

(* load_draft and verify_draft.  The draft's path is relative to the       *)
(* working directory of the process; a directory changed by another thread *)
(* is one more way to find another draft there.  Every registry is looked  *)
(* up through the context.  A change of the draft between the two readings *)
(* is as good as one after, a change of the registry as one before.        *)
Judge(c) ==
    /\ job[c].pc = "load"
    /\ LET ops == IF active[c] # None THEN active[c].operations ELSE Loaded
       IN Continue(c, "bind", [draft |-> draftFile, judged |-> ops,
                               status |-> Verdict(ops, draftFile)])
    /\ cache' = IF active[c] # None THEN cache ELSE Loaded
    /\ UNCHANGED <<files, active, frame, draftFile, receiptFile, report, jobs, changes>>

(* registry_snapshot                                                       *)
Snapshot(c) == IF active[c] # None THEN active[c] ELSE files

(* evaluate_trust_gate makes the receipt.                                  *)
Bind(c) ==
    /\ job[c].pc = "bind"
    /\ Continue(c, IF job[c].mode = "issue" THEN "write"
                   ELSE IF job[c].mode = "exact" THEN "finish" ELSE "runtime",
                [bound |-> Snapshot(c)])
    /\ UNCHANGED <<files, cache, active, frame, draftFile, receiptFile, report,
                   jobs, changes>>

(* Faulty variant: the receipt binds the operation registry alone.         *)
ReceiptOfOperations(c) ==
    [serial |-> jobs, draft |-> job[c].draft, registry |-> job[c].bound.operations,
     status |-> job[c].status, judged |-> job[c].judged]

NewReceipt(c) ==
    [serial |-> jobs, draft |-> job[c].draft, registry |-> job[c].bound,
     status |-> job[c].status, judged |-> job[c].judged]

WriteReceipt(c) ==
    /\ job[c].pc = "write"
    /\ receiptFile' = NewReceipt(c)
    /\ Quit(c)
    /\ UNCHANGED <<files, cache, active, frame, draftFile, report, jobs, changes>>

(* capture_registry_snapshot, first half: the snapshot to be bound.        *)
CaptureRuntime(c) ==
    /\ job[c].pc = "runtime"
    /\ Continue(c, "components", [runtime |-> Snapshot(c)])
    /\ UNCHANGED <<files, cache, active, frame, draftFile, receiptFile, report,
                   jobs, changes>>

(* _component_data: the bundle or the caches; but the external consumer    *)
(* profiles always from the packaged file.                                 *)
ComponentData(c) ==
    [operations |-> IF active[c] # None THEN active[c].operations ELSE Loaded,
     external |-> files.external]

(* Faulty variant: the data is not compared with the snapshot.             *)
AnyComponents(c) == TRUE

(* _runtime_component_binding_failures is empty.                           *)
ComponentsBound(c) == ComponentData(c) = job[c].runtime

(* The second half, which may raise; then the with-block is left.          *)
CaptureComponents(c) ==
    /\ job[c].pc = "components"
    /\ \/ ComponentsBound(c) /\ Continue(c, "finish", <<>>)
       \/ ~ComponentsBound(c) /\ Quit(c)
    /\ IF job[c].mode = "migrated" THEN Leave(c) ELSE UNCHANGED <<active, frame>>
    /\ UNCHANGED <<files, cache, draftFile, receiptFile, report, jobs, changes>>

(* Faulty variant of FileUnchanged: the receipt is compared with itself.   *)
ReceiptUnchanged(c) == job[c].receipt = job[c].receipt

(* _file_unchanged: the file's bytes, read a last time.                    *)
FileUnchanged(c) == receiptFile = job[c].before

(* The bindings replay_trust_receipt compares, or _evaluate and the end of *)
(* replay_trust_receipt_mode.                                              *)
Reproduced(c) ==
    LET j == job[c]
    IN /\ j.draft = j.receipt.draft
       /\ IF j.mode = "exact"
          THEN j.status = j.receipt.status /\ j.bound = j.receipt.registry
          ELSE /\ j.source # None => j.source = j.receipt.registry
               /\ j.bound = (IF j.target # None THEN j.target ELSE j.runtime)

(* registry_diff: against the source artifact, or the identity if the      *)
(* receipt is bound to the registry it was evaluated under.                *)
DiffOf(c) ==
    LET j == job[c]
        to == IF j.target # None THEN j.target ELSE j.runtime
    IN IF j.mode = "exact" THEN None
       ELSE IF j.source # None THEN <<j.source, to>>
       ELSE IF to = j.receipt.registry THEN <<to, to>> ELSE None

Finish(c) ==
    /\ job[c].pc = "finish"
    /\ report' = IF FileUnchanged(c) /\ Reproduced(c)
                 THEN [job |-> job[c], diff |-> DiffOf(c)]
                 ELSE None
    /\ Quit(c)
    /\ UNCHANGED <<files, cache, active, frame, draftFile, receiptFile, jobs, changes>>

(* A new process: its contexts and caches are empty.                       *)
Restart ==
    /\ cache # NotLoaded
    /\ \A c \in Contexts : job[c].pc = "idle" /\ frame[c] = None
    /\ cache' = NotLoaded
    /\ active' = [c \in Contexts |-> None]
    /\ UNCHANGED <<files, frame, draftFile, receiptFile, job, report, jobs, changes>>

Step(c) ==
    \/ EnterProfile(c) \/ LeaveProfile(c)
    \/ StartIssue(c) \/ StartExact(c) \/ StartCurrent(c) \/ StartMigrated(c)
    \/ ReadReceipt(c) \/ Judge(c) \/ Bind(c)
    \/ WriteReceipt(c) \/ CaptureRuntime(c) \/ CaptureComponents(c) \/ Finish(c)

Next == Upgrade \/ EditDraft \/ Restart \/ \E c \in Contexts : Step(c)

Spec == Init /\ [][Next]_vars

---------------------------------------------------------------------------
(* Properties *)

(* A current or migrated replay that passes was judged with the registry   *)
(* whose hash it reports, even if the process had cached another one and   *)
(* the files changed in between: the capture after the evaluation compares *)
(* the data in use with the snapshot, and the report the two snapshots.    *)
PassedReplayJudgesWhatItNames ==
    report # None /\ report.job.mode # "exact" =>
        report.job.judged = report.job.bound.operations

(* A replay that passes is about the receipt that was in the file when it  *)
(* began, and about the draft that receipt names, although the receipt is  *)
(* parsed from a second reading and others replace both files.             *)
PassedReplayIsAboutTheFile ==
    report # None =>
        /\ report.job.receipt = report.job.before
        /\ report.job.draft = report.job.receipt.draft

(* A draft is judged by the bundle of its own context's open block, or     *)
(* outside one by a packaged registry: no context's bundle leaks into      *)
(* another, or outlives its block.                                         *)
JudgedInItsOwnContext ==
    \A c \in Contexts :
        job[c].pc \in {"bind", "write", "runtime", "components"} =>
            IF frame[c] # None THEN job[c].judged = frame[c].operations
                               ELSE job[c].judged \in OpsVersions

(* The historical decision was made with the registry its receipt names.   *)
Honest(r) == r.job.receipt.judged = r.job.receipt.registry.operations

TurnedToPassed(r) == r.job.receipt.status = "refused" /\ r.job.status = "passed"

SpelledOut(registry) ==
    \A op \in DOMAIN registry.operations : \A f \in DOMAIN registry.operations[op] :
        registry.operations[op][f] # Undeclared

(* The more an any-of list has, the more it admits, if it has anything.    *)
WidensAnyOf(from, to) ==
    \E op \in DOMAIN from.operations \cap DOMAIN to.operations :
    \E f \in {"required_capability_any", "requires_policy_any"} :
        LET old == Listed(from.operations[op][f])
            new == Listed(to.operations[op][f])
        IN old # {} /\ ~(new \subseteq old)

(* If every change between two registries that leave no field out is       *)
(* classified compatible or tightening, and no any-of list with members    *)
(* gained another, a replay across it never turns a refused draft into a   *)
(* passed one.                                                             *)
NarrowingChangesNeverAdmit ==
    report # None /\ report.diff # None =>
        LET from == report.diff[1]
            to == report.diff[2]
        IN /\ Honest(report)
           /\ SpelledOut(from) /\ SpelledOut(to)
           /\ ~WidensAnyOf(from, to)
           /\ ChangeClasses(from, to) \subseteq {"compatible", "tightening"}
           => ~TurnedToPassed(report)

=============================================================================
