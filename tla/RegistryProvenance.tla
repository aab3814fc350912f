------------------------- MODULE RegistryProvenance -------------------------
(***************************************************************************)
(* What a TrustReceipt says about the registries that judged its draft.    *)
(*                                                                         *)
(* A process judges a draft with registries it loaded the first time it    *)
(* needed them and keeps until it ends (the lru_cache of get_registry,     *)
(* get_operation_registry and get_evidence_ledger).  The receipt binds a   *)
(* snapshot that registry_snapshot reads from the files afterwards, one    *)
(* file after another, and `receipt issue` captures a third reading as a   *)
(* sidecar.  Each registry has a packaged copy and a repository copy, and  *)
(* load() knows a third place that registry_snapshot does not read: the    *)
(* registries/ of the working directory, which is one and the same for all *)
(* processes here.  A process in the root of the repository finds there    *)
(* only the copy it has found before: that is no third copy.               *)
(*                                                                         *)
(* The artifact directory itself is the subject of ReceiptStore: writing a *)
(* receipt or a sidecar is one step here.                                  *)
(***************************************************************************)
EXTENDS Naturals, Sequences, FiniteSets

CONSTANTS
    Processes,
    Components, \* the registries, in the order an evaluation first needs them
    Versions,   \* contents a registry file may have
    Accepting,  \* the versions by which the draft passes
    Corrupt,    \* a file that does not parse
    Absent,     \* no file
    Empty,      \* the ledger of an installation that has no ledger file
    NotLoaded, LoadError,
    Issue,      \* the goal of a process that issues rather than replays
    MaxEdits,   \* bound: changes of a file
    MaxRuns     \* bound: evaluations

ASSUME ComponentsAssumption ==
    /\ Components \in Seq({"safety_registry", "evidence_ledger", "operation_spec_registry"})
    /\ \E k \in DOMAIN Components : Components[k] = "safety_registry"
ASSUME AcceptingAssumption == Accepting \subseteq Versions
ASSUME BoundsAssumption == MaxEdits \in Nat /\ MaxRuns \in Nat

Names == {Components[k] : k \in DOMAIN Components}

(* A registry file.  The primary copy is the repository's for the ledger   *)
(* and the package's for the others, the secondary copy is the other one.  *)
FileContents == Versions \cup {Corrupt, Absent}
Copies == {"primary", "secondary", "working"}

Loaded == Versions \cup {Empty}
Cache == [Names -> Loaded \cup {NotLoaded}]

(* No marker stands for contents, and no contents for a marker.            *)
ASSUME MarkersAssumption ==
    /\ {Corrupt, Absent, Empty} \cap Versions = {} /\ Corrupt # Absent
    /\ {NotLoaded, LoadError} \cap Loaded = {}

Item == [data : FileContents, drift : BOOLEAN]
Snapshots == [Names -> Item]
PartialSnapshots == UNION {[read -> Item] : read \in SUBSET Names}

(* Three fields are history, not stored: judged, the registries the        *)
(* evaluation used (the receipt holds a digest of the safety registry and  *)
(* of the findings); steady, that no file has changed since the process    *)
(* started; and local, that a ledger of the working directory stood in for *)
(* one of the repository when the snapshot had been read.                  *)
Receipt == [items : Snapshots, safety : Loaded, refusing : SUBSET Names,
            status : {"passed", "refused"}, judged : [Names -> Loaded],
            steady : BOOLEAN, local : BOOLEAN]
Sidecar == [receipt : Receipt, runtime : Snapshots, components : [Names -> Loaded]]
Verdict == [receipt : Receipt, items : Snapshots, passed : BOOLEAN,
            steady : BOOLEAN, local : BOOLEAN]

ASSUME IssueIsNoReceipt == Issue \notin Receipt

VARIABLES
    files,     \* component |-> copy |-> contents
    edits, runs, \* counters, bounded by the constants
    pc,        \* process |-> "off", "idle", "verify", "snapshot", "capture"
    cache,     \* process |-> registries it has loaded
    steady,    \* history: process |-> no file has changed since it started
    goal,      \* process |-> Issue, or the receipt it replays
    next,      \* process |-> index of the next registry to load or to read
    items,     \* process |-> what it has read for a snapshot so far
    receipts, sidecars, verdicts

vars == <<files, edits, runs, pc, cache, steady, goal, next, items, receipts, sidecars, verdicts>>

process == <<pc, cache, steady, goal, next, items>>
results == <<receipts, sidecars, verdicts>>

TypeOK ==
    /\ files \in [Names -> [Copies -> FileContents]]
    /\ edits \in 0..MaxEdits /\ runs \in 0..MaxRuns
    /\ pc \in [Processes -> {"off", "idle", "verify", "snapshot", "capture"}]
    /\ cache \in [Processes -> Cache]
    /\ steady \in [Processes -> BOOLEAN]
    /\ goal \in [Processes -> {Issue} \cup receipts]
    /\ next \in [Processes -> 1..Len(Components) + 1]
    /\ items \in [Processes -> PartialSnapshots]
    /\ receipts \subseteq Receipt /\ sidecars \subseteq Sidecar /\ verdicts \subseteq Verdict
    /\ \A s \in sidecars : s.receipt \in receipts
    /\ \A v \in verdicts : v.receipt \in receipts

RepositoryCopy(c) == IF c = "evidence_ledger" THEN "primary" ELSE "secondary"

(* A source checkout, or an installed package, which has no repository.    *)
Init ==
    /\ \E v \in Versions, checkout \in BOOLEAN :
         files = [c \in Names |-> [copy \in Copies |->
                    IF copy = "working" \/ (copy = RepositoryCopy(c) /\ ~checkout)
                    THEN Absent ELSE v]]
    /\ edits = 0 /\ runs = 0
    /\ pc = [p \in Processes |-> "off"]
    /\ cache = [p \in Processes |-> [c \in Names |-> NotLoaded]]
    /\ steady = [p \in Processes |-> TRUE]
    /\ goal = [p \in Processes |-> Issue]
    /\ next = [p \in Processes |-> 1]
    /\ items = [p \in Processes |-> <<>>]
    /\ receipts = {} /\ sidecars = {} /\ verdicts = {}

-----------------------------------------------------------------------------
(*                         Reading the registries                          *)

(* Faulty variant: whatever the file holds is taken. *)
EffectiveUnparsed(c) ==
    IF files[c]["primary"] # Absent THEN files[c]["primary"]
    ELSE IF files[c]["secondary"] # Absent THEN files[c]["secondary"] ELSE LoadError

(* What load() makes of a file: one that does not parse, or is not there   *)
(* when no candidate is left, ends the loading.                            *)
Parsed(contents) == IF contents \in Versions THEN contents ELSE LoadError

(* What load() returns.  A packaged copy that does not parse is passed     *)
(* over in favour of the next candidate, a copy outside the package is     *)
(* not.                                                                    *)
Effective(c) ==
    LET primary == files[c]["primary"]
        secondary == files[c]["secondary"]
        working == files[c]["working"]
    IN  IF c = "evidence_ledger"
        THEN IF primary # Absent THEN Parsed(primary)
             ELSE IF working # Absent THEN Parsed(working)
             ELSE IF secondary \in Versions THEN secondary ELSE Empty
        ELSE IF primary \in Versions THEN primary
             ELSE IF secondary # Absent THEN Parsed(secondary)
             ELSE Parsed(working)

(* A ledger of the working directory is what load() returns.               *)
LocalLedger ==
    /\ "evidence_ledger" \in Names
    /\ files["evidence_ledger"]["primary"] = Absent
    /\ files["evidence_ledger"]["working"] # Absent

(* _read_effective_yaml: no copy stands in for a broken one, the two must  *)
(* be the same, and the working directory does not count.                  *)
ItemOf(c) ==
    LET first == files[c]["primary"]
        second == files[c]["secondary"]
    IN  [data |-> IF first # Absent THEN first ELSE second,
         drift |-> first # Absent /\ second # Absent
                     /\ (first # second \/ first = Corrupt)]

(* Faulty variant: only a missing file invalidates a snapshot. *)
ValidUnlessMissing(snapshot) == \A c \in Names : snapshot[c].data # Absent

(* registry_snapshot_failures finds nothing. *)
ValidSnapshot(snapshot) ==
    \A c \in Names : snapshot[c].data \in Versions /\ ~snapshot[c].drift

-----------------------------------------------------------------------------
(*                        Processes and their runs                         *)

EditFile(c, copy, contents) ==
    /\ edits < MaxEdits /\ contents # files[c][copy]
    /\ files' = [files EXCEPT ![c][copy] = contents]
    /\ edits' = edits + 1
    /\ steady' = [p \in Processes |-> steady[p] /\ pc[p] = "off"]
    /\ UNCHANGED <<runs, pc, cache, goal, next, items, results>>

Start(p) ==
    /\ pc[p] = "off"
    /\ pc' = [pc EXCEPT ![p] = "idle"]
    /\ cache' = [cache EXCEPT ![p] = [c \in Names |-> NotLoaded]]
    /\ UNCHANGED <<files, edits, runs, steady, goal, next, items, results>>

Stop(p) ==
    /\ pc[p] = "idle"
    /\ pc' = [pc EXCEPT ![p] = "off"]
    /\ cache' = [cache EXCEPT ![p] = [c \in Names |-> NotLoaded]]
    /\ steady' = [steady EXCEPT ![p] = TRUE]
    /\ UNCHANGED <<files, edits, runs, goal, next, items, results>>

Begin(p, g) ==
    /\ pc[p] = "idle" /\ runs < MaxRuns
    /\ runs' = runs + 1
    /\ pc' = [pc EXCEPT ![p] = "verify"]
    /\ goal' = [goal EXCEPT ![p] = g]
    /\ next' = [next EXCEPT ![p] = 1]
    /\ UNCHANGED <<files, edits, cache, steady, items, results>>

(* The verifier comes to a registry it has not used in this run.  A load   *)
(* that fails is not cached: it ends the run, and a replay reports failure. *)
Consult(p) ==
    /\ pc[p] = "verify" /\ next[p] \in DOMAIN Components
    /\ LET c == Components[next[p]]
           data == IF cache[p][c] = NotLoaded THEN Effective(c) ELSE cache[p][c]
       IN  IF data = LoadError
             THEN /\ pc' = [pc EXCEPT ![p] = "idle"]
                  /\ UNCHANGED <<cache, next>>
             ELSE /\ cache' = [cache EXCEPT ![p][c] = data]
                  /\ next' = [next EXCEPT ![p] = @ + 1]
                  /\ UNCHANGED pc
    /\ UNCHANGED <<files, edits, runs, steady, goal, items, results>>

(* registry_snapshot begins, for the receipt or for the sidecar. *)
BeginSnapshot(p, phase) ==
    /\ pc' = [pc EXCEPT ![p] = phase]
    /\ next' = [next EXCEPT ![p] = 1]
    /\ items' = [items EXCEPT ![p] = <<>>]

Verified(p) ==
    /\ pc[p] = "verify" /\ next[p] > Len(Components)
    /\ BeginSnapshot(p, "snapshot")
    /\ UNCHANGED <<files, edits, runs, steady, cache, goal, results>>

ReadItem(p) ==
    /\ pc[p] \in {"snapshot", "capture"} /\ next[p] \in DOMAIN Components
    /\ LET c == Components[next[p]] IN
         items' = [items EXCEPT ![p] =
                     [n \in DOMAIN items[p] \cup {c} |->
                        IF n = c THEN ItemOf(c) ELSE items[p][n]]]
    /\ next' = [next EXCEPT ![p] = @ + 1]
    /\ UNCHANGED <<files, edits, runs, steady, pc, cache, goal, results>>

SnapshotRead(p) == next[p] > Len(Components)

Refusing(p) == {c \in Names : cache[p][c] \notin Accepting}

FreshReceipt(p) ==
    [items |-> items[p], safety |-> cache[p]["safety_registry"],
     refusing |-> Refusing(p),
     status |-> IF Refusing(p) = {} /\ ValidSnapshot(items[p]) THEN "passed" ELSE "refused",
     judged |-> cache[p], steady |-> steady[p], local |-> LocalLedger]

IssueReceipt(p) ==
    /\ pc[p] = "snapshot" /\ SnapshotRead(p) /\ goal[p] = Issue
    /\ receipts' = receipts \cup {FreshReceipt(p)}
    /\ goal' = [goal EXCEPT ![p] = FreshReceipt(p)]
    /\ BeginSnapshot(p, "capture")
    /\ UNCHANGED <<files, edits, runs, steady, cache, sidecars, verdicts>>

(* Faulty variant: the replay compares only the outcome. *)
ReproducesStatus(stored, fresh) == stored.status = fresh.status

Reproduces(stored, fresh) ==
    /\ stored.items = fresh.items
    /\ stored.safety = fresh.safety
    /\ stored.refusing = fresh.refusing
    /\ stored.status = fresh.status

FinishReplay(p) ==
    /\ pc[p] = "snapshot" /\ SnapshotRead(p) /\ goal[p] # Issue
    /\ verdicts' = verdicts \cup
         {[receipt |-> goal[p], items |-> items[p],
           passed |-> Reproduces(goal[p], FreshReceipt(p)),
           steady |-> steady[p], local |-> LocalLedger]}
    /\ pc' = [pc EXCEPT ![p] = "idle"]
    /\ goal' = [goal EXCEPT ![p] = Issue]
    /\ UNCHANGED <<files, edits, runs, steady, cache, next, items, receipts, sidecars>>

(* Faulty variant: the components are not compared with the files. *)
CapturesReceiptSnapshot(p) ==
    /\ ValidSnapshot(items[p])
    /\ items[p] = goal[p].items

(* capture_registry_snapshot succeeds and gives the hash of the receipt. *)
Captures(p) ==
    /\ ValidSnapshot(items[p])
    /\ \A c \in Names : cache[p][c] = items[p][c].data
    /\ items[p] = goal[p].items

EndCapture(p) ==
    /\ pc' = [pc EXCEPT ![p] = "idle"]
    /\ goal' = [goal EXCEPT ![p] = Issue]
    /\ UNCHANGED <<files, edits, runs, steady, cache, next, items, receipts, verdicts>>

WriteSidecar(p) ==
    /\ pc[p] = "capture" /\ SnapshotRead(p) /\ Captures(p)
    /\ sidecars' = sidecars \cup
         {[receipt |-> goal[p], runtime |-> items[p], components |-> cache[p]]}
    /\ EndCapture(p)

(* The command fails, and leaves the receipt it has issued. *)
RefuseSidecar(p) ==
    /\ pc[p] = "capture" /\ SnapshotRead(p) /\ ~Captures(p)
    /\ UNCHANGED sidecars
    /\ EndCapture(p)

Next ==
    \/ \E c \in Names, copy \in Copies, v \in FileContents : EditFile(c, copy, v)
    \/ \E p \in Processes :
         \/ Start(p) \/ Stop(p)
         \/ \E g \in receipts \cup {Issue} : Begin(p, g)
         \/ Consult(p) \/ Verified(p) \/ ReadItem(p)
         \/ IssueReceipt(p) \/ FinishReplay(p)
         \/ WriteSidecar(p) \/ RefuseSidecar(p)

Spec == Init /\ [][Next]_vars

-----------------------------------------------------------------------------
(*                              Properties                                 *)

(* A receipt that says passed was judged by the very registries its        *)
(* snapshot names, if no file changed under the process that issued it: no *)
(* fallback from one copy to another goes unseen.  One does: that of the   *)
(* ledger to the working directory, in an installation without repository. *)
PassedMeansJudgedAsBound ==
    \A r \in receipts : r.status = "passed" /\ r.steady =>
        \A c \in Names : r.items[c].data = r.judged[c]
                          \/ (c = "evidence_ledger" /\ r.local)

(* Whatever changes while a process runs, and however stale its registries *)
(* are, a sidecar holds the registries that judged the receipt beside it,  *)
(* and these are the ones the receipt's snapshot names.                    *)
SidecarBindsWhatJudged ==
    \A s \in sidecars : \A c \in Names :
        /\ s.components[c] = s.receipt.judged[c]
        /\ s.receipt.items[c] = [data |-> s.receipt.judged[c], drift |-> FALSE]

(* If no file changes under the process that issues a receipt, nor under   *)
(* the one that replays it, and neither judges with a ledger of the        *)
(* working directory, a receipt that says passed replays if and only if    *)
(* the registry snapshot is the one it binds: so also after the registries *)
(* were changed and changed back.                                          *)
PassedReceiptReplays ==
    \A v \in verdicts :
        /\ v.receipt.status = "passed"
        /\ v.receipt.steady /\ v.steady
        /\ ~v.receipt.local /\ ~v.local
        => (v.passed <=> v.items = v.receipt.items)

=============================================================================
