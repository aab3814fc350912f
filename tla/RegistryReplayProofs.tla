------------------------ MODULE RegistryReplayProofs ------------------------
(***************************************************************************)
(* Theorems about RegistryReplay, for all contexts, registries, profiles,  *)
(* drafts and bounds.                                                      *)
(*                                                                         *)
(* The inductive invariant follows an evaluation from step to step: what   *)
(* its mode has put in force, what it judged with and why nobody can have  *)
(* changed that since, what it captured, and how old the receipt is that   *)
(* it read first.                                                          *)
(***************************************************************************)
EXTENDS RegistryReplay, TLAPS

Fields == {"pc", "mode", "source", "target", "record", "accept", "before",
           "receipt", "draft", "judged", "status", "bound", "runtime"}

Modes == {"issue", "exact", "current", "migrated"}

(* The verdict in a receipt is the one its registry gives.                 *)
Sound(receipt) == receipt.status = Verdict(receipt.judged, receipt.draft)

(* What a mode has to do, and the target that only a migrated replay has.  *)
ModeFits(j) ==
    /\ j.pc # "idle" =>
         /\ j.mode \in Modes
         /\ IF j.mode = "migrated" THEN j.target \in Snapshots ELSE j.target = None
    /\ j.pc = "write" => j.mode = "issue"
    /\ j.pc \in {"runtime", "components"} => j.mode \in {"current", "migrated"}
    /\ j.pc \in {"receipt", "finish"} => j.mode # "issue"

(* From the verdict to the capture, the registry that was judged with is   *)
(* the one in force: the context's bundle, or else the cache, which is     *)
(* loaded by then.                                                         *)
JudgementStands(j, bundle, loaded) ==
    /\ j.pc \in {"bind", "write", "runtime", "components", "finish"} =>
         /\ j.draft \in Drafts /\ j.judged \in Judgements
         /\ j.status = Verdict(j.judged, j.draft)
    /\ j.pc \in {"bind", "write", "runtime", "components"} =>
         IF bundle # None THEN j.judged = bundle.operations
                          ELSE j.judged = loaded /\ loaded # NotLoaded
    /\ j.mode = "migrated" /\ j.pc \in {"load", "bind", "runtime", "components"} =>
         bundle = j.target

(* What was captured, and what the comparisons of the capture found equal. *)
Captured(j) ==
    /\ j.pc \in {"write", "runtime", "components", "finish"} => j.bound \in Bundles
    /\ j.pc = "components" => j.runtime \in Bundles
    /\ j.pc = "finish" /\ j.mode # "exact" =>
         /\ j.runtime \in Bundles
         /\ j.runtime.operations = j.judged
         /\ j.mode = "migrated" => j.target.operations = j.judged

(* The first reading of the receipt is older than anything that may still  *)
(* be written, so the file holds it again only if it held it all along.    *)
ReadTwice(j, file, n) ==
    j.pc # "idle" /\ j.mode # "issue" =>
        /\ j.before \in Receipts /\ j.before.serial < n
        /\ j.pc # "receipt" =>
             /\ j.receipt \in Receipts /\ Sound(j.receipt)
             /\ file = j.before => j.receipt = j.before

Kept(c) ==
    /\ ModeFits(job[c])
    /\ JudgementStands(job[c], active[c], cache)
    /\ Captured(job[c])
    /\ ReadTwice(job[c], receiptFile, jobs)

(* What is left of a replay that passed.                                   *)
ReportHolds(r) ==
    r # None =>
        /\ r.job.receipt \in Receipts /\ Sound(r.job.receipt)
        /\ r.job.bound \in Bundles
        /\ r.job.receipt = r.job.before
        /\ r.job.draft = r.job.receipt.draft
        /\ r.job.status = Verdict(r.job.judged, r.job.draft)
        /\ r.job.mode # "exact" => r.job.judged = r.job.bound.operations
        /\ r.diff # None =>
             /\ r.job.mode # "exact"
             /\ r.diff[1] = r.job.receipt.registry
             /\ r.diff[2] = r.job.bound

IInv ==
    /\ TypeOK
    /\ frame = active
    /\ receiptFile.serial <= jobs /\ Sound(receiptFile)
    /\ \A c \in Contexts : Kept(c)
    /\ ReportHolds(report)

---------------------------------------------------------------------------
(* Registries, verdicts and receipts *)

LEMMA VerdictIsAStatus ==
    ASSUME NEW operations, NEW d PROVE Verdict(operations, d) \in Statuses
BY DEF Verdict, Statuses

LEMMA FilesAreABundle ==
    ASSUME NEW f \in Packaged
    PROVE  /\ f \in Bundles /\ f.operations \in OpsVersions /\ f.external \in Externals
           /\ f.operations \in Judgements
BY DEF Packaged, Bundles, Judgements

LEMMA VersionIsABundle ==
    ASSUME NEW f \in Packaged, NEW ops \in OpsVersions
    PROVE  /\ ops \in Judgements
           /\ WithProfile([operations |-> ops, external |-> f.external]) \in Bundles
<1>1. [operations |-> ops, external |-> f.external] \in Packaged
  BY DEF Packaged
<1> DEFINE r == [operations |-> ops, external |-> f.external]
<1>2. r.operations = ops
  OBVIOUS
<1>3. r \in Packaged
  BY <1>1
<1> HIDE DEF r
<1>4. ops \in Judgements /\ WithProfile(r) \in Bundles
  BY <1>2, <1>3 DEF Bundles, Judgements
<1> QED BY <1>4 DEF r

(* The operations of a bundle are specified.                               *)
LEMMA BundlesAreSpecified ==
    ASSUME NEW b \in Bundles, NEW op \in DOMAIN b.operations
    PROVE  b.operations[op] \in OperationSpec
<1>1. CASE b \in Packaged
  BY <1>1, OperationsAssumption DEF Packaged
<1>2. CASE \E r \in Packaged : b = WithProfile(r)
  <2>1. PICK r \in Packaged : b = WithProfile(r)
    BY <1>2
  <2> DEFINE ops == r.operations
             all == [o \in DOMAIN ops \cup DOMAIN ProfileOperations |->
                       IF o \in DOMAIN ops THEN ops[o] ELSE ProfileOperations[o]]
  <2>2. b.operations = all
    <3>1. r \in [operations : OpsVersions, external : Externals]
      BY DEF Packaged
    <3>2. b = [r EXCEPT !.operations = all]
      BY <2>1 DEF WithProfile
    <3> HIDE DEF all
    <3> QED BY <3>1, <3>2
  <2>3. ops \in OpsVersions
    BY DEF Packaged
  <2> QED BY <2>2, <2>3, OperationsAssumption
<1> QED BY <1>1, <1>2 DEF Bundles

LEMMA LoadedIsAVersion ==
    ASSUME TypeOK
    PROVE  /\ Loaded \in OpsVersions /\ Loaded # NotLoaded /\ Loaded \in Judgements
           /\ cache # NotLoaded => Loaded = cache
BY FilesAreABundle, VersionIsABundle, MarkersAssumption DEF TypeOK, Loaded

---------------------------------------------------------------------------
(* How an evaluation's record changes *)

LEMMA NoJobHasFields == DOMAIN NoJob = Fields
BY DEF NoJob, Fields

LEMMA Continued ==
    ASSUME NEW c \in Contexts, NEW pc, NEW fields, DOMAIN job = Contexts,
           Continue(c, pc, fields)
    PROVE  /\ DOMAIN job' = Contexts
           /\ \A k \in Contexts \ {c} : job'[k] = job[k]
           /\ DOMAIN job'[c] = Fields
           /\ job'[c].pc = pc
           /\ \A f \in Fields \ {"pc"} :
                job'[c][f] = IF f \in DOMAIN fields THEN fields[f] ELSE job[c][f]
<1> DEFINE j == [f \in Fields |-> IF f = "pc" THEN pc
                  ELSE IF f \in DOMAIN fields THEN fields[f] ELSE job[c][f]]
<1>1. job' = [job EXCEPT ![c] = j]
  BY NoJobHasFields DEF Continue
<1>2. job'[c] = j /\ DOMAIN job' = Contexts /\ \A k \in Contexts \ {c} : job'[k] = job[k]
  BY <1>1
<1>3. "pc" \in Fields
  BY DEF Fields
<1> QED BY <1>2, <1>3

LEMMA Begun ==
    ASSUME NEW c \in Contexts, NEW pc, NEW fields, DOMAIN job = Contexts,
           Begin(c, fields, pc)
    PROVE  /\ DOMAIN job' = Contexts
           /\ \A k \in Contexts \ {c} : job'[k] = job[k]
           /\ DOMAIN job'[c] = Fields
           /\ job'[c].pc = pc
           /\ \A f \in Fields \ {"pc"} :
                job'[c][f] = IF f \in DOMAIN fields THEN fields[f] ELSE NoJob[f]
<1> DEFINE j == [f \in Fields |-> IF f = "pc" THEN pc
                  ELSE IF f \in DOMAIN fields THEN fields[f] ELSE NoJob[f]]
<1>1. job' = [job EXCEPT ![c] = j]
  BY NoJobHasFields DEF Begin
<1>2. job'[c] = j /\ DOMAIN job' = Contexts /\ \A k \in Contexts \ {c} : job'[k] = job[k]
  BY <1>1
<1>3. "pc" \in Fields
  BY DEF Fields
<1> QED BY <1>2, <1>3

LEMMA Ended ==
    ASSUME NEW c \in Contexts, DOMAIN job = Contexts, Quit(c)
    PROVE  /\ DOMAIN job' = Contexts
           /\ \A k \in Contexts \ {c} : job'[k] = job[k]
           /\ job'[c] = NoJob
BY DEF Quit

LEMMA NoJobIsNothing ==
    /\ NoJob.pc = "idle" /\ NoJob.mode = None /\ NoJob.source = None
    /\ NoJob.target = None /\ NoJob.before = None /\ NoJob.receipt = None
    /\ NoJob.draft = None /\ NoJob.judged = None /\ NoJob.status = None
    /\ NoJob.bound = None /\ NoJob.runtime = None
BY DEF NoJob

LEMMA NoJobIsTyped == JobIsTyped(NoJob)
BY NoJobIsNothing DEF JobIsTyped, Optional

---------------------------------------------------------------------------
(* What each step makes of the record *)

LEMMA Started ==
    ASSUME TypeOK, NEW c \in Contexts,
           StartIssue(c) \/ StartExact(c) \/ StartCurrent(c) \/ StartMigrated(c)
    PROVE  /\ jobs < MaxJobs /\ jobs' = jobs + 1 /\ report' = None
           /\ UNCHANGED <<files, cache, active, frame, draftFile, receiptFile, changes>>
           /\ DOMAIN job' = Contexts
           /\ \A k \in Contexts \ {c} : job'[k] = job[k]
           /\ DOMAIN job'[c] = Fields
           /\ job'[c].receipt = None /\ job'[c].draft = None /\ job'[c].judged = None
           /\ job'[c].status = None /\ job'[c].bound = None /\ job'[c].runtime = None
           /\ job'[c].source \in Optional(Snapshots)
           /\ \/ /\ job'[c].mode = "issue" /\ job'[c].pc = "load"
                 /\ job'[c].target = None /\ job'[c].before = None
              \/ /\ job'[c].mode \in {"exact", "current", "migrated"}
                 /\ job'[c].pc = "receipt" /\ job'[c].before = receiptFile
                 /\ IF job'[c].mode = "migrated" THEN job'[c].target \in Snapshots
                                                 ELSE job'[c].target = None
<1>1. DOMAIN job = Contexts
  BY DEF TypeOK
<1>2. CASE StartIssue(c)
  <2> DEFINE fields == [mode |-> "issue"]
  <2>1. Begin(c, fields, "load")
    BY <1>2 DEF StartIssue
  <2>2. DOMAIN fields = {"mode"} /\ fields["mode"] = "issue"
    OBVIOUS
  <2> HIDE DEF fields
  <2> QED BY <1>1, <2>1, <2>2, Begun, NoJobIsNothing DEF Begin, Fields, Optional
<1>3. CASE StartExact(c)
  <2> DEFINE fields == [mode |-> "exact", before |-> receiptFile]
  <2>1. Begin(c, fields, "receipt")
    BY <1>3 DEF StartExact
  <2>2. /\ DOMAIN fields = {"mode", "before"}
        /\ fields["mode"] = "exact" /\ fields["before"] = receiptFile
    OBVIOUS
  <2> HIDE DEF fields
  <2> QED BY <1>1, <2>1, <2>2, Begun, NoJobIsNothing DEF Begin, Fields, Optional
<1>4. CASE StartCurrent(c)
  <2>1. PICK s \in Optional(Snapshots) :
          Begin(c, [mode |-> "current", source |-> s, before |-> receiptFile], "receipt")
    BY <1>4 DEF StartCurrent
  <2> DEFINE fields == [mode |-> "current", source |-> s, before |-> receiptFile]
  <2>2. /\ DOMAIN fields = {"mode", "source", "before"}
        /\ fields["mode"] = "current" /\ fields["source"] = s
        /\ fields["before"] = receiptFile
    OBVIOUS
  <2>3. Begin(c, fields, "receipt")
    BY <2>1
  <2> HIDE DEF fields
  <2>4. /\ job'[c].mode = "current" /\ job'[c].source = s /\ job'[c].before = receiptFile
        /\ job'[c].target = None /\ job'[c].receipt = None /\ job'[c].draft = None
        /\ job'[c].judged = None /\ job'[c].status = None /\ job'[c].bound = None
        /\ job'[c].runtime = None /\ job'[c].pc = "receipt"
        /\ DOMAIN job' = Contexts /\ DOMAIN job'[c] = Fields
        /\ \A k \in Contexts \ {c} : job'[k] = job[k]
    BY <1>1, <2>2, <2>3, Begun, NoJobIsNothing DEF Fields
  <2> QED BY <2>3, <2>4 DEF Begin
<1>5. CASE StartMigrated(c)
  <2>1. PICK s \in Snapshots, t \in Snapshots, r \in Records, accept \in BOOLEAN :
          Begin(c, [mode |-> "migrated", source |-> s, target |-> t, record |-> r,
                    accept |-> accept, before |-> receiptFile], "receipt")
    BY <1>5 DEF StartMigrated
  <2> DEFINE fields == [mode |-> "migrated", source |-> s, target |-> t, record |-> r,
                        accept |-> accept, before |-> receiptFile]
  <2>2. /\ DOMAIN fields = {"mode", "source", "target", "record", "accept", "before"}
        /\ fields["mode"] = "migrated" /\ fields["source"] = s /\ fields["target"] = t
        /\ fields["before"] = receiptFile
    OBVIOUS
  <2>3. Begin(c, fields, "receipt")
    BY <2>1
  <2> HIDE DEF fields
  <2> QED BY <1>1, <2>2, <2>3, Begun, NoJobIsNothing DEF Begin, Fields, Optional
<1> QED BY <1>2, <1>3, <1>4, <1>5

(* The fields that a step leaves as they were.                             *)
Same(j, before, changed) == \A f \in Fields \ ({"pc"} \cup changed) : j[f] = before[f]

LEMMA ContinuedWith ==
    ASSUME NEW c \in Contexts, NEW pc, NEW fields, DOMAIN job = Contexts,
           Continue(c, pc, fields)
    PROVE  /\ DOMAIN job' = Contexts
           /\ \A k \in Contexts \ {c} : job'[k] = job[k]
           /\ DOMAIN job'[c] = Fields /\ job'[c].pc = pc
           /\ Same(job'[c], job[c], DOMAIN fields)
           /\ \A f \in DOMAIN fields \cap (Fields \ {"pc"}) : job'[c][f] = fields[f]
BY Continued DEF Same

LEMMA ReceiptRead ==
    ASSUME NEW c \in Contexts, DOMAIN job = Contexts, NEW x,
           Continue(c, "load", [receipt |-> x])
    PROVE  /\ DOMAIN job' = Contexts
           /\ \A k \in Contexts \ {c} : job'[k] = job[k]
           /\ DOMAIN job'[c] = Fields /\ job'[c].pc = "load"
           /\ Same(job'[c], job[c], {"receipt"})
           /\ job'[c].receipt = x
<1> DEFINE fields == [receipt |-> x]
<1>1. DOMAIN fields = {"receipt"} /\ fields["receipt"] = x
  OBVIOUS
<1>2. Continue(c, "load", fields)
  OBVIOUS
<1> HIDE DEF fields
<1> QED BY <1>1, <1>2, ContinuedWith DEF Fields

LEMMA JudgementMade ==
    ASSUME NEW c \in Contexts, DOMAIN job = Contexts, NEW d, NEW ops, NEW status,
           Continue(c, "bind", [draft |-> d, judged |-> ops, status |-> status])
    PROVE  /\ DOMAIN job' = Contexts
           /\ \A k \in Contexts \ {c} : job'[k] = job[k]
           /\ DOMAIN job'[c] = Fields /\ job'[c].pc = "bind"
           /\ Same(job'[c], job[c], {"draft", "judged", "status"})
           /\ job'[c].draft = d /\ job'[c].judged = ops /\ job'[c].status = status
<1> DEFINE fields == [draft |-> d, judged |-> ops, status |-> status]
<1>1. /\ DOMAIN fields = {"draft", "judged", "status"}
      /\ fields["draft"] = d /\ fields["judged"] = ops /\ fields["status"] = status
  OBVIOUS
<1>2. Continue(c, "bind", fields)
  OBVIOUS
<1> HIDE DEF fields
<1> QED BY <1>1, <1>2, ContinuedWith DEF Fields

LEMMA SnapshotBound ==
    ASSUME NEW c \in Contexts, DOMAIN job = Contexts, NEW pc, NEW x,
           Continue(c, pc, [bound |-> x])
    PROVE  /\ DOMAIN job' = Contexts
           /\ \A k \in Contexts \ {c} : job'[k] = job[k]
           /\ DOMAIN job'[c] = Fields /\ job'[c].pc = pc
           /\ Same(job'[c], job[c], {"bound"})
           /\ job'[c].bound = x
<1> DEFINE fields == [bound |-> x]
<1>1. DOMAIN fields = {"bound"} /\ fields["bound"] = x
  OBVIOUS
<1>2. Continue(c, pc, fields)
  OBVIOUS
<1> HIDE DEF fields
<1> QED BY <1>1, <1>2, ContinuedWith DEF Fields

LEMMA RuntimeCaptured ==
    ASSUME NEW c \in Contexts, DOMAIN job = Contexts, NEW x,
           Continue(c, "components", [runtime |-> x])
    PROVE  /\ DOMAIN job' = Contexts
           /\ \A k \in Contexts \ {c} : job'[k] = job[k]
           /\ DOMAIN job'[c] = Fields /\ job'[c].pc = "components"
           /\ Same(job'[c], job[c], {"runtime"})
           /\ job'[c].runtime = x
<1> DEFINE fields == [runtime |-> x]
<1>1. DOMAIN fields = {"runtime"} /\ fields["runtime"] = x
  OBVIOUS
<1>2. Continue(c, "components", fields)
  OBVIOUS
<1> HIDE DEF fields
<1> QED BY <1>1, <1>2, ContinuedWith DEF Fields

LEMMA CaptureEnded ==
    ASSUME NEW c \in Contexts, DOMAIN job = Contexts, Continue(c, "finish", <<>>)
    PROVE  /\ DOMAIN job' = Contexts
           /\ \A k \in Contexts \ {c} : job'[k] = job[k]
           /\ DOMAIN job'[c] = Fields /\ job'[c].pc = "finish"
           /\ Same(job'[c], job[c], {})
<1> DEFINE fields == <<>>
<1>1. DOMAIN fields = {}
  OBVIOUS
<1>2. Continue(c, "finish", fields)
  OBVIOUS
<1> HIDE DEF fields
<1> QED BY <1>1, <1>2, ContinuedWith

---------------------------------------------------------------------------
(* Type correctness *)

(* A step that changes nothing but the evaluation of c, what is in force   *)
(* there, and the cache.                                                   *)
LEMMA TypesStay ==
    ASSUME TypeOK, NEW c \in Contexts,
           UNCHANGED <<files, draftFile, changes>>,
           receiptFile' \in Receipts, jobs' \in 0 .. MaxJobs,
           cache' \in {cache, Loaded},
           active' \in [Contexts -> Optional(Bundles)],
           frame' \in [Contexts -> Optional(Bundles)],
           DOMAIN job' = Contexts, JobIsTyped(job'[c]),
           \A k \in Contexts \ {c} : job'[k] = job[k]
    PROVE  TypeOK'
<1>1. \A k \in Contexts : JobIsTyped(job'[k])
  BY DEF TypeOK
<1>2. (\A k \in Contexts : JobIsTyped(job[k]))'
  BY <1>1
<1>3. cache' \in {NotLoaded} \cup OpsVersions
  BY LoadedIsAVersion DEF TypeOK
<1> QED BY <1>2, <1>3 DEF TypeOK

LEMMA EnterIsTyped ==
    ASSUME TypeOK, NEW c \in Contexts, NEW b \in Bundles, Enter(c, b)
    PROVE  /\ active' \in [Contexts -> Optional(Bundles)]
           /\ frame' \in [Contexts -> Optional(Bundles)]
           /\ active'[c] = b /\ frame'[c] = b
           /\ \A k \in Contexts \ {c} : active'[k] = active[k]
           /\ frame = active => frame' = active'
<1>1. b \in Optional(Bundles)
  BY DEF Optional
<1> QED BY <1>1 DEF Enter, InContext, TypeOK

LEMMA LeaveIsTyped ==
    ASSUME TypeOK, NEW c \in Contexts, Leave(c)
    PROVE  /\ active' \in [Contexts -> Optional(Bundles)]
           /\ frame' \in [Contexts -> Optional(Bundles)]
           /\ active'[c] = None /\ frame'[c] = None
           /\ \A k \in Contexts \ {c} : active'[k] = active[k]
           /\ frame = active => frame' = active'
<1>1. None \in Optional(Bundles)
  BY DEF Optional
<1> QED BY <1>1 DEF Leave, InContext, TypeOK

LEMMA SnapshotIsABundle ==
    ASSUME TypeOK, NEW c \in Contexts PROVE Snapshot(c) \in Bundles
BY FilesAreABundle DEF TypeOK, Optional, Snapshot

---------------------------------------------------------------------------
(* The steps *)

(* What is kept of an evaluation through the steps of others.              *)
LEMMA OthersAreKept ==
    ASSUME TypeOK, NEW k \in Contexts, Kept(k),
           job'[k] = job[k], active'[k] = active[k], cache' \in {cache, Loaded},
           jobs' \in Nat, jobs' >= jobs,
           receiptFile' = receiptFile \/ (receiptFile' \in Receipts /\ receiptFile'.serial = jobs)
    PROVE  Kept(k)'
<1> DEFINE j == job[k]
<1>1. ModeFits(job'[k]) /\ Captured(job'[k])
  BY DEF Kept
<1>2. JudgementStands(job'[k], active'[k], cache')
  BY LoadedIsAVersion DEF Kept, JudgementStands
<1>3. ReadTwice(job'[k], receiptFile', jobs')
  <2>1. ASSUME j.pc # "idle", j.mode # "issue"
        PROVE  /\ j.before.serial < jobs' /\ j.before.serial \in Nat
               /\ j.before \in Receipts
    <3>1. j.before \in Receipts /\ j.before.serial < jobs /\ jobs \in Nat
      BY <2>1, BoundsAssumption DEF Kept, ReadTwice, TypeOK
    <3>2. j.before.serial \in Nat
      BY <3>1, BoundsAssumption DEF Receipts
    <3> QED BY <3>1, <3>2
  <2>2. ASSUME j.pc # "idle", j.mode # "issue", receiptFile' = j.before
        PROVE  receiptFile = j.before
    <3>1. j.before.serial < jobs /\ jobs \in Nat
      BY <2>2, BoundsAssumption DEF Kept, ReadTwice, TypeOK
    <3> QED BY <2>1, <2>2, <3>1
  <2> QED BY <2>1, <2>2 DEF Kept, ReadTwice
<1> QED BY <1>1, <1>2, <1>3 DEF Kept

LEMMA StartKeeps ==
    ASSUME IInv, NEW c \in Contexts,
           StartIssue(c) \/ StartExact(c) \/ StartCurrent(c) \/ StartMigrated(c)
    PROVE  IInv'
<1>1. TypeOK /\ Kept(c)
  BY DEF IInv
<1> DEFINE j == job'[c]
<1>2. /\ jobs < MaxJobs /\ jobs' = jobs + 1 /\ report' = None
      /\ UNCHANGED <<files, cache, active, frame, draftFile, receiptFile, changes>>
      /\ DOMAIN job' = Contexts
      /\ \A k \in Contexts \ {c} : job'[k] = job[k]
      /\ DOMAIN j = Fields
      /\ j.receipt = None /\ j.draft = None /\ j.judged = None
      /\ j.status = None /\ j.bound = None /\ j.runtime = None
      /\ j.source \in Optional(Snapshots)
      /\ \/ j.mode = "issue" /\ j.pc = "load" /\ j.target = None /\ j.before = None
         \/ /\ j.mode \in {"exact", "current", "migrated"}
            /\ j.pc = "receipt" /\ j.before = receiptFile
            /\ IF j.mode = "migrated" THEN j.target \in Snapshots ELSE j.target = None
  BY <1>1, Started
<1> HIDE DEF j
<1>3. jobs \in Nat /\ jobs' \in 0 .. MaxJobs /\ jobs' \in Nat /\ jobs' >= jobs
  BY <1>1, <1>2, BoundsAssumption DEF TypeOK
<1>4. receiptFile \in Receipts /\ receiptFile.serial \in Nat /\ receiptFile.serial < jobs'
  BY <1>1, <1>2, <1>3, BoundsAssumption DEF IInv, TypeOK, Receipts
<1>5. JobIsTyped(j)
  BY <1>2, <1>4, NoJobHasFields DEF JobIsTyped, Optional
<1>6. TypeOK'
  BY <1>1, <1>2, <1>3, <1>4, <1>5, TypesStay DEF TypeOK, j
<1>7. Kept(c)'
  <2>1. ModeFits(j) /\ Captured(j)
    BY <1>2 DEF ModeFits, Captured, Modes
  <2>2. JudgementStands(j, active'[c], cache')
    BY <1>2 DEF JudgementStands
  <2>3. ReadTwice(j, receiptFile', jobs')
    BY <1>2, <1>4 DEF ReadTwice
  <2> QED BY <2>1, <2>2, <2>3 DEF Kept, j
<1>8. \A k \in Contexts \ {c} : Kept(k)'
  BY <1>1, <1>2, <1>3, OthersAreKept DEF IInv
<1>9. frame' = active' /\ receiptFile'.serial <= jobs' /\ Sound(receiptFile)'
  BY <1>2, <1>3, <1>4 DEF IInv, Sound
<1> QED BY <1>2, <1>6, <1>7, <1>8, <1>9 DEF IInv, ReportHolds

(* Nothing is asked of a context that is in no evaluation.                 *)
LEMMA IdleIsKept ==
    ASSUME NEW c, job'[c] = NoJob PROVE Kept(c)' /\ JobIsTyped(job'[c])
<1>1. JobIsTyped(job'[c])
  BY NoJobIsTyped
<1>2. NoJob.pc = "idle"
  BY NoJobIsNothing
<1> HIDE DEF NoJob
<1> QED BY <1>1, <1>2 DEF Kept, ModeFits, JudgementStands, Captured, ReadTwice

LEMMA ReadReceiptKeeps ==
    ASSUME IInv, NEW c \in Contexts, ReadReceipt(c) PROVE IInv'
<1> DEFINE j == job[c]
           i == job'[c]
<1>1. TypeOK /\ Kept(c) /\ DOMAIN job = Contexts /\ JobIsTyped(j) /\ j.pc = "receipt"
  BY DEF IInv, TypeOK, ReadReceipt
<1>2. UNCHANGED <<files, cache, draftFile, receiptFile, report, jobs, changes>>
  BY DEF ReadReceipt
<1>3. /\ receiptFile \in Receipts /\ receiptFile' \in Receipts /\ Sound(receiptFile)
      /\ jobs \in Nat /\ jobs' \in 0 .. MaxJobs /\ jobs' \in Nat /\ jobs' >= jobs
  BY <1>1, <1>2, BoundsAssumption DEF IInv, TypeOK
<1>4. /\ active' \in [Contexts -> Optional(Bundles)]
      /\ frame' \in [Contexts -> Optional(Bundles)]
      /\ frame' = active'
      /\ \A k \in Contexts \ {c} : active'[k] = active[k]
      /\ DOMAIN job' = Contexts
      /\ \A k \in Contexts \ {c} : job'[k] = job[k]
      /\ \/ i = NoJob
         \/ /\ DOMAIN i = Fields /\ i.pc = "load" /\ Same(i, j, {"receipt"})
            /\ i.receipt = receiptFile
            /\ j.mode = "migrated" => active'[c] = j.target
  <2>1. CASE j.mode # "migrated" /\ Continue(c, "load", [receipt |-> receiptFile])
                /\ UNCHANGED <<active, frame>>
    BY <1>1, <2>1, ReceiptRead DEF IInv, TypeOK
  <2>2. CASE j.mode = "migrated" /\ Continue(c, "load", [receipt |-> receiptFile])
                /\ Enter(c, j.target)
    <3>1. j.target \in Bundles
      BY <1>1, <2>2, SnapshotsAssumption DEF Kept, ModeFits
    <3> QED BY <1>1, <2>2, <3>1, ReceiptRead, EnterIsTyped DEF IInv
  <2>3. CASE Quit(c) /\ UNCHANGED <<active, frame>>
    BY <1>1, <2>3, Ended DEF IInv, TypeOK
  <2> QED BY <2>1, <2>2, <2>3 DEF ReadReceipt
<1>5. JobIsTyped(i) /\ Kept(c)'
  <2>1. CASE i = NoJob
    BY <2>1, IdleIsKept
  <2>2. CASE /\ DOMAIN i = Fields /\ i.pc = "load" /\ Same(i, j, {"receipt"})
             /\ i.receipt = receiptFile
             /\ j.mode = "migrated" => active'[c] = j.target
    <3>1. /\ i.mode = j.mode /\ i.source = j.source /\ i.target = j.target
          /\ i.before = j.before /\ i.draft = j.draft /\ i.status = j.status
          /\ i.judged = j.judged /\ i.bound = j.bound /\ i.runtime = j.runtime
      BY <2>2 DEF Same, Fields
    <3> HIDE DEF i
    <3>2. JobIsTyped(i)
      BY <1>1, <1>3, <2>2, <3>1, NoJobHasFields DEF JobIsTyped, Optional
    <3>3. ModeFits(i) /\ JudgementStands(i, active'[c], cache') /\ Captured(i)
      BY <1>1, <2>2, <3>1 DEF Kept, ModeFits, JudgementStands, Captured
    <3>4. ReadTwice(i, receiptFile', jobs')
      BY <1>1, <1>2, <1>3, <2>2, <3>1 DEF Kept, ReadTwice
    <3> QED BY <3>2, <3>3, <3>4 DEF Kept, i
  <2> QED BY <1>4, <2>1, <2>2
<1>6. TypeOK'
  BY <1>1, <1>2, <1>3, <1>4, <1>5, TypesStay
<1>7. \A k \in Contexts \ {c} : Kept(k)'
  BY <1>1, <1>2, <1>3, <1>4, OthersAreKept DEF IInv
<1> QED BY <1>2, <1>4, <1>5, <1>6, <1>7 DEF IInv, Sound, ReportHolds

LEMMA JudgeKeeps ==
    ASSUME IInv, NEW c \in Contexts, Judge(c) PROVE IInv'
<1> DEFINE j == job[c]
           i == job'[c]
           ops == IF active[c] # None THEN active[c].operations ELSE Loaded
<1>1. TypeOK /\ Kept(c) /\ DOMAIN job = Contexts /\ JobIsTyped(j) /\ j.pc = "load"
  BY DEF IInv, TypeOK, Judge
<1>2. /\ UNCHANGED <<files, active, frame, draftFile, receiptFile, report, jobs, changes>>
      /\ cache' \in {cache, Loaded}
      /\ active[c] = None => cache' = Loaded
      /\ Continue(c, "bind", [draft |-> draftFile, judged |-> ops,
                              status |-> Verdict(ops, draftFile)])
  BY DEF Judge
<1>3. /\ receiptFile' \in Receipts /\ draftFile \in Drafts /\ Loaded # NotLoaded
      /\ jobs \in Nat /\ jobs' \in 0 .. MaxJobs /\ jobs' \in Nat /\ jobs' >= jobs
  BY <1>1, <1>2, LoadedIsAVersion, BoundsAssumption DEF TypeOK
<1>4. ops \in Judgements
  BY <1>1, LoadedIsAVersion DEF TypeOK, Optional, Judgements
<1>5. active[c] # None => ops = active[c].operations
  OBVIOUS
<1>6. active[c] = None => ops = Loaded
  OBVIOUS
<1> HIDE DEF ops
<1>7. /\ DOMAIN job' = Contexts
      /\ \A k \in Contexts \ {c} : job'[k] = job[k]
      /\ DOMAIN i = Fields /\ i.pc = "bind" /\ Same(i, j, {"draft", "judged", "status"})
      /\ i.draft = draftFile /\ i.judged = ops /\ i.status = Verdict(ops, draftFile)
  BY <1>1, <1>2, JudgementMade
<1>8. /\ i.mode = j.mode /\ i.source = j.source /\ i.target = j.target
      /\ i.before = j.before /\ i.receipt = j.receipt
      /\ i.bound = j.bound /\ i.runtime = j.runtime
  BY <1>7 DEF Same, Fields
<1>9. JobIsTyped(i) /\ Kept(c)'
  <2> HIDE DEF i
  <2>1. JobIsTyped(i)
    BY <1>1, <1>3, <1>4, <1>7, <1>8, NoJobHasFields, VerdictIsAStatus DEF JobIsTyped, Optional
  <2>2. ModeFits(i) /\ Captured(i)
    BY <1>1, <1>7, <1>8 DEF Kept, ModeFits, Captured
  <2>3. JudgementStands(i, active'[c], cache')
    BY <1>1, <1>2, <1>3, <1>4, <1>5, <1>6, <1>7, <1>8 DEF Kept, JudgementStands
  <2>4. ReadTwice(i, receiptFile', jobs')
    BY <1>1, <1>2, <1>7, <1>8 DEF Kept, ReadTwice
  <2> QED BY <2>1, <2>2, <2>3, <2>4 DEF Kept, i
<1>10. TypeOK'
  <2>1. /\ active' \in [Contexts -> Optional(Bundles)]
        /\ frame' \in [Contexts -> Optional(Bundles)]
    BY <1>1, <1>2 DEF TypeOK
  <2> QED BY <1>1, <1>2, <1>3, <1>7, <1>9, <2>1, TypesStay
<1>11. \A k \in Contexts \ {c} : Kept(k)'
  BY <1>1, <1>2, <1>3, <1>7, OthersAreKept DEF IInv
<1> QED BY <1>2, <1>9, <1>10, <1>11 DEF IInv, Sound, ReportHolds

LEMMA BindKeeps ==
    ASSUME IInv, NEW c \in Contexts, Bind(c) PROVE IInv'
<1> DEFINE j == job[c]
           i == job'[c]
           pc == IF j.mode = "issue" THEN "write"
                 ELSE IF j.mode = "exact" THEN "finish" ELSE "runtime"
<1>1. TypeOK /\ Kept(c) /\ DOMAIN job = Contexts /\ JobIsTyped(j) /\ j.pc = "bind"
  BY DEF IInv, TypeOK, Bind
<1>2. /\ UNCHANGED <<files, cache, active, frame, draftFile, receiptFile, report, jobs, changes>>
      /\ Continue(c, pc, [bound |-> Snapshot(c)])
  BY DEF Bind
<1>3. /\ Snapshot(c) \in Bundles /\ receiptFile' \in Receipts
      /\ jobs \in Nat /\ jobs' \in 0 .. MaxJobs /\ jobs' \in Nat /\ jobs' >= jobs
  BY <1>1, <1>2, SnapshotIsABundle, BoundsAssumption DEF TypeOK
<1>4. /\ DOMAIN job' = Contexts
      /\ \A k \in Contexts \ {c} : job'[k] = job[k]
      /\ DOMAIN i = Fields /\ i.pc = pc /\ Same(i, j, {"bound"}) /\ i.bound = Snapshot(c)
  BY <1>1, <1>2, SnapshotBound
<1>5. /\ i.mode = j.mode /\ i.source = j.source /\ i.target = j.target
      /\ i.before = j.before /\ i.receipt = j.receipt /\ i.draft = j.draft
      /\ i.judged = j.judged /\ i.status = j.status /\ i.runtime = j.runtime
  BY <1>4 DEF Same, Fields
<1>6. /\ j.mode \in Modes
      /\ pc \in {"write", "finish", "runtime"}
      /\ pc = "write" => j.mode = "issue"
      /\ pc = "runtime" => j.mode \in {"current", "migrated"}
      /\ pc = "finish" => j.mode = "exact"
  BY <1>1 DEF Kept, ModeFits, Modes
<1>7. JobIsTyped(i) /\ Kept(c)'
  <2> HIDE DEF i, pc
  <2>1. JobIsTyped(i)
    BY <1>1, <1>3, <1>4, <1>5, <1>6, NoJobHasFields DEF JobIsTyped, Optional
  <2>2. ModeFits(i) /\ Captured(i)
    BY <1>1, <1>3, <1>4, <1>5, <1>6 DEF Kept, ModeFits, Captured
  <2>3. JudgementStands(i, active'[c], cache')
    BY <1>1, <1>2, <1>4, <1>5, <1>6 DEF Kept, JudgementStands
  <2>4. ReadTwice(i, receiptFile', jobs')
    BY <1>1, <1>2, <1>4, <1>5, <1>6 DEF Kept, ReadTwice
  <2> QED BY <2>1, <2>2, <2>3, <2>4 DEF Kept, i
<1>8. TypeOK'
  <2>1. /\ active' \in [Contexts -> Optional(Bundles)]
        /\ frame' \in [Contexts -> Optional(Bundles)]
    BY <1>1, <1>2 DEF TypeOK
  <2> QED BY <1>1, <1>2, <1>3, <1>4, <1>7, <2>1, TypesStay
<1>9. \A k \in Contexts \ {c} : Kept(k)'
  BY <1>1, <1>2, <1>3, <1>4, OthersAreKept DEF IInv
<1> QED BY <1>2, <1>7, <1>8, <1>9 DEF IInv, Sound, ReportHolds

LEMMA WriteReceiptKeeps ==
    ASSUME IInv, NEW c \in Contexts, WriteReceipt(c) PROVE IInv'
<1> DEFINE j == job[c]
           r == NewReceipt(c)
<1>1. TypeOK /\ Kept(c) /\ DOMAIN job = Contexts /\ JobIsTyped(j) /\ j.pc = "write"
  BY DEF IInv, TypeOK, WriteReceipt
<1>2. /\ UNCHANGED <<files, cache, active, frame, draftFile, report, jobs, changes>>
      /\ receiptFile' = r /\ Quit(c)
  BY DEF WriteReceipt
<1>3. /\ jobs \in Nat /\ jobs \in 0 .. MaxJobs /\ jobs' \in 0 .. MaxJobs
      /\ jobs' \in Nat /\ jobs' >= jobs
  BY <1>1, <1>2, BoundsAssumption DEF TypeOK
<1>4. /\ j.draft \in Drafts /\ j.judged \in Judgements /\ j.bound \in Bundles
      /\ j.status = Verdict(j.judged, j.draft) /\ j.status \in Statuses
  BY <1>1, VerdictIsAStatus DEF Kept, JudgementStands, Captured
<1>5. r \in Receipts /\ r.serial = jobs /\ Sound(r)
  BY <1>3, <1>4 DEF NewReceipt, Receipts, Sound
<1> HIDE DEF r
<1>6. /\ DOMAIN job' = Contexts /\ job'[c] = NoJob
      /\ \A k \in Contexts \ {c} : job'[k] = job[k]
  BY <1>1, <1>2, Ended
<1>7. JobIsTyped(job'[c]) /\ Kept(c)'
  BY <1>6, IdleIsKept
<1>8. TypeOK'
  <2>1. /\ active' \in [Contexts -> Optional(Bundles)]
        /\ frame' \in [Contexts -> Optional(Bundles)]
    BY <1>1, <1>2 DEF TypeOK
  <2> QED BY <1>1, <1>2, <1>3, <1>5, <1>6, <1>7, <2>1, TypesStay
<1>9. \A k \in Contexts \ {c} : Kept(k)'
  BY <1>1, <1>2, <1>3, <1>5, <1>6, OthersAreKept DEF IInv
<1>10. receiptFile'.serial <= jobs' /\ Sound(receiptFile)'
  BY <1>2, <1>3, <1>5 DEF Sound
<1> QED BY <1>2, <1>7, <1>8, <1>9, <1>10 DEF IInv, ReportHolds

LEMMA CaptureRuntimeKeeps ==
    ASSUME IInv, NEW c \in Contexts, CaptureRuntime(c) PROVE IInv'
<1> DEFINE j == job[c]
           i == job'[c]
<1>1. TypeOK /\ Kept(c) /\ DOMAIN job = Contexts /\ JobIsTyped(j) /\ j.pc = "runtime"
  BY DEF IInv, TypeOK, CaptureRuntime
<1>2. /\ UNCHANGED <<files, cache, active, frame, draftFile, receiptFile, report, jobs, changes>>
      /\ Continue(c, "components", [runtime |-> Snapshot(c)])
  BY DEF CaptureRuntime
<1>3. /\ Snapshot(c) \in Bundles /\ receiptFile' \in Receipts
      /\ jobs \in Nat /\ jobs' \in 0 .. MaxJobs /\ jobs' \in Nat /\ jobs' >= jobs
  BY <1>1, <1>2, SnapshotIsABundle, BoundsAssumption DEF TypeOK
<1>4. /\ DOMAIN job' = Contexts
      /\ \A k \in Contexts \ {c} : job'[k] = job[k]
      /\ DOMAIN i = Fields /\ i.pc = "components" /\ Same(i, j, {"runtime"})
      /\ i.runtime = Snapshot(c)
  BY <1>1, <1>2, RuntimeCaptured
<1>5. /\ i.mode = j.mode /\ i.source = j.source /\ i.target = j.target
      /\ i.before = j.before /\ i.receipt = j.receipt /\ i.draft = j.draft
      /\ i.judged = j.judged /\ i.status = j.status /\ i.bound = j.bound
  BY <1>4 DEF Same, Fields
<1>6. JobIsTyped(i) /\ Kept(c)'
  <2> HIDE DEF i
  <2>1. JobIsTyped(i)
    BY <1>1, <1>3, <1>4, <1>5, NoJobHasFields DEF JobIsTyped, Optional
  <2>2. ModeFits(i) /\ Captured(i)
    BY <1>1, <1>3, <1>4, <1>5 DEF Kept, ModeFits, Captured
  <2>3. JudgementStands(i, active'[c], cache')
    BY <1>1, <1>2, <1>4, <1>5 DEF Kept, JudgementStands
  <2>4. ReadTwice(i, receiptFile', jobs')
    BY <1>1, <1>2, <1>4, <1>5 DEF Kept, ReadTwice
  <2> QED BY <2>1, <2>2, <2>3, <2>4 DEF Kept, i
<1>7. TypeOK'
  <2>1. /\ active' \in [Contexts -> Optional(Bundles)]
        /\ frame' \in [Contexts -> Optional(Bundles)]
    BY <1>1, <1>2 DEF TypeOK
  <2> QED BY <1>1, <1>2, <1>3, <1>4, <1>6, <2>1, TypesStay
<1>8. \A k \in Contexts \ {c} : Kept(k)'
  BY <1>1, <1>2, <1>3, <1>4, OthersAreKept DEF IInv
<1> QED BY <1>2, <1>6, <1>7, <1>8 DEF IInv, Sound, ReportHolds

LEMMA CaptureComponentsKeeps ==
    ASSUME IInv, NEW c \in Contexts, CaptureComponents(c) PROVE IInv'
<1> DEFINE j == job[c]
           i == job'[c]
<1>1. TypeOK /\ Kept(c) /\ DOMAIN job = Contexts /\ JobIsTyped(j) /\ j.pc = "components"
  BY DEF IInv, TypeOK, CaptureComponents
<1>2. UNCHANGED <<files, cache, draftFile, receiptFile, report, jobs, changes>>
  BY DEF CaptureComponents
<1>3. /\ receiptFile' \in Receipts
      /\ jobs \in Nat /\ jobs' \in 0 .. MaxJobs /\ jobs' \in Nat /\ jobs' >= jobs
  BY <1>1, <1>2, BoundsAssumption DEF TypeOK
<1>4. /\ active' \in [Contexts -> Optional(Bundles)]
      /\ frame' \in [Contexts -> Optional(Bundles)]
      /\ frame' = active'
      /\ \A k \in Contexts \ {c} : active'[k] = active[k]
  <2>1. CASE Leave(c)
    BY <1>1, <2>1, LeaveIsTyped DEF IInv
  <2>2. CASE UNCHANGED <<active, frame>>
    BY <2>2 DEF IInv, TypeOK
  <2> QED BY <2>1, <2>2 DEF CaptureComponents
<1>5. /\ DOMAIN job' = Contexts
      /\ \A k \in Contexts \ {c} : job'[k] = job[k]
      /\ JobIsTyped(i) /\ Kept(c)'
  <2>1. CASE Quit(c)
    BY <1>1, <2>1, Ended, IdleIsKept
  <2>2. CASE ComponentsBound(c) /\ Continue(c, "finish", <<>>)
    <3>1. /\ DOMAIN job' = Contexts
          /\ \A k \in Contexts \ {c} : job'[k] = job[k]
          /\ DOMAIN i = Fields /\ i.pc = "finish" /\ Same(i, j, {})
      BY <1>1, <2>2, CaptureEnded
    <3>2. /\ i.mode = j.mode /\ i.source = j.source /\ i.target = j.target
          /\ i.before = j.before /\ i.receipt = j.receipt /\ i.draft = j.draft
          /\ i.judged = j.judged /\ i.status = j.status /\ i.bound = j.bound
          /\ i.runtime = j.runtime
      BY <3>1 DEF Same, Fields
    <3>3. j.runtime.operations = j.judged
      <4>1. j.runtime.operations =
              (IF active[c] # None THEN active[c].operations ELSE Loaded)
        BY <2>2 DEF ComponentsBound, ComponentData
      <4>2. active[c] = None => j.judged = cache /\ cache # NotLoaded
        BY <1>1 DEF Kept, JudgementStands
      <4>3. active[c] # None => j.judged = active[c].operations
        BY <1>1 DEF Kept, JudgementStands
      <4>4. cache # NotLoaded => Loaded = cache
        BY DEF Loaded
      <4> QED BY <4>1, <4>2, <4>3, <4>4
    <3>4. j.mode = "migrated" => j.target.operations = j.judged
      <4>1. ASSUME j.mode = "migrated"
            PROVE  active[c] = j.target /\ j.target \in Bundles
        BY <1>1, <4>1, SnapshotsAssumption DEF Kept, JudgementStands, ModeFits
      <4> QED BY <1>1, <4>1, MarkersAssumption DEF Kept, JudgementStands
    <3> HIDE DEF i
    <3>5. JobIsTyped(i)
      BY <1>1, <3>1, <3>2, NoJobHasFields DEF JobIsTyped
    <3>6. ModeFits(i) /\ Captured(i)
      BY <1>1, <3>1, <3>2, <3>3, <3>4 DEF Kept, ModeFits, Captured
    <3>7. JudgementStands(i, active'[c], cache')
      BY <1>1, <3>1, <3>2 DEF Kept, JudgementStands
    <3>8. ReadTwice(i, receiptFile', jobs')
      BY <1>1, <1>2, <3>1, <3>2 DEF Kept, ReadTwice
    <3> QED BY <3>1, <3>5, <3>6, <3>7, <3>8 DEF Kept, i
  <2> QED BY <2>1, <2>2 DEF CaptureComponents
<1>6. TypeOK'
  BY <1>1, <1>2, <1>3, <1>4, <1>5, TypesStay
<1>7. \A k \in Contexts \ {c} : Kept(k)'
  BY <1>1, <1>2, <1>3, <1>4, <1>5, OthersAreKept DEF IInv
<1> QED BY <1>2, <1>4, <1>5, <1>6, <1>7 DEF IInv, Sound, ReportHolds

(* What a replay that reproduced its receipt leaves in its report.         *)
LEMMA ReportOfAPass ==
    ASSUME IInv, NEW c \in Contexts, job[c].pc = "finish",
           FileUnchanged(c), Reproduced(c)
    PROVE  ReportHolds([job |-> job[c], diff |-> DiffOf(c)])
<1> DEFINE j == job[c]
           to == IF j.target # None THEN j.target ELSE j.runtime
           r == [job |-> j, diff |-> DiffOf(c)]
<1>1. Kept(c) /\ TypeOK
  BY DEF IInv
<1>2. /\ j.receipt \in Receipts /\ Sound(j.receipt) /\ j.receipt = j.before
      /\ j.bound \in Bundles
      /\ j.status = Verdict(j.judged, j.draft)
  BY <1>1 DEF Kept, ReadTwice, ModeFits, Captured, JudgementStands, FileUnchanged
<1>3. j.draft = j.receipt.draft
  BY DEF Reproduced
<1>4. ASSUME j.mode # "exact"
      PROVE  /\ j.bound = to /\ to.operations = j.judged
             /\ j.source # None => j.source = j.receipt.registry
  <2>1. j.bound = to /\ (j.source # None => j.source = j.receipt.registry)
    BY <1>4 DEF Reproduced
  <2>2. to.operations = j.judged
    BY <1>1, <1>4 DEF Kept, Captured, ModeFits
  <2> QED BY <2>1, <2>2
<1>5. ASSUME DiffOf(c) # None
      PROVE  /\ j.mode # "exact"
             /\ DiffOf(c)[1] = j.receipt.registry /\ DiffOf(c)[2] = j.bound
  <2>1. j.mode # "exact"
    BY <1>5 DEF DiffOf
  <2>2. CASE j.source # None
    <3>1. DiffOf(c) = <<j.source, to>>
      BY <2>1, <2>2 DEF DiffOf
    <3> QED BY <1>4, <2>1, <2>2, <3>1
  <2>3. CASE j.source = None
    <3>1. to = j.receipt.registry /\ DiffOf(c) = <<to, to>>
      BY <1>5, <2>1, <2>3 DEF DiffOf
    <3> QED BY <1>4, <2>1, <3>1
  <2> QED BY <2>2, <2>3
<1>6. r.job = j /\ r.diff = DiffOf(c)
  OBVIOUS
<1> HIDE DEF j, to, r
<1>7. ReportHolds(r)
  BY <1>2, <1>3, <1>4, <1>5, <1>6 DEF ReportHolds
<1> QED BY <1>7 DEF r, j

LEMMA FinishKeeps ==
    ASSUME IInv, NEW c \in Contexts, Finish(c) PROVE IInv'
<1>1. TypeOK /\ DOMAIN job = Contexts /\ job[c].pc = "finish"
  BY DEF IInv, TypeOK, Finish
<1>2. /\ UNCHANGED <<files, cache, active, frame, draftFile, receiptFile, jobs, changes>>
      /\ Quit(c)
  BY DEF Finish
<1>3. /\ receiptFile' \in Receipts
      /\ jobs \in Nat /\ jobs' \in 0 .. MaxJobs /\ jobs' \in Nat /\ jobs' >= jobs
      /\ active' \in [Contexts -> Optional(Bundles)]
      /\ frame' \in [Contexts -> Optional(Bundles)]
  BY <1>1, <1>2, BoundsAssumption DEF TypeOK
<1>4. /\ DOMAIN job' = Contexts /\ job'[c] = NoJob
      /\ \A k \in Contexts \ {c} : job'[k] = job[k]
  BY <1>1, <1>2, Ended
<1>5. JobIsTyped(job'[c]) /\ Kept(c)'
  BY <1>4, IdleIsKept
<1>6. TypeOK'
  BY <1>1, <1>2, <1>3, <1>4, <1>5, TypesStay
<1>7. \A k \in Contexts \ {c} : Kept(k)'
  BY <1>1, <1>2, <1>3, <1>4, OthersAreKept DEF IInv
<1>8. ReportHolds(report')
  <2>1. CASE FileUnchanged(c) /\ Reproduced(c)
    <3>1. report' = [job |-> job[c], diff |-> DiffOf(c)]
      BY <2>1 DEF Finish
    <3> QED BY <1>1, <2>1, <3>1, ReportOfAPass
  <2>2. CASE ~(FileUnchanged(c) /\ Reproduced(c))
    BY <2>2 DEF Finish, ReportHolds
  <2> QED BY <2>1, <2>2
<1>9. frame' = active' /\ receiptFile'.serial <= jobs' /\ Sound(receiptFile')
  BY <1>2 DEF IInv
<1> QED BY <1>5, <1>6, <1>7, <1>8, <1>9 DEF IInv, Sound, ReportHolds

(* A with-block of a profile is entered and left outside any evaluation.   *)
LEMMA ProfileStepKeeps ==
    ASSUME IInv, NEW c \in Contexts, EnterProfile(c) \/ LeaveProfile(c)
    PROVE  IInv'
<1>1. /\ TypeOK /\ DOMAIN job = Contexts /\ job[c].pc = "idle"
      /\ JobIsTyped(job[c]) /\ Kept(c)
  BY DEF IInv, TypeOK, EnterProfile, LeaveProfile
<1>2. /\ UNCHANGED <<files, draftFile, receiptFile, job, report, changes>>
      /\ cache' \in {cache, Loaded}
  BY DEF EnterProfile, LeaveProfile
<1>3. /\ jobs \in Nat /\ jobs' \in 0 .. MaxJobs /\ jobs' \in Nat /\ jobs' >= jobs
      /\ receiptFile' \in Receipts
  <2>1. jobs \in 0 .. MaxJobs
    BY <1>1 DEF TypeOK
  <2>2. jobs' = jobs \/ (jobs < MaxJobs /\ jobs' = jobs + 1)
    BY DEF EnterProfile, LeaveProfile
  <2> QED BY <1>1, <1>2, <2>1, <2>2, BoundsAssumption DEF TypeOK
<1>4. /\ active' \in [Contexts -> Optional(Bundles)]
      /\ frame' \in [Contexts -> Optional(Bundles)]
      /\ frame' = active'
      /\ \A k \in Contexts \ {c} : active'[k] = active[k]
  <2>1. CASE EnterProfile(c)
    <3> DEFINE b == WithProfile([operations |-> Loaded, external |-> files.external])
    <3>1. b \in Bundles
      BY <1>1, LoadedIsAVersion, VersionIsABundle DEF TypeOK
    <3>2. Enter(c, b)
      BY <2>1 DEF EnterProfile
    <3> HIDE DEF b
    <3> QED BY <1>1, <3>1, <3>2, EnterIsTyped DEF IInv
  <2>2. CASE LeaveProfile(c)
    BY <1>1, <2>2, LeaveIsTyped DEF IInv, LeaveProfile
  <2> QED BY <2>1, <2>2
<1>5. Kept(c)'
  BY <1>1, <1>2 DEF Kept, ModeFits, JudgementStands, Captured, ReadTwice
<1>6. TypeOK'
  BY <1>1, <1>2, <1>3, <1>4, TypesStay
<1>7. \A k \in Contexts \ {c} : Kept(k)'
  BY <1>1, <1>2, <1>3, <1>4, OthersAreKept DEF IInv
<1>8. receiptFile'.serial <= jobs' /\ Sound(receiptFile')
  <2>1. receiptFile.serial \in Nat /\ receiptFile.serial <= jobs /\ Sound(receiptFile)
    BY <1>1, BoundsAssumption DEF IInv, TypeOK, Receipts
  <2> QED BY <1>2, <1>3, <2>1
<1> QED BY <1>2, <1>4, <1>5, <1>6, <1>7, <1>8 DEF IInv, Sound, ReportHolds

(* Other programs change files; an evaluation has copies of what it read.  *)
LEMMA ChangeKeeps ==
    ASSUME IInv, Upgrade \/ EditDraft PROVE IInv'
<1>1. UNCHANGED <<cache, active, frame, receiptFile, job, report, jobs>>
  BY DEF Upgrade, EditDraft
<1>2. TypeOK'
  <2>1. files' \in Packaged /\ draftFile' \in Drafts
    BY DEF IInv, TypeOK, Upgrade, EditDraft
  <2>2. changes' \in 0 .. MaxChanges
    <3>1. changes \in 0 .. MaxChanges /\ changes < MaxChanges /\ changes' = changes + 1
      BY DEF IInv, TypeOK, Upgrade, EditDraft
    <3> QED BY <3>1, BoundsAssumption
  <2> QED BY <1>1, <2>1, <2>2 DEF IInv, TypeOK
<1> QED BY <1>1, <1>2 DEF IInv, Kept, Sound, ReportHolds

LEMMA RestartKeeps ==
    ASSUME IInv, Restart PROVE IInv'
<1>1. /\ UNCHANGED <<files, frame, draftFile, receiptFile, job, report, jobs, changes>>
      /\ cache' = NotLoaded /\ active' = [c \in Contexts |-> None]
      /\ \A c \in Contexts : job[c].pc = "idle" /\ frame[c] = None
  BY DEF Restart
<1>2. frame' = active'
  BY <1>1 DEF IInv, TypeOK
<1>3. TypeOK'
  BY <1>1, <1>2 DEF IInv, TypeOK
<1>4. \A c \in Contexts : Kept(c)'
  BY <1>1 DEF IInv, Kept, ModeFits, JudgementStands, Captured, ReadTwice
<1> QED BY <1>1, <1>2, <1>3, <1>4 DEF IInv, Sound, ReportHolds

---------------------------------------------------------------------------
(* The invariant *)

LEMMA InitIInv == Init => IInv
<1> SUFFICES ASSUME Init PROVE IInv
  OBVIOUS
<1>1. PICK r \in Packaged :
        receiptFile = [serial |-> 0, draft |-> draftFile, registry |-> r,
                       status |-> Verdict(r.operations, draftFile),
                       judged |-> r.operations]
  BY DEF Init
<1>2. 0 \in 0 .. MaxJobs /\ 0 \in 0 .. MaxChanges
  BY BoundsAssumption
<1>3. receiptFile \in Receipts
  BY <1>1, <1>2, FilesAreABundle, VerdictIsAStatus DEF Init, Receipts
<1>4. receiptFile.serial <= jobs /\ Sound(receiptFile)
  BY <1>1 DEF Init, Sound
<1>5. DOMAIN job = Contexts /\ \A c \in Contexts : job[c] = NoJob
  BY DEF Init
<1>6. TypeOK
  BY <1>2, <1>3, <1>5, NoJobIsTyped DEF Init, TypeOK, Optional
<1>7. \A c \in Contexts : Kept(c)
  BY <1>5, NoJobIsNothing DEF Kept, ModeFits, JudgementStands, Captured, ReadTwice
<1> QED BY <1>4, <1>6, <1>7 DEF IInv, Init, ReportHolds

LEMMA NextIInv == IInv /\ [Next]_vars => IInv'
<1> SUFFICES ASSUME IInv, [Next]_vars PROVE IInv'
  OBVIOUS
<1>1. CASE UNCHANGED vars
  <2>1. /\ UNCHANGED <<files, cache, active, frame, draftFile>>
        /\ UNCHANGED <<receiptFile, job, report, jobs, changes>>
    BY <1>1 DEF vars
  <2> QED BY <2>1 DEF IInv, TypeOK, Kept, Sound, ReportHolds
<1>2. CASE Upgrade \/ EditDraft
  BY <1>2, ChangeKeeps
<1>3. CASE Restart
  BY <1>3, RestartKeeps
<1>4. CASE \E c \in Contexts : Step(c)
  <2>1. PICK c \in Contexts : Step(c)
    BY <1>4
  <2> QED BY <2>1, StartKeeps, ReadReceiptKeeps, JudgeKeeps, BindKeeps, WriteReceiptKeeps,
             CaptureRuntimeKeeps, CaptureComponentsKeeps, FinishKeeps, ProfileStepKeeps
          DEF Step
<1> QED BY <1>1, <1>2, <1>3, <1>4 DEF Next

LEMMA SpecIInv == Spec => []IInv
BY InitIInv, NextIInv, PTL DEF Spec

---------------------------------------------------------------------------
(* Theorems *)

(* The files, the cache, the bundles in force and every evaluation's       *)
(* record have their types in all reachable states.                        *)
THEOREM TypeCorrect == Spec => []TypeOK
<1>1. IInv => TypeOK
  BY DEF IInv
<1> QED BY <1>1, SpecIInv, PTL

(* No context's bundle leaks into another's judgement or outlives its      *)
(* with-block: ContextVar and the caches, with any number of contexts.     *)
THEOREM ContextsAreApart == Spec => []JudgedInItsOwnContext
<1>1. IInv => JudgedInItsOwnContext
  <2> SUFFICES ASSUME IInv, NEW c \in Contexts,
                      job[c].pc \in {"bind", "write", "runtime", "components"}
               PROVE  IF frame[c] # None THEN job[c].judged = frame[c].operations
                                         ELSE job[c].judged \in OpsVersions
    BY DEF JudgedInItsOwnContext
  <2>1. cache # NotLoaded => cache \in OpsVersions
    BY DEF IInv, TypeOK
  <2> QED BY <2>1 DEF IInv, Kept, JudgementStands
<1> QED BY <1>1, SpecIInv, PTL

(* A current or migrated replay that passes judged with the registry whose *)
(* hash it reports, whatever is cached and whoever upgrades the files.     *)
THEOREM ReplaysJudgeWhatTheyName == Spec => []PassedReplayJudgesWhatItNames
<1>1. IInv => PassedReplayJudgesWhatItNames
  BY DEF IInv, ReportHolds, PassedReplayJudgesWhatItNames
<1> QED BY <1>1, SpecIInv, PTL

(* A replay that passes is about the receipt that was in the file when it  *)
(* began, although it parses a second reading: replay_trust_receipt_mode.  *)
THEOREM ReplaysAreAboutTheFile == Spec => []PassedReplayIsAboutTheFile
<1>1. IInv => PassedReplayIsAboutTheFile
  BY DEF IInv, ReportHolds, PassedReplayIsAboutTheFile
<1> QED BY <1>1, SpecIInv, PTL

---------------------------------------------------------------------------
(* Changes that only narrow *)

Narrowing == {"compatible", "tightening"}

SpecFields == {"allowed_workflows", "required_effects", "allowed_effects",
               "allow_extra_effects", "required_capability_any",
               "requires_policy_any", "description"}

(* The lists of which a draft must have all or one: required_, requires_.  *)
Demands == {"required_effects", "required_capability_any", "requires_policy_any"}

LEMMA ChangesAreClassified ==
    ASSUME NEW old, NEW new, NEW op, NEW f,
           op \in DOMAIN old.operations, op \in DOMAIN new.operations,
           f \in DOMAIN old.operations[op],
           old.operations[op][f] # new.operations[op][f]
    PROVE  ClassifyField([field |-> f,
                          type |-> ChangeType(old.operations[op][f], new.operations[op][f]),
                          old |-> old.operations[op][f], new |-> new.operations[op][f]])
             \in ChangeClasses(old, new)
<1> DEFINE before == old.operations[op]
           after == new.operations[op]
           change == [field |-> f, type |-> ChangeType(before[f], after[f]),
                      old |-> before[f], new |-> after[f]]
           both == DOMAIN old.operations \cap DOMAIN new.operations
           C(o) == {ClassifyField(c) : c \in SpecChanges(old.operations[o], new.operations[o])}
<1>1. change \in SpecChanges(before, after)
  BY DEF SpecChanges
<1>2. ClassifyField(change) \in C(op)
  BY <1>1
<1>3. op \in both
  OBVIOUS
<1> HIDE DEF change, C, both
<1>4. ClassifyField(change) \in UNION {C(o) : o \in both}
  BY <1>2, <1>3
<1>5. (UNION {C(o) : o \in both}) \subseteq ChangeClasses(old, new)
  BY DEF ChangeClasses, C, both
<1> QED BY <1>4, <1>5 DEF change

(* A narrowing change of a list that is there before and after: one that   *)
(* permits loses members, one that demands gains some.                     *)
LEMMA ListsNarrow ==
    ASSUME NEW f, NEW old, NEW new, old # new, old # Undeclared, new # Undeclared,
           f \in {"allowed_workflows", "allowed_effects"} \cup Demands,
           ClassifyField([field |-> f, type |-> ChangeType(old, new),
                          old |-> old, new |-> new]) \in Narrowing
    PROVE  IF f \in Demands THEN old \ new = {} ELSE new \ old = {}
<1> DEFINE change == [field |-> f, type |-> ChangeType(old, new), old |-> old, new |-> new]
<1>1. /\ change.field = f /\ change.type = "modified" /\ change.old = old /\ change.new = new
      /\ ClassifyField(change) \in Narrowing
  BY DEF ChangeType
<1> HIDE DEF change
<1>2. CASE f \in Demands
  <2>1. ListClass(change, "tightening", "relaxation") \in Narrowing
    BY <1>1, <1>2 DEF ClassifyField, Demands
  <2> QED BY <1>1, <1>2, <2>1 DEF ListClass, Narrowing
<1>3. CASE f \notin Demands
  <2>1. ListClass(change, "relaxation", "tightening") \in Narrowing
    BY <1>1, <1>3 DEF ClassifyField, Demands
  <2> QED BY <1>1, <1>3, <2>1 DEF ListClass, Narrowing
<1> QED BY <1>2, <1>3

LEMMA SwitchNarrows ==
    ASSUME NEW old, NEW new, new = TRUE,
           ClassifyField([field |-> "allow_extra_effects", type |-> ChangeType(old, new),
                          old |-> old, new |-> new]) \in Narrowing
    PROVE  FALSE
<1> DEFINE change == [field |-> "allow_extra_effects", type |-> ChangeType(old, new),
                      old |-> old, new |-> new]
<1>1. /\ change.field = "allow_extra_effects" /\ change.new = new
      /\ ClassifyField(change) \in Narrowing
  OBVIOUS
<1> HIDE DEF change
<1> QED BY <1>1 DEF ClassifyField, Narrowing

(* An any-of list that lost nothing, and gained nothing if it was not      *)
(* empty, admits only what it admitted before.                             *)
LEMMA AnyOfNarrows ==
    ASSUME NEW old, NEW new, NEW given, old # Undeclared, new # Undeclared,
           old = {} \/ new \subseteq old, old \ new = {},
           HasAnyOf(new, given)
    PROVE  HasAnyOf(old, given)
BY DEF HasAnyOf, Listed

(* What an operation binds to after a narrowing change, it bound to before.*)
LEMMA NarrowingBinds ==
    ASSUME NEW from \in Bundles, NEW to \in Bundles, NEW d,
           SpelledOut(from), SpelledOut(to), ~WidensAnyOf(from, to),
           ChangeClasses(from, to) \subseteq Narrowing,
           Verdict(to.operations, d) = "passed"
    PROVE  Verdict(from.operations, d) = "passed"
<1> DEFINE op == d.op
           old == from.operations[op]
           new == to.operations[op]
<1>1. op \in DOMAIN to.operations /\ OperationBinds(new, d)
  BY DEF Verdict
<1>2. op \in DOMAIN from.operations
  <2>1. ASSUME op \notin DOMAIN from.operations PROVE FALSE
    <3>1. "relaxation" \in ChangeClasses(from, to)
      BY <1>1, <2>1 DEF ChangeClasses
    <3> QED BY <3>1 DEF Narrowing
  <2> QED BY <2>1
<1>3. old \in OperationSpec /\ new \in OperationSpec
  BY <1>1, <1>2, BundlesAreSpecified
<1>4. DOMAIN old = SpecFields /\ DOMAIN new = SpecFields
  BY <1>3 DEF OperationSpec, SpecFields
<1>5. \A f \in SpecFields : old[f] # Undeclared /\ new[f] # Undeclared
  BY <1>1, <1>2, <1>4 DEF SpelledOut
<1>6. \A f \in SpecFields : old[f] # new[f] =>
        ClassifyField([field |-> f, type |-> ChangeType(old[f], new[f]),
                       old |-> old[f], new |-> new[f]]) \in Narrowing
  BY <1>1, <1>2, <1>4, ChangesAreClassified
<1>7. old.required_effects \ new.required_effects = {}
  BY <1>5, <1>6, ListsNarrow DEF SpecFields, Demands
<1>8. new.allowed_workflows \ old.allowed_workflows = {}
  BY <1>5, <1>6, ListsNarrow DEF SpecFields, Demands
<1>9. new.allowed_effects \ old.allowed_effects = {}
  BY <1>5, <1>6, ListsNarrow DEF SpecFields, Demands
<1>10. new.allow_extra_effects = TRUE => old.allow_extra_effects = TRUE
  <2>1. old.allow_extra_effects \in BOOLEAN /\ new.allow_extra_effects \in BOOLEAN
    BY <1>3 DEF OperationSpec
  <2> QED BY <1>6, <2>1, SwitchNarrows DEF SpecFields
<1>11. ASSUME NEW f \in {"required_capability_any", "requires_policy_any"},
              NEW given, HasAnyOf(new[f], given)
       PROVE  HasAnyOf(old[f], given)
  <2>1. old[f] # Undeclared /\ new[f] # Undeclared
    BY <1>5 DEF SpecFields
  <2>2. old[f] \ new[f] = {}
    BY <1>5, <1>6, ListsNarrow DEF SpecFields, Demands
  <2>3. op \in DOMAIN from.operations \cap DOMAIN to.operations
    BY <1>1, <1>2
  <2>4. old[f] = {} \/ new[f] \subseteq old[f]
    BY <2>1, <2>3 DEF WidensAnyOf, Listed
  <2> HIDE DEF old, new
  <2> QED BY <1>11, <2>1, <2>2, <2>4, AnyOfNarrows
<1>12. OperationBinds(old, d)
  <2>1. /\ new.allowed_workflows # Undeclared /\ old.allowed_effects # Undeclared
        /\ new.required_effects # Undeclared /\ old.required_effects # Undeclared
        /\ new.allowed_effects # Undeclared
    BY <1>5 DEF SpecFields
  <2>2. /\ d.workflow \in new.allowed_workflows
        /\ new.required_effects \subseteq d.effects
        /\ new.allow_extra_effects \/ d.effects \subseteq new.allowed_effects
        /\ HasAnyOf(new.required_capability_any, d.capabilities)
        /\ HasAnyOf(new.requires_policy_any, d.policies)
    BY <1>1, <2>1 DEF OperationBinds, Listed, AllowedEffects
  <2>3. new.allow_extra_effects \in BOOLEAN /\ old.allow_extra_effects \in BOOLEAN
    BY <1>3 DEF OperationSpec
  <2>4. /\ d.workflow \in old.allowed_workflows
        /\ old.required_effects \subseteq d.effects
        /\ old.allow_extra_effects \/ d.effects \subseteq old.allowed_effects
    <3> HIDE DEF old, new
    <3> QED BY <1>7, <1>8, <1>9, <1>10, <2>2, <2>3
  <2>5. /\ HasAnyOf(old.required_capability_any, d.capabilities)
        /\ HasAnyOf(old.requires_policy_any, d.policies)
    BY <1>11, <2>2
  <2> QED BY <2>1, <2>4, <2>5 DEF OperationBinds, Listed, AllowedEffects
<1> QED BY <1>2, <1>12 DEF Verdict

(* A replay across changes that are all classified compatible or           *)
(* tightening, between registries that leave nothing out and where no      *)
(* any-of list with members gains another, never turns a refused draft     *)
(* into a passed one: _classify_change is sound there.                     *)
THEOREM NarrowingIsSafe == Spec => []NarrowingChangesNeverAdmit
<1>1. IInv => NarrowingChangesNeverAdmit
  <2> SUFFICES ASSUME IInv, report # None, report.diff # None, Honest(report),
                      SpelledOut(report.diff[1]), SpelledOut(report.diff[2]),
                      ~WidensAnyOf(report.diff[1], report.diff[2]),
                      ChangeClasses(report.diff[1], report.diff[2]) \subseteq Narrowing,
                      report.job.status = "passed"
               PROVE  report.job.receipt.status = "passed"
    BY DEF NarrowingChangesNeverAdmit, TurnedToPassed, Narrowing
  <2> DEFINE j == report.job
  <2>1. /\ j.receipt \in Receipts /\ Sound(j.receipt) /\ j.bound \in Bundles
        /\ j.draft = j.receipt.draft /\ j.status = Verdict(j.judged, j.draft)
        /\ j.judged = j.bound.operations
        /\ report.diff[1] = j.receipt.registry /\ report.diff[2] = j.bound
    BY DEF IInv, ReportHolds
  <2>2. j.receipt.registry \in Bundles
    BY <2>1 DEF Receipts
  <2>3. Verdict(j.bound.operations, j.receipt.draft) = "passed"
    BY <2>1
  <2>4. Verdict(j.receipt.registry.operations, j.receipt.draft) = "passed"
    BY <2>1, <2>2, <2>3, NarrowingBinds
  <2> QED BY <2>1, <2>4 DEF Honest, Sound
<1> QED BY <1>1, SpecIInv, PTL

=============================================================================
