------------------------- MODULE McpToolCallProofs --------------------------
(***************************************************************************)
(* What McpToolCall promises a host, for every set of profiles, tools,     *)
(* calls, host settings and answers, and for every bound.                  *)
(*                                                                         *)
(* The argument follows the artifacts.  Whoever combines them, a context   *)
(* was built from something obtained for an envelope with the same call    *)
(* and resources (BuiltFrom), a binding holds the definition its envelope  *)
(* was made for (BindingIsReviewed), and what passed had passed every      *)
(* check (PassedChecks).  JobIsPrepared says the same of what an operation *)
(* holds half way, and FilesAreRead what it has found in the files.        *)
(***************************************************************************)
EXTENDS McpToolCall, TLAPS

(* The context x is about an envelope among E, and everything in it was    *)
(* obtained, as one of O, for the same call of the same resources.         *)
BuiltFrom(E, O, x) ==
    /\ x.envelope \in E
    /\ x.consent.envelope = x.envelope
    /\ \E g \in O :
          /\ g.envelope.call = x.envelope.call
          /\ g.envelope.resources = x.envelope.resources
          /\ g.decision = x.consent.decision
          /\ g.from = x.consent.from /\ g.until = x.consent.until
          /\ g.transaction = x.transaction

ContextIsBuilt == context # None => BuiltFrom(envelopes, obtained, context)

(* What is obtained is obtained for the resources its own profile binds. *)
GrantsAreReviewed ==
    \A g \in obtained : g.envelope.resources = Resources(g.under, g.envelope.call)

(* A job j of an adapter with profile p. *)
Binds(j) == j.goal \in {"bind", "preflight"}
UsesGrant(j) == j.goal \in {"command", "preflight"}

PreparedJob(j, p, E, O) ==
    /\ j.stage \in {"review", "build", "judge"}
    /\ j.stage = "review" => Binds(j)
    /\ j.stage = "build" => Binds(j) \/ j.goal \in {"normalize", "command"}
    /\ j.stage # "judge" => j.call \in Calls
    /\ j.stage # "judge" /\ Binds(j) => j.definition \in Definitions
    /\ j.stage = "build" => j.descriptor \in Descriptors
    /\ j.stage = "build" /\ Binds(j) => j.descriptor.input = j.definition.parameters
    /\ j.stage # "judge" /\ UsesGrant(j) =>
          /\ j.got \in O /\ j.got.under = p /\ j.got.envelope.call = j.call
          /\ j.settings \in HostSettings
    /\ j.stage = "judge" => j.envelope \in E /\ BuiltFrom(E, O, j.context)

JobIsPrepared == job # Idle => PreparedJob(job, adapter, envelopes, obtained)

(* While no file is replaced, the files read so far are as reviewed. *)
FilesAreRead ==
    job # Idle /\ job.quiet =>
        \A k \in DOMAIN adapter.order :
            k < job.next => HoldsReviewed(adapter, adapter.order[k])

BindingIsReviewed ==
    binding # None =>
        /\ binding.envelope.descriptor.input = binding.definition.parameters
        /\ binding.envelope.resources = Resources(binding.profile, binding.envelope.call)

(* What passed had passed every check, in a context built for it. *)
PassedChecks(a, E, O) ==
    a # None /\ a.status = "passed" =>
        /\ ReviewedCall(a.profile, a.envelope)
        /\ Consented(a.envelope, a.context)
        /\ Prepared(Tool(a), a.envelope, a.context)
        /\ BuiltFrom(E, O, a.context)

IInv ==
    /\ TypeOK /\ ContextIsBuilt /\ GrantsAreReviewed /\ JobIsPrepared
    /\ FilesAreRead /\ BindingIsReviewed /\ PassedChecks(assessment, envelopes, obtained)

-----------------------------------------------------------------------------
(*                        Lemmas about the operators                       *)

LEMMA BuiltFromMore ==
    ASSUME NEW E, NEW O, NEW F, NEW P, E \subseteq F, O \subseteq P,
           NEW x, BuiltFrom(E, O, x)
    PROVE  BuiltFrom(F, P, x)
BY DEF BuiltFrom

LEMMA PreparedWithMore ==
    ASSUME NEW E, NEW O, NEW F, NEW P, E \subseteq F, O \subseteq P,
           NEW p, NEW j, PreparedJob(j, p, E, O)
    PROVE  PreparedJob(j, p, F, P)
BY BuiltFromMore DEF PreparedJob

LEMMA PassedWithMore ==
    ASSUME NEW E, NEW O, NEW F, NEW P, E \subseteq F, O \subseteq P,
           NEW a, PassedChecks(a, E, O)
    PROVE  PassedChecks(a, F, P)
BY BuiltFromMore DEF PassedChecks

(* The context of a grant, for an envelope with its call and resources. *)
LEMMA ContextIsBuiltFrom ==
    ASSUME NEW E, NEW O, NEW e \in E, NEW g \in O, NEW settings, NEW time,
           g.envelope.call = e.call, g.envelope.resources = e.resources
    PROVE  LET x == [envelope |-> e, at |-> time, settings |-> settings,
                     consent |-> [envelope |-> e, decision |-> g.decision,
                                  from |-> g.from, until |-> g.until],
                     transaction |-> g.transaction]
           IN  BuiltFrom(E, O, x)
BY DEF BuiltFrom

(* The verdicts, and what passing takes. *)
LEMMA VerdictPassed ==
    ASSUME NEW p, NEW e, NEW x
    PROVE  /\ Verdict(p, e, x) \in {"passed", "review_required", "refused"}
           /\ Verdict(p, e, x) = "passed" =>
                 /\ ReviewedCall(p, e) /\ Consented(e, x)
                 /\ Prepared(Contract(p, e.call.tool), e, x)
BY DEF Verdict

(* What an envelope says. *)
LEMMA EnvelopeSays ==
    ASSUME NEW p, NEW call, NEW d, NEW meta
    PROVE  LET e == Envelope(p, call, d, meta)
           IN  e.call = call /\ e.descriptor = d /\ e.resources = Resources(p, call)
BY DEF Envelope

-----------------------------------------------------------------------------
LEMMA InitIInv == Init => IInv
<1> SUFFICES ASSUME Init PROVE IInv
  OBVIOUS
<1>1. job \in Jobs /\ edits \in [profile : 0..MaxEdits.profile, descriptor : 0..MaxEdits.descriptor]
  BY BoundsAssumption DEF Init, Jobs, Idle, Goals
<1>2. descriptorFile \in [Tools -> Descriptors]
  BY ProfileAssumption DEF Init, Contract
<1>3. TypeOK
  BY <1>1, <1>2, BoundsAssumption, ProfileAssumption DEF Init, TypeOK
<1>4. /\ ContextIsBuilt /\ GrantsAreReviewed /\ JobIsPrepared
      /\ FilesAreRead /\ BindingIsReviewed /\ PassedChecks(assessment, envelopes, obtained)
  BY DEF Init, ContextIsBuilt, GrantsAreReviewed, JobIsPrepared, FilesAreRead,
         BindingIsReviewed, PassedChecks
<1> QED BY <1>3, <1>4 DEF IInv

-----------------------------------------------------------------------------
(*                    What an operation holds half way                     *)

Starts == Normalize \/ Command \/ Assess \/ Bind \/ Preflight

(* What every start does, whatever it starts with. *)
LEMMA StartsLeave ==
    ASSUME Starts
    PROVE  /\ UNCHANGED <<files, adapter, envelopes, context, binding, obtained, now, edits>>
           /\ UNCHANGED assessment \/ assessment' = None
           /\ adapter # None /\ job = Idle
BY DEF Starts, Normalize, Command, Assess, Bind, Preflight, Start

(* A started job has what it needs, and has read no file yet. *)
LEMMA StartedJob ==
    ASSUME TypeOK, ContextIsBuilt, Starts
    PROVE  /\ job' \in Jobs /\ job'.next = 1
           /\ PreparedJob(job', adapter, envelopes, obtained)
PROOF
<1>1. CASE Normalize
  <2>1. PICK call \in Calls, d \in Descriptors :
             Start([Idle EXCEPT !.goal = "normalize", !.call = call, !.descriptor = d])
    BY <1>1 DEF Normalize
  <2>2. job' = [goal |-> "normalize", stage |-> "build", next |-> 1, quiet |-> TRUE, call |-> call,
                descriptor |-> d, definition |-> None, got |-> None, settings |-> None,
                envelope |-> None, context |-> None]
    BY <2>1 DEF Start, FirstStage, Idle
  <2>3. job' \in Jobs /\ job'.next = 1
    BY <2>2 DEF Jobs, Goals
  <2> QED BY <2>2, <2>3 DEF PreparedJob, Binds, UsesGrant
<1>2. CASE Command
  <2>1. PICK g \in obtained, d \in Descriptors, s \in HostSettings :
             /\ g.under = adapter
             /\ Start([Idle EXCEPT !.goal = "command", !.call = g.envelope.call,
                                   !.descriptor = d, !.got = g, !.settings = s])
    BY <1>2 DEF Command
  <2>2. job' = [goal |-> "command", stage |-> "build", next |-> 1, quiet |-> TRUE, call |-> g.envelope.call,
                descriptor |-> d, definition |-> None, got |-> g, settings |-> s,
                envelope |-> None, context |-> None]
    BY <2>1 DEF Start, FirstStage, Idle
  <2>3. g.envelope.call \in Calls
    BY DEF TypeOK, Grants
  <2>4. job' \in Jobs /\ job'.next = 1
    BY <2>2, <2>3 DEF Jobs, Goals
  <2> QED BY <2>1, <2>2, <2>3, <2>4 DEF PreparedJob, Binds, UsesGrant
<1>3. CASE Assess
  <2>1. PICK e \in envelopes :
             context # None /\ Start([Idle EXCEPT !.goal = "assess", !.envelope = e, !.context = context])
    BY <1>3 DEF Assess
  <2>2. job' = [goal |-> "assess", stage |-> "judge", next |-> 1, quiet |-> TRUE, call |-> None,
                descriptor |-> None, definition |-> None, got |-> None, settings |-> None,
                envelope |-> e, context |-> context]
    BY <2>1 DEF Start, FirstStage, Idle
  <2>3. job' \in Jobs /\ job'.next = 1
    BY <2>2 DEF Jobs, Goals, TypeOK
  <2> QED BY <2>1, <2>2, <2>3 DEF PreparedJob, ContextIsBuilt
<1>4. CASE Bind
  <2>1. PICK call \in Calls, def \in Definitions :
             Start([Idle EXCEPT !.goal = "bind", !.call = call, !.definition = def])
    BY <1>4 DEF Bind
  <2>2. job' = [goal |-> "bind", stage |-> "review", next |-> 1, quiet |-> TRUE, call |-> call,
                descriptor |-> None, definition |-> def, got |-> None, settings |-> None,
                envelope |-> None, context |-> None]
    BY <2>1 DEF Start, FirstStage, Idle
  <2>3. job' \in Jobs /\ job'.next = 1
    BY <2>2 DEF Jobs, Goals
  <2> QED BY <2>2, <2>3 DEF PreparedJob, Binds, UsesGrant
<1>5. CASE Preflight
  <2>1. PICK g \in obtained, def \in Definitions, s \in HostSettings :
             /\ g.under = adapter
             /\ Start([Idle EXCEPT !.goal = "preflight", !.call = g.envelope.call,
                                   !.definition = def, !.got = g, !.settings = s])
    BY <1>5 DEF Preflight
  <2>2. job' = [goal |-> "preflight", stage |-> "review", next |-> 1, quiet |-> TRUE, call |-> g.envelope.call,
                descriptor |-> None, definition |-> def, got |-> g, settings |-> s,
                envelope |-> None, context |-> None]
    BY <2>1 DEF Start, FirstStage, Idle
  <2>3. g.envelope.call \in Calls
    BY DEF TypeOK, Grants
  <2>4. job' \in Jobs /\ job'.next = 1
    BY <2>2, <2>3 DEF Jobs, Goals
  <2> QED BY <2>1, <2>2, <2>3, <2>4 DEF PreparedJob, Binds, UsesGrant
<1> QED BY <1>1, <1>2, <1>3, <1>4, <1>5 DEF Starts

(* What an operation reads with its reviewed descriptor. *)
LEMMA ReviewedJob ==
    ASSUME IInv, ReadReviewed, job' # Idle
    PROVE  /\ job' \in Jobs /\ job'.next = 1
           /\ PreparedJob(job', adapter, envelopes, obtained)
PROOF
<1>1. job \in Jobs /\ PreparedJob(job, adapter, envelopes, obtained) /\ job.stage = "review"
  BY DEF ReadReviewed, Validated, IInv, TypeOK, JobIsPrepared
<1> DEFINE d == descriptorFile[job.call.tool]
<1>2. /\ job.call.tool \in DOMAIN adapter.tools /\ d.input = job.definition.parameters
      /\ job' = [job EXCEPT !.descriptor = d, !.stage = "build", !.next = 1]
  BY DEF ReadReviewed
<1>3. d \in Descriptors
  <2>1. adapter \in Profiles
    BY DEF ReadReviewed, Validated, IInv, TypeOK
  <2>2. DOMAIN adapter.tools \subseteq Tools
    BY <2>1, ProfileAssumption
  <2> QED BY <1>2, <2>2 DEF IInv, TypeOK
<1> HIDE DEF d
<1>4. job' = [goal |-> job.goal, stage |-> "build", next |-> 1, quiet |-> job.quiet, call |-> job.call,
              descriptor |-> d, definition |-> job.definition, got |-> job.got,
              settings |-> job.settings, envelope |-> job.envelope, context |-> job.context]
  BY <1>1, <1>2 DEF Jobs
<1>5. job' \in Jobs /\ job'.next = 1
  BY <1>1, <1>3, <1>4 DEF Jobs
<1>6. Binds(job) /\ Binds(job') /\ UsesGrant(job') = UsesGrant(job)
  BY <1>1, <1>4 DEF PreparedJob, Binds, UsesGrant
<1> QED BY <1>1, <1>2, <1>3, <1>4, <1>5, <1>6 DEF PreparedJob

-----------------------------------------------------------------------------
(*                    Every step keeps the invariant                       *)

(* An adapter that does something was loaded with a profile, and its order *)
(* lists its tools.                                                        *)
LEMMA BusyAdapter ==
    ASSUME TypeOK, job # Idle
    PROVE  /\ adapter \in Profiles /\ job \in Jobs
           /\ adapter.order \in Seq(Tools) /\ DOMAIN adapter.order = 1..Len(adapter.order)
           /\ job.next \in Nat /\ job.next <= Len(adapter.order) + 1
BY ProfileAssumption DEF TypeOK, Jobs

(* A job that ends leaves nothing to be known of it. *)
LEMMA IdleKeeps ==
    ASSUME IInv, job' = Idle,
           UNCHANGED <<files, adapter, envelopes, context, binding, obtained, now, edits>>,
           assessment' # None =>
              /\ assessment'.status \in {"passed", "review_required", "refused", "invalid"}
              /\ assessment'.envelope \in envelopes /\ assessment'.context.envelope \in envelopes,
           PassedChecks(assessment', envelopes, obtained)
    PROVE  IInv'
<1>1. Idle \in Jobs
  BY DEF Idle, Jobs, Goals
<1>2. TypeOK'
  BY <1>1 DEF IInv, TypeOK, files, Jobs, Grants, Contexts
<1>3. JobIsPrepared' /\ FilesAreRead'
  BY DEF JobIsPrepared, FilesAreRead
<1>4. ContextIsBuilt' /\ GrantsAreReviewed' /\ BindingIsReviewed' /\ PassedChecks(assessment, envelopes, obtained)'
  BY DEF IInv, ContextIsBuilt, GrantsAreReviewed, BindingIsReviewed
<1> QED BY <1>2, <1>3, <1>4 DEF IInv

(* A step that changes the job alone. *)
LEMMA JobChanges ==
    ASSUME TypeOK, UNCHANGED <<files, adapter, artifacts, obtained, now, edits>>,
           job' \in Jobs, adapter # None, job'.next <= Len(adapter.order) + 1
    PROVE  TypeOK'
<1>1. Jobs' = Jobs /\ Contexts' = Contexts /\ Grants' = Grants
  BY DEF artifacts, Jobs, Contexts, Grants
<1> QED BY <1>1 DEF TypeOK, files, artifacts

LEMMA LoadKeeps == IInv /\ Load => IInv'
<1> SUFFICES ASSUME IInv, Load PROVE IInv'
  OBVIOUS
<1>1. TypeOK'
  BY DEF IInv, Load, TypeOK, files, artifacts, Jobs, Grants, Contexts
<1>2. JobIsPrepared' /\ FilesAreRead'
  BY DEF Load, JobIsPrepared, FilesAreRead
<1>3. ContextIsBuilt' /\ GrantsAreReviewed' /\ BindingIsReviewed' /\ PassedChecks(assessment, envelopes, obtained)'
  BY DEF IInv, Load, artifacts, ContextIsBuilt, GrantsAreReviewed, BindingIsReviewed
<1> QED BY <1>1, <1>2, <1>3 DEF IInv

LEMMA StartsKeep == IInv /\ Starts => IInv'
<1> SUFFICES ASSUME IInv, Starts PROVE IInv'
  OBVIOUS
<1>1. /\ UNCHANGED <<files, adapter, envelopes, context, binding, obtained, now, edits>>
      /\ UNCHANGED assessment \/ assessment' = None
      /\ adapter # None /\ job = Idle
  BY StartsLeave
<1>2. /\ job' \in Jobs /\ job'.next = 1
      /\ PreparedJob(job', adapter, envelopes, obtained)
  BY StartedJob DEF IInv
<1>3. adapter \in Profiles /\ Len(adapter.order) \in Nat /\ DOMAIN adapter.order = 1..Len(adapter.order)
  BY <1>1, ProfileAssumption DEF IInv, TypeOK
<1>4. TypeOK'
  BY <1>1, <1>2, <1>3 DEF IInv, TypeOK, files, Jobs, Grants, Contexts
<1>5. JobIsPrepared'
  BY <1>1, <1>2 DEF JobIsPrepared
<1>6. FilesAreRead'
  BY <1>1, <1>2, <1>3 DEF FilesAreRead
<1>7. ContextIsBuilt' /\ GrantsAreReviewed' /\ BindingIsReviewed'
  BY <1>1 DEF IInv, ContextIsBuilt, GrantsAreReviewed, BindingIsReviewed
<1>8. PassedChecks(assessment, envelopes, obtained)'
  BY <1>1 DEF IInv, PassedChecks
<1> QED BY <1>4, <1>5, <1>6, <1>7, <1>8 DEF IInv

LEMMA ReadDescriptorKeeps == IInv /\ ReadDescriptor => IInv'
<1> SUFFICES ASSUME IInv, ReadDescriptor PROVE IInv'
  OBVIOUS
<1>1. /\ adapter \in Profiles /\ job \in Jobs /\ job.next \in 1..Len(adapter.order)
      /\ DOMAIN adapter.order = 1..Len(adapter.order) /\ Len(adapter.order) \in Nat
  BY BusyAdapter DEF ReadDescriptor, IInv
<1>2. job' = [goal |-> job.goal, stage |-> job.stage, next |-> job.next + 1, quiet |-> job.quiet,
              call |-> job.call, descriptor |-> job.descriptor, definition |-> job.definition,
              got |-> job.got, settings |-> job.settings, envelope |-> job.envelope,
              context |-> job.context]
  BY <1>1 DEF ReadDescriptor, Jobs
<1>3. job' \in Jobs /\ job'.next <= Len(adapter.order) + 1
  BY <1>1, <1>2 DEF Jobs
<1>4. UNCHANGED <<files, adapter, artifacts, obtained, now, edits>>
  BY DEF ReadDescriptor
<1>5. TypeOK'
  BY <1>3, <1>4, JobChanges DEF IInv, TypeOK, ReadDescriptor
<1>6. JobIsPrepared'
  <2>1. PreparedJob(job, adapter, envelopes, obtained)
    BY DEF IInv, JobIsPrepared, ReadDescriptor
  <2>2. PreparedJob(job', adapter, envelopes, obtained)
    BY <1>2, <2>1 DEF PreparedJob, Binds, UsesGrant
  <2> QED BY <1>4, <2>2 DEF JobIsPrepared, artifacts
<1>7. FilesAreRead'
  <2>1. job # Idle /\ HoldsReviewed(adapter, adapter.order[job.next])
    BY DEF ReadDescriptor
  <2>2. job.quiet => \A k \in DOMAIN adapter.order :
           k < job.next + 1 => HoldsReviewed(adapter, adapter.order[k])
    BY <1>1, <2>1 DEF IInv, FilesAreRead
  <2> QED BY <1>2, <1>4, <2>2 DEF FilesAreRead, HoldsReviewed, files
<1>8. ContextIsBuilt' /\ GrantsAreReviewed' /\ BindingIsReviewed' /\ PassedChecks(assessment, envelopes, obtained)'
  BY <1>4 DEF IInv, artifacts, ContextIsBuilt, GrantsAreReviewed, BindingIsReviewed
<1> QED BY <1>5, <1>6, <1>7, <1>8 DEF IInv

(* What was known of the last assessment is still known. *)
LEMMA AssessmentStands ==
    ASSUME IInv
    PROVE  /\ assessment # None =>
                 /\ assessment.status \in {"passed", "review_required", "refused", "invalid"}
                 /\ assessment.envelope \in envelopes /\ assessment.context.envelope \in envelopes
           /\ PassedChecks(assessment, envelopes, obtained)
BY DEF IInv, TypeOK

LEMMA RaiseKeeps == IInv /\ Raise => IInv'
BY IdleKeeps, AssessmentStands DEF Raise, artifacts

LEMMA ReadReviewedKeeps == IInv /\ ReadReviewed => IInv'
<1> SUFFICES ASSUME IInv, ReadReviewed PROVE IInv'
  OBVIOUS
<1>1. UNCHANGED <<files, adapter, artifacts, obtained, now, edits>> /\ job # Idle
  BY DEF ReadReviewed, Validated
<1>2. CASE job' = Idle
  BY <1>1, <1>2, IdleKeeps, AssessmentStands DEF artifacts
<1>3. CASE job' # Idle
  <2>1. job' \in Jobs /\ job'.next = 1 /\ PreparedJob(job', adapter, envelopes, obtained)
    BY <1>3, ReviewedJob
  <2>2. adapter # None /\ Len(adapter.order) \in Nat /\ DOMAIN adapter.order = 1..Len(adapter.order)
    BY <1>1, BusyAdapter DEF IInv, TypeOK
  <2>3. TypeOK'
    BY <1>1, <2>1, <2>2, JobChanges DEF IInv
  <2>4. JobIsPrepared'
    BY <1>1, <2>1 DEF JobIsPrepared, artifacts
  <2>5. FilesAreRead'
    BY <1>1, <2>1, <2>2 DEF FilesAreRead
  <2>6. ContextIsBuilt' /\ GrantsAreReviewed' /\ BindingIsReviewed' /\ PassedChecks(assessment, envelopes, obtained)'
    BY <1>1 DEF IInv, artifacts, ContextIsBuilt, GrantsAreReviewed, BindingIsReviewed
  <2> QED BY <2>3, <2>4, <2>5, <2>6 DEF IInv
<1> QED BY <1>2, <1>3

(* What an operation builds, and for what. *)
LEMMA BuiltEnvelope ==
    ASSUME IInv, Build
    PROVE  \E e :
              /\ envelopes' = envelopes \cup {e}
              /\ e.call = job.call /\ job.call \in Calls /\ e.descriptor \in Descriptors
              /\ e.resources = Resources(adapter, job.call)
              /\ \/ UNCHANGED binding
                 \/ /\ binding' = [definition |-> job.definition, profile |-> adapter, envelope |-> e]
                    /\ job.definition \in Definitions /\ e.descriptor.input = job.definition.parameters
              /\ \/ job' = Idle /\ UNCHANGED context
                 \/ /\ UsesGrant(job)
                    /\ context' = Context(e, job.got, job.settings)
                    /\ job' = [goal |-> job.goal, stage |-> "judge", next |-> 1, quiet |-> job.quiet,
                               call |-> None, descriptor |-> None, definition |-> None, got |-> None,
                               settings |-> None, envelope |-> e, context |-> context']
PROOF
<1> DEFINE meta == IF job.goal \in {"bind", "preflight"} THEN job.definition ELSE None
           e == Envelope(adapter, job.call, job.descriptor, meta)
<1>1. PreparedJob(job, adapter, envelopes, obtained) /\ job.stage = "build"
  BY DEF IInv, JobIsPrepared, Build, Validated
<1>2. /\ job.call \in Calls /\ job.descriptor \in Descriptors
      /\ Binds(job) => job.definition \in Definitions /\ job.descriptor.input = job.definition.parameters
      /\ Binds(job) \/ job.goal \in {"normalize", "command"}
  BY <1>1 DEF PreparedJob
<1>3. e.call = job.call /\ e.descriptor = job.descriptor /\ e.resources = Resources(adapter, job.call)
  BY EnvelopeSays
<1>4. /\ envelopes' = envelopes \cup {e}
      /\ binding' = IF job.goal \in {"bind", "preflight"}
                      THEN [definition |-> job.definition, profile |-> adapter, envelope |-> e]
                      ELSE binding
      /\ IF job.goal \in {"normalize", "bind"}
            THEN job' = Idle /\ UNCHANGED context
            ELSE /\ context' = Context(e, job.got, job.settings)
                 /\ job' = [Idle EXCEPT !.goal = job.goal, !.stage = "judge", !.quiet = job.quiet,
                                        !.envelope = e, !.context = Context(e, job.got, job.settings)]
  BY DEF Build
<1> HIDE DEF e
<1>5. \/ job' = Idle /\ UNCHANGED context
      \/ /\ UsesGrant(job)
         /\ context' = Context(e, job.got, job.settings)
         /\ job' = [goal |-> job.goal, stage |-> "judge", next |-> 1, quiet |-> job.quiet,
                    call |-> None, descriptor |-> None, definition |-> None, got |-> None,
                    settings |-> None, envelope |-> e, context |-> context']
  BY <1>2, <1>4 DEF Idle, Binds, UsesGrant
<1>6. \/ UNCHANGED binding
      \/ /\ binding' = [definition |-> job.definition, profile |-> adapter, envelope |-> e]
         /\ job.definition \in Definitions /\ job.descriptor.input = job.definition.parameters
  BY <1>2, <1>4 DEF Binds
<1>7. envelopes' = envelopes \cup {e} /\ e.descriptor \in Descriptors
      /\ e.descriptor.input = job.descriptor.input
  BY <1>2, <1>3, <1>4
<1> WITNESS e
<1> QED BY <1>2, <1>3, <1>5, <1>6, <1>7

LEMMA BuildKeeps == IInv /\ Build => IInv'
<1> SUFFICES ASSUME IInv, Build PROVE IInv'
  OBVIOUS
<1>1. /\ UNCHANGED <<files, adapter, assessment, obtained, now, edits>>
      /\ job # Idle /\ job.stage = "build"
  BY DEF Build, Validated
<1>2. PICK e :
         /\ envelopes' = envelopes \cup {e}
         /\ e.call = job.call /\ job.call \in Calls /\ e.descriptor \in Descriptors
         /\ e.resources = Resources(adapter, job.call)
         /\ \/ UNCHANGED binding
            \/ /\ binding' = [definition |-> job.definition, profile |-> adapter, envelope |-> e]
               /\ job.definition \in Definitions /\ e.descriptor.input = job.definition.parameters
         /\ \/ job' = Idle /\ UNCHANGED context
            \/ /\ UsesGrant(job)
               /\ context' = Context(e, job.got, job.settings)
               /\ job' = [goal |-> job.goal, stage |-> "judge", next |-> 1, quiet |-> job.quiet,
                          call |-> None, descriptor |-> None, definition |-> None, got |-> None,
                          settings |-> None, envelope |-> e, context |-> context']
  BY BuiltEnvelope
<1>3. PreparedJob(job, adapter, envelopes, obtained)
  BY <1>1 DEF IInv, JobIsPrepared
<1>4. /\ adapter \in Profiles /\ job \in Jobs /\ Len(adapter.order) \in Nat
      /\ DOMAIN adapter.order = 1..Len(adapter.order)
  BY <1>1, BusyAdapter DEF IInv
<1>5. Contexts \subseteq Contexts' /\ Grants \subseteq Grants'
  BY <1>1, <1>2 DEF Contexts, Grants
(* What a job that goes on has put into its context. *)
<1>6. ASSUME UsesGrant(job), context' = Context(e, job.got, job.settings)
      PROVE  context' \in Contexts' /\ BuiltFrom(envelopes', obtained', context')
  <2>1. /\ job.got \in obtained /\ job.got.under = adapter /\ job.got.envelope.call = job.call
        /\ job.settings \in HostSettings
    BY <1>1, <1>3, <1>6 DEF PreparedJob
  <2>2. job.got.envelope.resources = e.resources
    BY <1>2, <2>1 DEF IInv, GrantsAreReviewed
  <2>3. BuiltFrom(envelopes', obtained', context')
    BY <1>1, <1>2, <1>6, <2>1, <2>2, ContextIsBuiltFrom DEF Context
  <2>4. job.got \in Grants /\ now \in 0..now
    BY <2>1 DEF IInv, TypeOK
  <2>5. context' \in Contexts'
    BY <1>1, <1>2, <1>6, <2>1, <2>4 DEF Context, Contexts, Grants
  <2> QED BY <2>3, <2>5
<1>7. context' \in Contexts' \cup {None}
  BY <1>2, <1>5, <1>6 DEF IInv, TypeOK
<1>8. job' \in Jobs' /\ (job' # Idle => job'.next = 1)
  <2>1. CASE job' = Idle
    BY <2>1 DEF Idle, Jobs, Goals
  <2>2. CASE job' # Idle
    BY <1>1, <1>2, <1>4, <1>6, <2>2 DEF Jobs
  <2> QED BY <2>1, <2>2
<1>9. TypeOK'
  <2>1. /\ profileFile' \in Profiles /\ descriptorFile' \in [Tools -> Descriptors]
        /\ adapter' \in Profiles \cup {None} /\ obtained' \subseteq Grants'
        /\ now' \in 0..MaxTime
        /\ edits' \in [profile : 0..MaxEdits.profile, descriptor : 0..MaxEdits.descriptor]
    BY <1>1, <1>5 DEF IInv, TypeOK, files
  <2>2. job' # Idle => adapter' # None /\ job'.next <= Len(adapter'.order) + 1
    BY <1>1, <1>4, <1>8 DEF IInv, TypeOK
  <2>3. \A f \in envelopes' : f.call \in Calls /\ f.descriptor \in Descriptors
    BY <1>2 DEF IInv, TypeOK
  <2>4. binding' # None => binding'.definition \in Definitions /\ binding'.envelope \in envelopes'
    BY <1>2 DEF IInv, TypeOK
  <2>5. assessment' # None =>
          /\ assessment'.status \in {"passed", "review_required", "refused", "invalid"}
          /\ assessment'.envelope \in envelopes' /\ assessment'.context.envelope \in envelopes'
    BY <1>1, <1>2, AssessmentStands
  <2> QED BY <1>7, <1>8, <2>1, <2>2, <2>3, <2>4, <2>5 DEF TypeOK
<1>10. ContextIsBuilt'
  BY <1>1, <1>2, <1>6, BuiltFromMore DEF IInv, ContextIsBuilt
<1>11. JobIsPrepared'
  <2>1. SUFFICES ASSUME job' # Idle PROVE PreparedJob(job', adapter', envelopes', obtained')
    BY DEF JobIsPrepared
  <2>2. job'.stage = "judge" /\ job'.envelope \in envelopes' /\ BuiltFrom(envelopes', obtained', job'.context)
    BY <1>2, <1>6, <2>1
  <2> QED BY <2>2 DEF PreparedJob
<1>12. FilesAreRead'
  BY <1>1, <1>4, <1>8 DEF FilesAreRead
<1>13. BindingIsReviewed'
  BY <1>2 DEF IInv, BindingIsReviewed
<1>14. GrantsAreReviewed'
  BY <1>1 DEF IInv, GrantsAreReviewed
<1>15. PassedChecks(assessment, envelopes, obtained)'
  BY <1>1, <1>2, PassedWithMore DEF IInv
<1> QED BY <1>9, <1>10, <1>11, <1>12, <1>13, <1>14, <1>15 DEF IInv

LEMMA JudgeKeeps == IInv /\ Judge => IInv'
<1> SUFFICES ASSUME IInv, Judge PROVE IInv'
  OBVIOUS
<1>1. /\ job # Idle /\ job.stage = "judge" /\ job' = Idle
      /\ UNCHANGED <<files, adapter, envelopes, context, binding, obtained, now, edits>>
  BY DEF Judge, Validated
<1>2. job.envelope \in envelopes /\ BuiltFrom(envelopes, obtained, job.context)
  BY <1>1 DEF IInv, JobIsPrepared, PreparedJob
<1>3. PICK status \in {"invalid", Verdict(adapter, job.envelope, job.context)} :
         assessment' = [status |-> status, profile |-> adapter,
                        envelope |-> job.envelope, context |-> job.context]
  BY DEF Judge, Assessment
<1>4. /\ status \in {"passed", "review_required", "refused", "invalid"}
      /\ status = "passed" =>
            /\ ReviewedCall(adapter, job.envelope) /\ Consented(job.envelope, job.context)
            /\ Prepared(Contract(adapter, job.envelope.call.tool), job.envelope, job.context)
  BY <1>3, VerdictPassed
<1>5. PassedChecks(assessment', envelopes, obtained)
  BY <1>2, <1>3, <1>4 DEF PassedChecks, Tool
<1>6. /\ assessment'.status \in {"passed", "review_required", "refused", "invalid"}
      /\ assessment'.envelope \in envelopes /\ assessment'.context.envelope \in envelopes
  BY <1>2, <1>3, <1>4 DEF BuiltFrom
<1> QED BY <1>1, <1>5, <1>6, IdleKeeps

LEMMA ObtainKeeps == IInv /\ Obtain => IInv'
<1> SUFFICES ASSUME IInv, Obtain PROVE IInv'
  OBVIOUS
<1>1. PICK e \in envelopes, until \in 1..MaxTime, decision \in Decisions, tx \in Transactions \cup {None} :
         /\ e = Envelope(adapter, e.call, e.descriptor, e.meta)
         /\ obtained' = obtained \cup
              {[envelope |-> e, under |-> adapter, decision |-> decision,
                from |-> now, until |-> until, transaction |-> tx]}
  BY DEF Obtain
<1>2. adapter \in Profiles /\ job = Idle /\ UNCHANGED <<files, adapter, job, artifacts, now, edits>>
  BY DEF IInv, TypeOK, Obtain
<1>3. obtained \subseteq obtained' /\ envelopes' = envelopes
  BY <1>1, <1>2 DEF artifacts
<1>4. TypeOK'
  <2>1. Grants' = Grants /\ Contexts' = Contexts
    BY <1>2 DEF artifacts, Grants, Contexts
  <2>2. obtained' \subseteq Grants
    <3>1. now \in 0..now
      BY DEF IInv, TypeOK
    <3>2. [envelope |-> e, under |-> adapter, decision |-> decision,
           from |-> now, until |-> until, transaction |-> tx] \in Grants
      BY <1>2, <3>1 DEF Grants
    <3> QED BY <1>1, <3>2 DEF IInv, TypeOK
  <2>3. job' \in Jobs'
    BY <1>2 DEF Idle, Jobs, Goals
  <2> QED BY <1>2, <2>1, <2>2, <2>3 DEF IInv, TypeOK, files, artifacts
<1>5. GrantsAreReviewed'
  <2>1. e.resources = Resources(adapter, e.call)
    BY <1>1, EnvelopeSays
  <2> QED BY <1>1, <2>1 DEF IInv, GrantsAreReviewed
<1>6. JobIsPrepared' /\ FilesAreRead'
  BY <1>2 DEF JobIsPrepared, FilesAreRead
<1>7. ContextIsBuilt' /\ PassedChecks(assessment, envelopes, obtained)'
  BY <1>2, <1>3, BuiltFromMore, PassedWithMore DEF IInv, ContextIsBuilt, artifacts
<1>8. BindingIsReviewed'
  BY <1>2 DEF IInv, BindingIsReviewed, artifacts
<1> QED BY <1>4, <1>5, <1>6, <1>7, <1>8 DEF IInv

LEMMA BuildContextKeeps == IInv /\ BuildContext => IInv'
<1> SUFFICES ASSUME IInv, BuildContext PROVE IInv'
  OBVIOUS
<1>1. PICK g \in obtained, s \in HostSettings : context' = Context(g.envelope, g, s)
  BY DEF BuildContext
<1>2. job = Idle /\ UNCHANGED <<files, adapter, job, envelopes, binding, assessment, obtained, now, edits>>
  BY DEF BuildContext
<1>3. g \in Grants /\ g.envelope \in envelopes /\ now \in 0..now
  BY DEF IInv, TypeOK, Grants
<1>4. TypeOK'
  <2>1. context' \in Contexts /\ Contexts' = Contexts /\ Grants' = Grants
    BY <1>1, <1>2, <1>3 DEF Context, Contexts, Grants
  <2>2. job' \in Jobs'
    BY <1>2 DEF Idle, Jobs, Goals
  <2> QED BY <1>2, <2>1, <2>2 DEF IInv, TypeOK, files
<1>5. ContextIsBuilt'
  BY <1>1, <1>2, <1>3, ContextIsBuiltFrom DEF Context, ContextIsBuilt
<1>6. JobIsPrepared' /\ FilesAreRead'
  BY <1>2 DEF JobIsPrepared, FilesAreRead
<1>7. GrantsAreReviewed' /\ BindingIsReviewed' /\ PassedChecks(assessment, envelopes, obtained)'
  BY <1>2 DEF IInv, GrantsAreReviewed, BindingIsReviewed
<1> QED BY <1>4, <1>5, <1>6, <1>7 DEF IInv

LEMMA TickKeeps == IInv /\ Tick => IInv'
<1> SUFFICES ASSUME IInv, Tick PROVE IInv'
  OBVIOUS
<1>1. /\ job = Idle /\ now' = now + 1 /\ now < MaxTime
      /\ UNCHANGED <<files, adapter, job, artifacts, obtained, edits>>
  BY DEF Tick
<1>2. TypeOK'
  <2>1. now \in 0..MaxTime /\ MaxTime \in Nat
    BY BoundsAssumption DEF IInv, TypeOK
  <2>2. now' \in 0..MaxTime /\ 0..now \subseteq 0..now'
    BY <1>1, <2>1
  <2>3. Grants \subseteq Grants' /\ Contexts \subseteq Contexts'
    BY <1>1, <2>2 DEF Grants, Contexts, artifacts
  <2>4. job' \in Jobs'
    BY <1>1 DEF Idle, Jobs, Goals
  <2> QED BY <1>1, <2>2, <2>3, <2>4 DEF IInv, TypeOK, files, artifacts
<1>3. JobIsPrepared' /\ FilesAreRead'
  BY <1>1 DEF JobIsPrepared, FilesAreRead
<1>4. ContextIsBuilt' /\ GrantsAreReviewed' /\ BindingIsReviewed' /\ PassedChecks(assessment, envelopes, obtained)'
  BY <1>1 DEF IInv, artifacts, ContextIsBuilt, GrantsAreReviewed, BindingIsReviewed
<1> QED BY <1>2, <1>3, <1>4 DEF IInv

LEMMA EditKeeps == IInv /\ Edit => IInv'
<1> SUFFICES ASSUME IInv, Edit PROVE IInv'
  OBVIOUS
<1>1. UNCHANGED <<adapter, artifacts, obtained, now>>
  BY DEF Edit
<1>2. edits \in [profile : 0..MaxEdits.profile, descriptor : 0..MaxEdits.descriptor]
  BY DEF IInv, TypeOK
<1>3. /\ edits' \in [profile : 0..MaxEdits.profile, descriptor : 0..MaxEdits.descriptor]
      /\ profileFile' \in Profiles /\ descriptorFile' \in [Tools -> Descriptors]
  <2>1. CASE job' = job /\ edits.profile < MaxEdits.profile /\ profileFile' \in Profiles \ {profileFile}
             /\ edits' = [edits EXCEPT !.profile = @ + 1] /\ UNCHANGED descriptorFile
    BY <1>2, <2>1, BoundsAssumption DEF IInv, TypeOK
  <2>2. CASE /\ edits.descriptor < MaxEdits.descriptor
             /\ \E t \in Tools, d \in Descriptors : descriptorFile' = [descriptorFile EXCEPT ![t] = d]
             /\ edits' = [edits EXCEPT !.descriptor = @ + 1] /\ UNCHANGED profileFile
    BY <1>2, <2>2, BoundsAssumption DEF IInv, TypeOK
  <2> QED BY <2>1, <2>2 DEF Edit
<1>4. ContextIsBuilt' /\ GrantsAreReviewed' /\ BindingIsReviewed' /\ PassedChecks(assessment, envelopes, obtained)'
  BY <1>1 DEF IInv, artifacts, ContextIsBuilt, GrantsAreReviewed, BindingIsReviewed
<1>5. Jobs' = Jobs /\ Contexts' = Contexts /\ Grants' = Grants
  BY <1>1 DEF artifacts, Jobs, Contexts, Grants
<1>6. CASE job = Idle
  <2>1. job' = Idle
    BY <1>6 DEF Edit
  <2>2. JobIsPrepared' /\ FilesAreRead'
    BY <2>1 DEF JobIsPrepared, FilesAreRead
  <2>3. TypeOK'
    BY <1>1, <1>3, <1>5, <1>6, <2>1 DEF IInv, TypeOK, artifacts
  <2> QED BY <1>4, <2>2, <2>3 DEF IInv
<1>7. CASE job # Idle
  <2>1. job' = [job EXCEPT !.quiet = FALSE] /\ job \in Jobs
    BY <1>7 DEF Edit, IInv, TypeOK
  <2>2. job' = [goal |-> job.goal, stage |-> job.stage, next |-> job.next, quiet |-> FALSE,
                call |-> job.call, descriptor |-> job.descriptor, definition |-> job.definition,
                got |-> job.got, settings |-> job.settings, envelope |-> job.envelope,
                context |-> job.context]
    BY <2>1 DEF Jobs
  <2>3. job' \in Jobs
    BY <2>1, <2>2 DEF Jobs
  <2>4. PreparedJob(job, adapter, envelopes, obtained)
    BY <1>7 DEF IInv, JobIsPrepared
  <2>5. PreparedJob(job', adapter, envelopes, obtained)
    BY <2>2, <2>4 DEF PreparedJob, Binds, UsesGrant
  <2>6. JobIsPrepared' /\ FilesAreRead'
    BY <1>1, <2>2, <2>5 DEF JobIsPrepared, FilesAreRead, artifacts
  <2>7. TypeOK'
    BY <1>1, <1>3, <1>5, <1>7, <2>2, <2>3 DEF IInv, TypeOK, artifacts
  <2> QED BY <1>4, <2>6, <2>7 DEF IInv
<1> QED BY <1>6, <1>7

LEMMA NextIInv == IInv /\ [Next]_vars => IInv'
<1> SUFFICES ASSUME IInv, [Next]_vars PROVE IInv'
  OBVIOUS
<1>1. CASE UNCHANGED vars
  BY <1>1 DEF vars, IInv, TypeOK, Jobs, Grants, Contexts, ContextIsBuilt, GrantsAreReviewed,
              JobIsPrepared, FilesAreRead, HoldsReviewed, BindingIsReviewed
<1>2. CASE Starts
  BY <1>2, StartsKeep
<1> QED BY <1>1, <1>2, LoadKeeps, ReadDescriptorKeeps, RaiseKeeps, ReadReviewedKeeps, BuildKeeps,
           JudgeKeeps, ObtainKeeps, BuildContextKeeps, TickKeeps, EditKeeps DEF Next, Starts

-----------------------------------------------------------------------------
(*                           What a host relies on                         *)

LEMMA SpecIInv == Spec => []IInv
BY InitIInv, NextIInv, PTL DEF Spec

(* TypeOK: in whatever order a host loads profiles, has calls normalized   *)
(* and assessed, and mixes up what it keeps, files, jobs and artifacts     *)
(* stay what their types say.                                              *)
THEOREM TypeCorrect == Spec => []TypeOK
<1> IInv => TypeOK
  BY DEF IInv
<1> QED BY SpecIInv, PTL

(* ConsentCoversCall: no combination of contexts, envelopes and adapters   *)
(* hands off a call a person has not consented to.                         *)
THEOREM NoCallWithoutConsent == Spec => []ConsentCoversCall
<1>1. IInv => ConsentCoversCall
  <2> SUFFICES ASSUME IInv, NEW a \in Handoffs
               PROVE  \E g \in obtained :
                         /\ g.decision = "approved"
                         /\ g.envelope.call = a.envelope.call /\ g.envelope.resources = a.envelope.resources
                         /\ g.from <= a.context.at /\ a.context.at < g.until
    BY DEF ConsentCoversCall
  <2>1. Consented(a.envelope, a.context) /\ BuiltFrom(envelopes, obtained, a.context)
    BY DEF IInv, Handoffs, PassedChecks
  <2> QED BY <2>1 DEF Consented, BuiltFrom
<1> QED BY <1>1, SpecIInv, PTL

(* TransactionCoversCall: what the profile that judged requires to undo a  *)
(* call was prepared for that call.                                        *)
THEOREM NoCallWithoutTransaction == Spec => []TransactionCoversCall
<1>1. IInv => TransactionCoversCall
  <2> SUFFICES ASSUME IInv, NEW a \in Handoffs, Tool(a).transaction
               PROVE  \E g \in obtained :
                         /\ g.envelope.call = a.envelope.call
                         /\ g.transaction # None
                         /\ Tool(a).rollback => g.transaction.rollback
    BY DEF TransactionCoversCall
  <2>1. Prepared(Tool(a), a.envelope, a.context) /\ BuiltFrom(envelopes, obtained, a.context)
    BY DEF IInv, Handoffs, PassedChecks
  <2> QED BY <2>1 DEF Prepared, BuiltFrom
<1> QED BY <1>1, SpecIInv, PTL

(* ModelSawReviewedSchema: a function call is handed off only if the model *)
(* was given the schema that was reviewed.                                 *)
THEOREM SchemaWasReviewed == Spec => []ModelSawReviewedSchema
<1>1. IInv => ModelSawReviewedSchema
  <2> SUFFICES ASSUME IInv, NEW b \in {binding} \ {None}, NEW a \in Handoffs,
                      ValidPreflight(b, a.envelope, a.context, a)
               PROVE  /\ b.definition.parameters = Tool(a).descriptor.input
                      /\ b.definition.name = a.envelope.call.tool
    BY DEF ModelSawReviewedSchema
  <2>1. a.envelope.descriptor = Contract(a.profile, a.envelope.call.tool).descriptor
    BY DEF IInv, Handoffs, PassedChecks, ReviewedCall
  <2>2. a.envelope.descriptor.input = b.definition.parameters
    BY DEF IInv, BindingIsReviewed, ValidPreflight
  <2> QED BY <2>1, <2>2 DEF ValidPreflight, Tool
<1> QED BY <1>1, SpecIInv, PTL

(* PreflightIsOneReview: a preflight's resources are those the profile     *)
(* that judged it binds.                                                   *)
THEOREM OnePreflightOneReview == Spec => []PreflightIsOneReview
<1>1. IInv => PreflightIsOneReview
  BY DEF IInv, BindingIsReviewed, ValidPreflight, PreflightIsOneReview
<1> QED BY <1>1, SpecIInv, PTL

(* JudgedAgainstFiles: an assessment that was not refused as invalid read  *)
(* every descriptor as it was reviewed, unless a file was replaced while   *)
(* it was reading.                                                         *)
THEOREM FilesAreJudged == Spec => JudgedAgainstFiles
<1> DEFINE Judged ==
      assessment' \notin {assessment, None} /\ job.quiet /\ assessment'.status # "invalid" =>
          \A t \in DOMAIN adapter.tools : descriptorFile[t] = Contract(adapter, t).descriptor
<1>1. IInv /\ [Next]_vars => [Judged]_vars
  <2> SUFFICES ASSUME IInv, Next, assessment' \notin {assessment, None}, job.quiet,
                      assessment'.status # "invalid", NEW t \in DOMAIN adapter.tools
               PROVE  descriptorFile[t] = Contract(adapter, t).descriptor
    OBVIOUS
  <2>1. Judge
    <3>1. ~Starts
      BY StartsLeave
    <3>2. ~(Load \/ ReadDescriptor \/ Raise \/ ReadReviewed \/ Build \/ Obtain \/ BuildContext \/ Tick \/ Edit)
      BY DEF Load, ReadDescriptor, Raise, ReadReviewed, Build, Obtain, BuildContext, Tick, Edit, artifacts
    <3> QED BY <3>1, <3>2 DEF Next, Starts
  <2>2. job # Idle /\ job.next > Len(adapter.order)
    BY <2>1 DEF Judge, Validated, Assessment
  <2>3. adapter \in Profiles /\ job \in Jobs /\ DOMAIN adapter.order = 1..Len(adapter.order)
    BY <2>2, BusyAdapter DEF IInv
  <2>4. PICK k \in DOMAIN adapter.order : t = adapter.order[k]
    <3>1. DOMAIN adapter.tools = {adapter.order[k] : k \in DOMAIN adapter.order}
      BY <2>3, ProfileAssumption
    <3> QED BY <3>1
  <2>5. Len(adapter.order) \in Nat /\ job.next \in Nat
    BY <2>2, <2>3, BusyAdapter, ProfileAssumption DEF IInv
  <2>6. HoldsReviewed(adapter, adapter.order[k])
    BY <2>2, <2>3, <2>4, <2>5 DEF IInv, FilesAreRead
  <2> QED BY <2>4, <2>6 DEF HoldsReviewed
<1>2. Spec => [][Judged]_vars
  BY <1>1, SpecIInv, PTL DEF Spec
<1> QED BY <1>2 DEF JudgedAgainstFiles

=============================================================================
