---------------------------- MODULE McpToolCall ----------------------------
(***************************************************************************)
(* Deciding whether a host may hand a proposed tool call to its executor.  *)
(*                                                                         *)
(* A reviewed profile says what each tool does and what a call of it       *)
(* needs; the tool descriptors the reviewers saw are files beside it.  An  *)
(* adapter loads the profile once and keeps it.  It normalizes a call into *)
(* an envelope, the host obtains a person's consent and prepares a         *)
(* transaction for the envelope, both go into a context, and the           *)
(* assessment of envelope and context allows the handoff or refuses it.    *)
(* Every artifact names the others by hash, so a record here stands for    *)
(* its hash.  Function calls of the Responses API take the same way after  *)
(* their definition is compared with the reviewed descriptor.              *)
(*                                                                         *)
(* The descriptor files are read again, one after another, each time the   *)
(* profile is validated, and all files may be replaced at any moment.  A   *)
(* host keeps its artifacts and may present them later, to another         *)
(* adapter, or in the wrong combination.                                   *)
(***************************************************************************)
EXTENDS Naturals, Sequences, FiniteSets

CONSTANTS
    Profiles,      \* contents of the profile file
    Tools,         \* names of the tools that are reviewed
    Descriptors,   \* contents of a descriptor file
    Calls,         \* tools/call requests with their transport binding
    Definitions,   \* function tools as a model was given them
    ArgumentAt,    \* arguments |-> pointer |-> value, Absent if there is no
                   \* non-empty string
    ArgumentSize,  \* arguments |-> bytes
    Conforming,    \* input schema |-> arguments that conform to it
    Portable,      \* path |-> its normal form, for the paths accepted
    Absent, Invalid, None,
    HostSettings,  \* what a host reports: server, capabilities, checks
    Decisions, Transactions,   \* what a person decides, and what a host prepares
    FirstProfile,  \* the profile file to begin with
    StrictProtocol,\* the protocol version that requires headers
    MaxTime, MaxEdits, MaxEnvelopes, MaxObtained   \* bounds

ASSUME BoundsAssumption ==
    {MaxTime, MaxEdits.profile, MaxEdits.descriptor, MaxEnvelopes, MaxObtained} \subseteq Nat
(* A profile lists its tools in some order. *)
ASSUME ProfileAssumption ==
    /\ FirstProfile \in Profiles /\ DOMAIN FirstProfile.tools = Tools
    /\ \A t \in Tools : FirstProfile.tools[t].descriptor \in Descriptors
    /\ \A p \in Profiles : /\ p.order \in Seq(Tools)
                          /\ DOMAIN p.tools = {p.order[k] : k \in DOMAIN p.order}
ASSUME ArgumentsAssumption == \A a \in DOMAIN ArgumentAt : ArgumentSize[a] \in Nat

(* What an adapter is doing, which stage it is in, and which descriptor    *)
(* file the validation before it reads next.                               *)
Idle ==
    [goal |-> None, stage |-> None, next |-> 1, quiet |-> FALSE, call |-> None,
     descriptor |-> None, definition |-> None, got |-> None, settings |-> None,
     envelope |-> None, context |-> None]

VARIABLES
    profileFile,   \* contents of the profile file
    descriptorFile,\* tool |-> contents of its descriptor file
    adapter,       \* the profile an adapter was loaded with
    job,           \* what the adapter is doing; quiet: no file was replaced since
    envelopes,     \* the envelopes the host keeps
    context, binding,   \* the last of each that was made
    assessment,    \* the last assessment, None while another one is made
    obtained,      \* consents and transactions the host obtained, by envelope
    now,           \* the host's clock
    edits          \* bound: replacements of files

vars == <<profileFile, descriptorFile, adapter, job, envelopes, context,
          binding, assessment, obtained, now, edits>>
artifacts == <<envelopes, context, binding, assessment>>
files == <<profileFile, descriptorFile>>

Goals == {None, "normalize", "assess", "command", "bind", "preflight"}

-----------------------------------------------------------------------------
(* A profile that validates, its descriptor files aside: sealed by its own *)
(* hash, with its fixed policies, and no contract that contradicts itself. *)
ValidContract(c) ==
    /\ c.bindings # {}
    /\ c.risk = "destructive" => c.mode = "review_required"
    /\ c.destructive => c.mutating
    /\ c.rollback => c.transaction
    /\ c.risk = "read_only" => ~c.mutating

ValidProfile(p) == p.sealed /\ \A t \in DOMAIN p.tools : ValidContract(p.tools[t])

Contract(p, tool) == p.tools[tool]

(* A descriptor in order by itself: its schemas bounded and without        *)
(* references to the outside, its hints and name well-formed.              *)
ValidDescriptor(d) == d.bounded

(* The tool's descriptor file holds what was reviewed for the profile. *)
HoldsReviewed(p, t) ==
    ValidDescriptor(descriptorFile[t]) /\ descriptorFile[t] = Contract(p, t).descriptor

(* The value a resource binding finds in the arguments.  Only relative     *)
(* paths that mean the same on every platform are accepted, as their       *)
(* normal form.                                                            *)
Resolve(b, args) ==
    LET raw == ArgumentAt[args][b.pointer]
    IN  IF raw = Absent THEN Invalid
        ELSE IF b.type # "workspace_path" THEN raw
        ELSE IF raw \in DOMAIN Portable THEN Portable[raw] ELSE Invalid

Resources(p, call) ==
    IF call.tool \in DOMAIN p.tools
      THEN {[binding |-> b, value |-> Resolve(b, call.args)] : b \in Contract(p, call.tool).bindings}
      ELSE {}

(* The critical findings of normalization. *)
Findings(p, call, d) ==
    {f \in {"MCP001", "MCP002", "MCP003", "MCP004"} :
        \/ f = "MCP001" /\ call.tool \notin DOMAIN p.tools
        \/ f = "MCP002" /\ \E r \in Resources(p, call) : r.value = Invalid
        \/ f = "MCP003" /\ call.sensitive
        \/ f = "MCP004" /\ call.args \notin Conforming[d.input]}

(* The envelope carries the profile's id, and the resources the profile's  *)
(* bindings found; not the profile's hash.  meta is the function           *)
(* definition the request names in its _meta, if it came from one.         *)
Envelope(p, call, d, meta) ==
    [profileId |-> p.id, call |-> call, descriptor |-> d, meta |-> meta,
     resources |-> Resources(p, call), findings |-> Findings(p, call, d),
     task |-> call.task \/ d.taskRequired]

(* The context binds what the host obtained to one envelope. *)
Context(e, g, settings) ==
    [envelope |-> e, at |-> now, settings |-> settings,
     consent |-> [envelope |-> e, decision |-> g.decision, from |-> g.from, until |-> g.until],
     transaction |-> g.transaction]

-----------------------------------------------------------------------------
(* Hints of the server that the reviewed contract contradicts. *)
Understated(c) ==
    {h \in {"readOnly", "notDestructive", "closedWorld", "idempotent"} :
        \/ h = "readOnly" /\ c.mutating
        \/ h = "notDestructive" /\ c.destructive
        \/ h = "closedWorld" /\ c.openWorld
        \/ h = "idempotent" /\ ~c.idempotent}

(* The call is one of the reviewed tool, and a plain one. *)
ReviewedCall(p, e) ==
    /\ e.call.tool \in DOMAIN p.tools
    /\ e.profileId = p.id
    /\ e.descriptor = Contract(p, e.call.tool).descriptor
    /\ e.call.protocol \in p.protocols
    /\ e.call.headers \in IF e.call.protocol = StrictProtocol
                            THEN {"named"} ELSE {"named", None}
    /\ ~e.task /\ ~e.call.mrtr
    /\ ArgumentSize[e.call.args] <= Contract(p, e.call.tool).maxSize
    /\ e.findings = {}
    /\ e.descriptor.hints \cap Understated(Contract(p, e.call.tool)) = {}

(* The host vouches for the server, the schema and the resources of this   *)
(* envelope, and grants exactly the tool's capabilities.                   *)
HostVouches(c, e, x) ==
    /\ x.settings.authenticated /\ x.settings.server = c.server
    /\ x.settings.schema = "passed"
    /\ x.envelope.descriptor.input = e.descriptor.input
    /\ x.envelope.call.args = e.call.args
    /\ x.settings.capabilities = c.capabilities
    /\ x.settings.resolution = "passed"
    /\ x.envelope.resources = e.resources
    /\ (\E r \in e.resources : r.binding.type = "workspace_path") => x.settings.symlinks

(* Faulty variant: consent to the same arguments and resources will do.    *)
ConsentedByContent(e, x) ==
    /\ x.consent.decision = "approved"
    /\ x.consent.envelope.call.args = e.call.args
    /\ x.consent.envelope.resources = e.resources
    /\ x.consent.from <= x.at /\ x.at < x.consent.until

(* A person consented to this envelope, from issued_at up to valid_until.  *)
Consented(e, x) ==
    /\ x.consent.decision = "approved"
    /\ x.consent.envelope = e
    /\ x.consent.from <= x.at /\ x.at < x.consent.until

(* Faulty variant: a transaction is checked if there is one. *)
PreparedIfPresent(c, e, x) ==
    x.transaction # None => x.envelope = e /\ x.transaction.status = "prepared"

(* A transaction was prepared for this envelope, if and only if the tool   *)
(* requires one; with a plan to undo it where that is required.            *)
Prepared(c, e, x) ==
    IF c.transaction
      THEN /\ x.transaction # None
           /\ x.transaction.status = "prepared"
           /\ x.envelope = e
           /\ c.rollback => x.transaction.rollback /\ x.transaction.plan
      ELSE x.transaction = None

(* Faulty variant: a status of the single checks. *)
VerdictOfChecks(p, e, x) == IF ReviewedCall(p, e) THEN "passed" ELSE "failed"

(* What every check but those of validity says. *)
Verdict(p, e, x) ==
    IF ~ReviewedCall(p, e) THEN "refused"
    ELSE LET c == Contract(p, e.call.tool) IN
         IF HostVouches(c, e, x) /\ Consented(e, x) /\ Prepared(c, e, x)
           THEN IF c.mode = "review_required" THEN "review_required" ELSE "passed"
           ELSE "refused"

Assessment(p, e, x, status) == [status |-> status, profile |-> p, envelope |-> e, context |-> x]

-----------------------------------------------------------------------------
(* What a host obtained for an envelope under a profile. *)
Grants ==
    [envelope : envelopes, under : Profiles, decision : Decisions,
     from : 0..now, until : 1..MaxTime, transaction : Transactions \cup {None}]

Contexts ==
    [envelope : envelopes, at : 0..now, settings : HostSettings,
     consent : [envelope : envelopes, decision : Decisions, from : 0..now, until : 1..MaxTime],
     transaction : Transactions \cup {None}]

Jobs ==
    [goal : Goals, stage : {None, "review", "build", "judge"}, next : Nat \ {0}, quiet : BOOLEAN,
     call : Calls \cup {None}, descriptor : Descriptors \cup {None},
     definition : Definitions \cup {None}, got : obtained \cup {None},
     settings : HostSettings \cup {None}, envelope : envelopes \cup {None},
     context : Contexts \cup {None}]

TypeOK ==
    /\ profileFile \in Profiles
    /\ descriptorFile \in [Tools -> Descriptors]
    /\ adapter \in Profiles \cup {None}
    /\ job \in Jobs
    /\ job # Idle => adapter # None /\ job.next <= Len(adapter.order) + 1
    /\ \A e \in envelopes : e.call \in Calls /\ e.descriptor \in Descriptors
    /\ binding # None => binding.definition \in Definitions /\ binding.envelope \in envelopes
    /\ context \in Contexts \cup {None} /\ obtained \subseteq Grants
    /\ assessment # None =>
          /\ assessment.status \in {"passed", "review_required", "refused", "invalid"}
          /\ assessment.envelope \in envelopes /\ assessment.context.envelope \in envelopes
    /\ now \in 0..MaxTime /\ edits \in [profile : 0..MaxEdits.profile, descriptor : 0..MaxEdits.descriptor]

Init ==
    /\ profileFile = FirstProfile
    /\ descriptorFile = [t \in Tools |-> Contract(FirstProfile, t).descriptor]
    /\ adapter = None
    /\ job = Idle
    /\ envelopes = {} /\ context = None /\ binding = None /\ assessment = None
    /\ obtained = {}
    /\ now = 0 /\ edits = [profile |-> 0, descriptor |-> 0]

(* load_mcp_tool_call_profile: a host opens an adapter on the profile. *)
Load ==
    /\ job = Idle /\ adapter # profileFile
    /\ adapter' = profileFile
    /\ UNCHANGED <<files, job, artifacts, obtained, now, edits>>

(* A job validates the profile before each stage: before it reads the      *)
(* reviewed descriptor of a function, before it builds the envelope, and   *)
(* before it judges.                                                       *)
FirstStage(goal) ==
    CASE goal \in {"bind", "preflight"} -> "review"
      [] goal \in {"normalize", "command"} -> "build"
      [] goal = "assess" -> "judge"

Validated(stage) ==
    job # Idle /\ job.stage = stage /\ ValidProfile(adapter) /\ job.next > Len(adapter.order)

Start(j) ==
    /\ adapter # None /\ job = Idle
    /\ job' = [j EXCEPT !.stage = FirstStage(j.goal), !.quiet = TRUE]
    /\ assessment' = IF j.goal \in {"normalize", "bind"} THEN assessment ELSE None
    /\ UNCHANGED <<files, adapter, envelopes, context, binding, obtained, now, edits>>

(* The host has the call normalized with the descriptor the server sent    *)
(* for the tool.                                                           *)
Normalize ==
    \E call \in Calls, d \in Descriptors :
        /\ d.name = call.tool
        /\ Start([Idle EXCEPT !.goal = "normalize", !.call = call, !.descriptor = d])

(* `mcp assess`: envelope, context and assessment in one command, with     *)
(* what the host obtained for the call under this profile.                 *)
Command ==
    \E g \in obtained, d \in Descriptors, s \in HostSettings :
        /\ g.under = adapter /\ d.name = g.envelope.call.tool
        /\ Start([Idle EXCEPT !.goal = "command", !.call = g.envelope.call,
                              !.descriptor = d, !.got = g, !.settings = s])

(* The host has a stored envelope assessed in a stored context. *)
Assess ==
    \E e \in envelopes :
        /\ context # None
        /\ Start([Idle EXCEPT !.goal = "assess", !.envelope = e, !.context = context])

(* A finalized, strict function call with the name of its definition.      *)
(* The adapter makes the request itself, in the newest protocol version.   *)
FunctionCall(call, def) ==
    /\ def.strict /\ def.name = call.tool
    /\ call.completed /\ call.headers = "named" /\ call.protocol = StrictProtocol
    /\ ~call.task /\ ~call.mrtr

Bind ==
    \E call \in Calls, def \in Definitions :
        /\ FunctionCall(call, def)
        /\ Start([Idle EXCEPT !.goal = "bind", !.call = call, !.definition = def])

Preflight ==
    \E g \in obtained, def \in Definitions, s \in HostSettings :
        /\ g.under = adapter /\ FunctionCall(g.envelope.call, def)
        /\ Start([Idle EXCEPT !.goal = "preflight", !.call = g.envelope.call,
                              !.definition = def, !.got = g, !.settings = s])

-----------------------------------------------------------------------------
(* Validation reads the next descriptor file. *)
ReadDescriptor ==
    /\ job # Idle /\ job.next \in DOMAIN adapter.order /\ ValidProfile(adapter)
    /\ HoldsReviewed(adapter, adapter.order[job.next])
    /\ job' = [job EXCEPT !.next = @ + 1]
    /\ UNCHANGED <<files, adapter, artifacts, obtained, now, edits>>

ProfileFails ==
    \/ ~ValidProfile(adapter)
    \/ job.next \in DOMAIN adapter.order /\ ~HoldsReviewed(adapter, adapter.order[job.next])

(* An invalid profile or descriptor normalizes nothing. *)
Raise ==
    /\ \/ job # Idle /\ job.stage # "judge" /\ ProfileFails
       \/ Validated("build") /\ ~ValidDescriptor(job.descriptor)
    /\ job' = Idle
    /\ UNCHANGED <<files, adapter, artifacts, obtained, now, edits>>

(* Faulty variant: the definition need only have the tool's name. *)
ReadReviewedUnchecked ==
    /\ Validated("review")
    /\ job.call.tool \in DOMAIN adapter.tools
    /\ job' = [job EXCEPT !.descriptor = descriptorFile[job.call.tool], !.stage = "build", !.next = 1]
    /\ UNCHANGED <<files, adapter, artifacts, obtained, now, edits>>

(* The reviewed descriptor of the function is read once more, after the    *)
(* validation, and its input schema must be the definition's parameters.   *)
(* The envelope will be made with it, after another validation.            *)
ReadReviewed ==
    /\ Validated("review")
    /\ IF /\ job.call.tool \in DOMAIN adapter.tools
          /\ descriptorFile[job.call.tool].input = job.definition.parameters
         THEN job' = [job EXCEPT !.descriptor = descriptorFile[job.call.tool],
                                 !.stage = "build", !.next = 1]
         ELSE job' = Idle
    /\ UNCHANGED <<files, adapter, artifacts, obtained, now, edits>>

(* build_mcp_tool_call_envelope; a binding names it and the definition,    *)
(* and a context binds it to what the host obtained.  What follows is the  *)
(* assessment, with a validation of its own.                               *)
Build ==
    /\ Validated("build") /\ ValidDescriptor(job.descriptor)
    /\ LET meta == IF job.goal \in {"bind", "preflight"} THEN job.definition ELSE None
           e == Envelope(adapter, job.call, job.descriptor, meta) IN
          /\ Cardinality(envelopes \cup {e}) <= MaxEnvelopes
          /\ envelopes' = envelopes \cup {e}
          /\ binding' = IF job.goal \in {"bind", "preflight"}
                         THEN [definition |-> job.definition, profile |-> adapter, envelope |-> e]
                         ELSE binding
          /\ IF job.goal \in {"normalize", "bind"}
               THEN job' = Idle /\ UNCHANGED context
               ELSE LET x == Context(e, job.got, job.settings) IN
                    /\ context' = x
                    /\ job' = [Idle EXCEPT !.goal = job.goal, !.stage = "judge", !.quiet = job.quiet,
                                           !.envelope = e, !.context = x]
    /\ UNCHANGED <<files, adapter, assessment, obtained, now, edits>>

(* Faulty variant: the adapter trusts the validation it was opened with. *)
JudgeWithoutFiles ==
    /\ job # Idle /\ job.stage = "judge"
    /\ assessment' = Assessment(adapter, job.envelope, job.context,
                                Verdict(adapter, job.envelope, job.context))
    /\ job' = Idle
    /\ UNCHANGED <<files, adapter, envelopes, context, binding, obtained, now, edits>>

(* assess_mcp_tool_call *)
Judge ==
    /\ \/ /\ job # Idle /\ job.stage = "judge" /\ ProfileFails
          /\ assessment' = Assessment(adapter, job.envelope, job.context, "invalid")
       \/ /\ Validated("judge")
          /\ assessment' = Assessment(adapter, job.envelope, job.context,
                                      Verdict(adapter, job.envelope, job.context))
    /\ job' = Idle
    /\ UNCHANGED <<files, adapter, envelopes, context, binding, obtained, now, edits>>

-----------------------------------------------------------------------------
(* The host asks a person to consent to an envelope of the current         *)
(* adapter, for a time, and prepares a transaction or not.                 *)
Obtain ==
    \E e \in envelopes, until \in 1..MaxTime, decision \in Decisions,
       tx \in Transactions \cup {None} :
        /\ adapter # None /\ job = Idle /\ now < until
        /\ e = Envelope(adapter, e.call, e.descriptor, e.meta)
        /\ Cardinality(obtained) < MaxObtained
        /\ obtained' = obtained \cup
             {[envelope |-> e, under |-> adapter, decision |-> decision,
               from |-> now, until |-> until, transaction |-> tx]}
        /\ UNCHANGED <<files, adapter, job, artifacts, now, edits>>

(* build_mcp_host_context for an envelope the host keeps. *)
BuildContext ==
    \E g \in obtained, s \in HostSettings :
        /\ job = Idle
        /\ context' = Context(g.envelope, g, s)
        /\ UNCHANGED <<files, adapter, job, envelopes, binding, assessment,
                       obtained, now, edits>>

(* Time passes.  An operation reads the clock at most once. *)
Tick == job = Idle /\ now < MaxTime /\ now' = now + 1
        /\ UNCHANGED <<files, adapter, job, artifacts, obtained, edits>>

(* Another program replaces the profile or a descriptor.  Only Load reads  *)
(* the profile's file, so that it may as well be replaced between jobs.    *)
Edit ==
    /\ \/ /\ job = Idle /\ edits.profile < MaxEdits.profile
          /\ profileFile' \in Profiles \ {profileFile}
          /\ edits' = [edits EXCEPT !.profile = @ + 1]
          /\ UNCHANGED <<descriptorFile, job>>
       \/ /\ edits.descriptor < MaxEdits.descriptor
          /\ \E t \in Tools, d \in Descriptors :
                d.name = t /\ d # descriptorFile[t] /\ descriptorFile' = [descriptorFile EXCEPT ![t] = d]
          /\ edits' = [edits EXCEPT !.descriptor = @ + 1]
          /\ job' = IF job = Idle THEN job ELSE [job EXCEPT !.quiet = FALSE]
          /\ UNCHANGED profileFile
    /\ UNCHANGED <<adapter, artifacts, obtained, now>>

Next ==
    \/ Load \/ Normalize \/ Command \/ Assess \/ Bind \/ Preflight
    \/ ReadDescriptor \/ Raise \/ ReadReviewed \/ Build \/ Judge
    \/ Obtain \/ BuildContext \/ Tick \/ Edit

Spec == Init /\ [][Next]_vars

-----------------------------------------------------------------------------
(* Faulty variant: the profile is compared by its id. *)
ValidPreflightById(b, e, x, a) ==
    /\ b.envelope = e /\ a.envelope = e /\ a.context = x /\ x.consent.envelope = e
    /\ b.profile.id = e.profileId /\ a.profile.id = b.profile.id
    /\ b.definition.name = e.call.tool

(* validate_openai_function_tool_preflight: whether parts that each        *)
(* validate make one preflight.                                            *)
ValidPreflight(b, e, x, a) ==
    /\ b.envelope = e /\ a.envelope = e /\ a.context = x /\ x.consent.envelope = e
    /\ b.profile.id = e.profileId /\ a.profile = b.profile
    /\ b.definition.name = e.call.tool

Handoffs == {a \in {assessment} \ {None} : a.status = "passed"}
Tool(a) == Contract(a.profile, a.envelope.call.tool)

(* assess_mcp_tool_call: whatever contexts, envelopes and adapters a host  *)
(* combines, a call is handed off only if a person consented to this very  *)
(* call and its resources, and the consent was in force when it was judged *)
(* to be: each call needs a consent of its own.                            *)
ConsentCoversCall ==
    \A a \in Handoffs : \E g \in obtained :
        /\ g.decision = "approved"
        /\ g.envelope.call = a.envelope.call /\ g.envelope.resources = a.envelope.resources
        /\ g.from <= a.context.at /\ a.context.at < g.until

(* assess_mcp_tool_call: what the profile in force requires at the moment  *)
(* of the handoff was prepared for this call, also if the requirement is   *)
(* newer than the envelope and the context.                                *)
TransactionCoversCall ==
    \A a \in Handoffs : Tool(a).transaction =>
        \E g \in obtained :
            /\ g.envelope.call = a.envelope.call
            /\ g.transaction # None
            /\ Tool(a).rollback => g.transaction.rollback

(* build_openai_function_call_binding: in a preflight that hands off a     *)
(* call the model was given the reviewed input schema, although the        *)
(* descriptor's file is read again between the validations.                *)
ModelSawReviewedSchema ==
    \A b \in {binding} \ {None}, a \in Handoffs :
        ValidPreflight(b, a.envelope, a.context, a)
            => /\ b.definition.parameters = Tool(a).descriptor.input
               /\ b.definition.name = a.envelope.call.tool

(* validate_openai_function_tool_preflight: parts of preflights that were  *)
(* made under different versions of a profile do not make one, so that the *)
(* resources consented to and resolved are those the version that judged   *)
(* binds.                                                                  *)
PreflightIsOneReview ==
    \A b \in {binding} \ {None}, a \in Handoffs :
        ValidPreflight(b, a.envelope, a.context, a)
            => a.envelope.resources = Resources(a.profile, a.envelope.call)

(* validate_mcp_tool_call_profile: an adapter that was opened before its   *)
(* descriptors were replaced judges nothing from then on, as every         *)
(* assessment reads them again.                                            *)
JudgedAgainstFiles ==
    [][assessment' \notin {assessment, None} /\ job.quiet /\ assessment'.status # "invalid" =>
             \A t \in DOMAIN adapter.tools :
                descriptorFile[t] = Contract(adapter, t).descriptor]_vars
=============================================================================
