------------------------- MODULE DraftVerification -------------------------
(***************************************************************************)
(* The judgement AiNIR passes on one draft in one trusted context, from    *)
(* the loaded file to the Trust Gate's status: core.load_draft,            *)
(* draft_ast.parse_draft_ast, normalizer.normalize_draft,                  *)
(* verifier.verify_draft with operation_registry, safety_registry and      *)
(* policy_core, evidence_ledger.non_vacuous_evidence_findings,             *)
(* lowering_gate.assess_lowering_eligibility and                           *)
(* trust_gate.evaluate_trust_gate.  All of it is a pure function of the    *)
(* draft, the context and the registries, so this module has operators     *)
(* and no variables; VerifiedIntent builds its transition system on them.  *)
(*                                                                         *)
(* A draft is a record: bytes ("ok" or the way the loader failed), faults  *)
(* (the places whose shape is wrong, each [at, how]), workflow, ops (a     *)
(* sequence of [id, op, effects, capabilities, policies]), claims (a set   *)
(* of [id, status, refs], a ref being [id, attests]), policies, holes (a   *)
(* set of BOOLEAN, TRUE for a resolved one), environment, executable,      *)
(* ambiguity, unresolved, types, returns and boundary (the findings of     *)
(* transaction_contract, which TransactionBinding models).                 *)
(*                                                                         *)
(* Findings are the sets of the CRITICAL rules raised: warnings change no  *)
(* status.  A prefix or token match of the registries is a set the         *)
(* registry record holds, and a registry field that may be absent is a     *)
(* field that may be missing from its record.                              *)
(***************************************************************************)
EXTENDS Naturals, Sequences, FiniteSets

CONSTANT Registry   \* the safety registry, operation specs and ledger in use

Operations ==
    [id : STRING, op : STRING, effects : SUBSET STRING, capabilities : SUBSET STRING,
     policies : SUBSET STRING]

Claims == [id : STRING, status : STRING, refs : SUBSET [id : STRING, attests : BOOLEAN]]

DraftRecords ==
    [bytes : STRING, faults : SUBSET [at : STRING, how : STRING], workflow : STRING,
     ops : Seq(Operations), claims : SUBSET Claims, policies : SUBSET STRING,
     holes : SUBSET BOOLEAN, environment : STRING, executable : STRING,
     ambiguity : STRING, unresolved : BOOLEAN, types : SUBSET STRING,
     returns : STRING, boundary : SUBSET STRING]

None == "none"      \* an operation no spec or alias names, a field not given

\* An alias names an identifier that is not an alias itself (the registries'
\* own data; normalization resolves one step only).
ASSUME AliasesAreOneStep ==
    /\ \A e \in DOMAIN Registry.effectAlias :
          Registry.effectAlias[e] \notin DOMAIN Registry.effectAlias
    /\ \A w \in DOMAIN Registry.workflowAlias :
          Registry.workflowAlias[w] \in Registry.workflows
    /\ \A o \in DOMAIN Registry.opAlias :
          Registry.opAlias[o] \in DOMAIN Registry.specs

----------------------------------------------------------------------------
\* Registry lookups.

\* A registry field that defaults to the empty set when it is not given.
Of(rec, field) == IF field \in DOMAIN rec THEN rec[field] ELSE {}

Flag(rec, field) == field \in DOMAIN rec /\ rec[field]

NormalizeWorkflow(w) ==
    IF w \notin Registry.workflows /\ w \in DOMAIN Registry.workflowAlias
      THEN Registry.workflowAlias[w]
      ELSE w

NormalizeEffect(e) ==
    IF e \in DOMAIN Registry.effectAlias THEN Registry.effectAlias[e] ELSE e

ResolveOp(o) ==
    IF o \in DOMAIN Registry.specs
      THEN o
      ELSE IF o \in DOMAIN Registry.opAlias THEN Registry.opAlias[o] ELSE None

SpecOf(o) == Registry.specs[ResolveOp(o)]

\* The families of an effect: those its name matches, and the external ones,
\* which an effect outside the allow list makes unallowlisted.
Families(e) ==
    Of(Registry.families, e)
      \cup (IF e \in Registry.external THEN {"external"} ELSE {})
      \cup (IF e \in Registry.external \ Registry.allowedExternal
              THEN {"external_unallowlisted"} ELSE {})

FamiliesOf(es) == UNION {Families(e) : e \in es}

OpFamilies(o) == Of(Registry.opFamilies, o)

\* A workflow's semantic profile (one without a profile demands nothing).
Demand(w, field) ==
    IF w \in DOMAIN Registry.profiles THEN Of(Registry.profiles[w], field) ELSE {}

OpsOf(d) == {d.ops[i] : i \in DOMAIN d.ops}

EffectsOf(d) == UNION {op.effects : op \in OpsOf(d)}

RolesOf(d) ==
    UNION {Of(SpecOf(op.op), "semantic_roles")
             : op \in {o \in OpsOf(d) : ResolveOp(o.op) # None}}

----------------------------------------------------------------------------
\* Loading and the strict draft AST.

\* Places of a draft that may be left out.  Everything else must be given.
OptionalAt == {"operation.capabilities", "operation.policies", "claims",
               "claim.id", "claim.status", "claim.evidence", "evidence",
               "evidence.id", "policies", "policy.id", "holes", "hole.id",
               "hole.resolved", "executable", "input_type", "output_type",
               "return", "environment", "transaction", "transactions",
               "ambiguity", "unresolved_ambiguities"}

\* Of those, the ones for which an explicit null is not the same as nothing.
NullIsWrongAt == {"claim.status", "hole.resolved", "executable"}

ShapeTolerated(fault) ==
    \/ fault.how = "missing" /\ fault.at \in OptionalAt
    \/ fault.how = "null" /\ fault.at \in OptionalAt \ NullIsWrongAt

DuplicateIds(d) ==
    \E i, j \in DOMAIN d.ops : i # j /\ d.ops[i].id = d.ops[j].id

ParseFindings(d) ==
    IF d.bytes # "ok"
      THEN {"S000"}
      ELSE {f.at : f \in {g \in d.faults : ~ShapeTolerated(g)}}
             \cup (IF d.ops = <<>> THEN {"S003"} ELSE {})
             \cup (IF DuplicateIds(d) THEN {"S007"} ELSE {})
             \cup {"S040" : c \in {k \in d.claims :
                      k.status \notin {"hypothesized", "verified", "unverified"}}}

----------------------------------------------------------------------------
\* Normalization: aliases of the workflow, of effects and of operations.

NormalizeOp(op) ==
    [op EXCEPT !.effects = {NormalizeEffect(e) : e \in @},
               !.op = IF ResolveOp(@) # None THEN ResolveOp(@) ELSE @]

Normalize(d) ==
    [d EXCEPT !.workflow = NormalizeWorkflow(@),
              !.ops = [i \in DOMAIN @ |-> NormalizeOp(@[i])]]

SafetyCritical == {"payment_real", "raw_token", "raw_pii",
                   "destructive_delete", "external_unallowlisted"}

NormalizeFindings(d) ==
    {"N003" : e \in {a \in EffectsOf(d) \cap DOMAIN Registry.effectAlias :
                       Families(NormalizeEffect(a)) \cap SafetyCritical # {}}}

----------------------------------------------------------------------------
\* Evidence: what the ledger accepts (EvidenceBinding models decide itself).

Accepts(d, claim, ref) ==
    ~ref.attests /\ <<ref.id, claim.id, d.workflow>> \in Registry.ledger

Warranted(d, claim) ==
    claim.status = "verified" /\ \E ref \in claim.refs : Accepts(d, claim, ref)

\* The verifier asks for it of the claims that say they are verified...
TrustFindings(d) ==
    {"T001" : c \in {k \in d.claims : k.status = "verified" /\ ~Warranted(d, k)}}

\* ... and the gates of every claim, and that there is one.
EvidenceFindings(d) ==
    IF d.claims # {} /\ \A c \in d.claims : Warranted(d, c) THEN {} ELSE {"TR001"}

----------------------------------------------------------------------------
\* Operation specs.

AllowedEffects(s) ==
    IF "allowed_effects" \in DOMAIN s THEN s.allowed_effects
                                      ELSE Of(s, "required_effects")

AllowedFamilies(s) ==
    IF "allowed_effect_families" \in DOMAIN s
      THEN s.allowed_effect_families
      ELSE Of(s, "required_effect_families")

\* An effect an operation may declare: by name, by a family, or freely.
EffectAllowed(s, e) ==
    \/ Flag(s, "allow_extra_effects")
    \/ e \in AllowedEffects(s)
    \/ Families(e) \cap AllowedFamilies(s) # {}

AllowedCapabilities(s) ==
    (IF "allowed_capabilities" \in DOMAIN s
       THEN s.allowed_capabilities ELSE Of(s, "required_capabilities"))
      \cup UNION {Registry.startsWith[p] :
                    p \in IF "allowed_capability_prefixes" \in DOMAIN s
                            THEN s.allowed_capability_prefixes
                            ELSE Of(s, "required_capability_prefixes")}

\* Which of an operation's spec's demands fail in a workflow.
SpecFindings(w, op, s) ==
    LET families == FamiliesOf(op.effects)
        roles == Of(s, "semantic_roles")
        Fail(rule, holds) == IF holds THEN {} ELSE {rule}
    IN Fail("O002", Registry.trustedLevels = {} \/ s.trust \in Registry.trustedLevels)
       \cup Fail("O010", ~Flag(s, "forbidden_in_public_demo"))
       \cup Fail("O003", "allowed_workflows" \in DOMAIN s => w \in s.allowed_workflows)
       \cup Fail("O004", Of(s, "required_effects") \subseteq op.effects)
       \cup Fail("O005", Of(s, "required_effect_families") \subseteq families)
       \cup Fail("O011", roles \cap (Demand(w, "forbidden_roles")
                                       \cup Of(s, "forbidden_roles")) = {})
       \cup Fail("O006", Of(s, "forbidden_families")
                           \cap (families \cup OpFamilies(op.op)) = {})
       \cup Fail("O009", \A e \in op.effects : EffectAllowed(s, e))
       \cup Fail("O007", /\ Of(s, "required_capabilities") \subseteq op.capabilities
                         /\ \/ Of(s, "required_capability_any") = {}
                            \/ Of(s, "required_capability_any") \cap op.capabilities # {}
                         /\ \A p \in Of(s, "required_capability_prefixes") :
                               op.capabilities \cap Registry.startsWith[p] # {})
       \cup Fail("O012", \/ Flag(s, "allow_extra_capabilities")
                         \/ op.capabilities \subseteq AllowedCapabilities(s))
       \cup Fail("O008", \/ Of(s, "requires_policy_any") = {}
                         \/ Of(s, "requires_policy_any") \cap op.policies # {})

OperationFindings(w, op) ==
    IF ResolveOp(op.op) # None
      THEN SpecFindings(w, op, SpecOf(op.op))
      ELSE IF w \in Registry.workflows /\ Registry.blocksUnknown THEN {"O001"} ELSE {}

----------------------------------------------------------------------------
\* The workflow's semantic profile and the capabilities effects call for.

CapabilityFindings(d) ==
    {"C001" : op \in {o \in OpsOf(d) :
                \E e \in o.effects \cap DOMAIN Registry.effectCapabilities :
                    o.capabilities \cap Registry.effectCapabilities[e] = {}}}

ProfileFindings(d) ==
    LET Asked(field) == Demand(d.workflow, field)
        policies == d.policies \cup UNION {op.policies : op \in OpsOf(d)}
        Fail(rule, holds) == IF holds THEN {} ELSE {rule}
    IN Fail("M001", Asked("required_effects") \subseteq EffectsOf(d))
       \cup Fail("M002", Asked("required_policies") \subseteq policies)
       \cup Fail("W010", Asked("required_roles") \subseteq RolesOf(d))
       \cup Fail("M004", Asked("forbidden_families")
                           \cap FamiliesOf(EffectsOf(d)) = {})
       \cup Fail("W011", d.workflow \in DOMAIN Registry.profiles => RolesOf(d) # {})

----------------------------------------------------------------------------
\* The policy core.

\* The families an operation's name implies count only when no spec vouches
\* for it, or its spec is a forbidden one.
ImpliedFamilies(op) ==
    IF \/ ResolveOp(op.op) = None
       \/ Flag(SpecOf(op.op), "forbidden_in_public_demo")
       \/ Of(SpecOf(op.op), "forbidden_families") # {}
      THEN OpFamilies(op.op)
      ELSE {}

\* An operation that implies a side effect declares an effect of its family.
Undeclared(op) ==
    \E f \in ImpliedFamilies(op) \cap DOMAIN Registry.impliedEffect :
        Registry.impliedEffect[f] \notin FamiliesOf(op.effects)

PaymentLike(op) ==
    "payment_charge" \in FamiliesOf(op.effects) \/ "payment" \in OpFamilies(op.op)

ForbiddenAlways == {"raw_token", "raw_pii", "payment_real",
                    "destructive_delete", "external_unallowlisted"}

PolicyFindings(d, env) ==
    LET effects == EffectsOf(d)
        Fail(rule, holds) == IF holds THEN {} ELSE {rule}
    IN Fail("P020", \A op \in OpsOf(d) : ~Undeclared(op))
       \cup Fail("P009", \A op \in OpsOf(d) : PaymentLike(op) =>
                           (op.policies \cup d.policies) \cap Registry.idempotency # {})
       \cup {"P001-P004, P008" : f \in FamiliesOf(effects) \cap ForbiddenAlways}
       \cup Fail("P005", d.workflow = "CreateUser" =>
                           \A e \in effects \cap Registry.real :
                               "notification" \notin Families(e))
       \cup Fail("P006", env \in Registry.testLike =>
                           \A e \in effects \cap Registry.realExternal :
                               "external" \notin Families(e))
       \cup Fail("P007", (/\ d.workflow = "NewsletterSignup"
                          /\ (effects \cup {op.op : op \in OpsOf(d)})
                               \cap Registry.marketing # {})
                         => "policy.no_marketing_without_consent" \in d.policies)

----------------------------------------------------------------------------
\* The verifier.

\* A draft's own environment is a note: a string changes nothing, and a null
\* passes the parser and is refused here.
ContextFindings(d) ==
    {"X002" : f \in {g \in d.faults : g.at = "environment" /\ g.how = "null"}}

HoleFindings(d) ==
    IF d.executable = "true" /\ FALSE \in d.holes THEN {"H001"} ELSE {}

WorkflowFindings(d) ==
    IF d.workflow \in Registry.workflows THEN {} ELSE {"W001"}

\* Faulty variant: the policy core and the operation specs read the draft as
\* it was written.
JudgedAsWritten(d) == d

\* What the semantic checks read: the normalized draft.
Judged(d) == Normalize(d)

SemanticFindings(d, env) ==
    NormalizeFindings(d)
      \cup LET n == Judged(d) IN
           WorkflowFindings(n) \cup ContextFindings(n) \cup TrustFindings(n)
             \cup (UNION {OperationFindings(n.workflow, op) : op \in OpsOf(n)})
             \cup CapabilityFindings(n) \cup ProfileFindings(n) \cup n.boundary
             \cup HoleFindings(n) \cup PolicyFindings(n, env)

Verify(d, env) ==
    IF ParseFindings(d) # {}
      THEN [status |-> "invalid", workflow |-> d.workflow]
      ELSE [status |-> IF SemanticFindings(d, env) = {} THEN "passed" ELSE "blocked",
            workflow |-> NormalizeWorkflow(d.workflow)]

----------------------------------------------------------------------------
\* The lowering gate and the Trust Gate.  Both read the draft as written.

AmbiguityFindings(d) ==
    IF d.ambiguity \in {None, "resolved"} /\ ~d.unresolved THEN {} ELSE {"L008"}

\* The types and the return expression of the lowered program; a null, which
\* the parser lets pass, is not on the lists.
SurfaceFindings(d) ==
    IF /\ d.types \subseteq Registry.types
       /\ d.returns \in Registry.returns
       /\ \A f \in d.faults : f.how = "null" =>
             f.at \notin {"input_type", "output_type", "return"}
      THEN {} ELSE {"L009-L011"}

\* Lowering needs a passed report that a fresh verification reproduces.
LoweringFindings(d, env, report) ==
    LET fresh == Verify(d, env)
        Fail(rule, holds) == IF holds THEN {} ELSE {rule}
    IN Fail("L013", env \notin Registry.production)
       \cup IF ParseFindings(d) # {} THEN {"L001"}
            ELSE Fail("L002", report.status = "passed")
                 \cup Fail("L007", FALSE \notin d.holes)
                 \cup AmbiguityFindings(d)
                 \cup Fail("L012", d.executable # "false")
                 \cup SurfaceFindings(d)
                 \cup EvidenceFindings(d)
                 \cup Fail("L004", fresh.status = "passed")
                 \cup Fail("L005", report.workflow = fresh.workflow)
                 \cup Fail("L006", report.status = fresh.status)

TrustGate(d, env) ==
    LET report == Verify(d, env)
    IN IF report.status = "invalid" THEN "invalid"
       ELSE IF \/ report.status # "passed"
               \/ LoweringFindings(d, env, report) # {}
               \/ EvidenceFindings(d) # {}
               \/ env \in Registry.production
            THEN "refused"
            ELSE "passed"

=============================================================================
