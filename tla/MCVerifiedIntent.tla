-------------------------- MODULE MCVerifiedIntent --------------------------
(* VerifiedIntent with a registry cut down from the shipped one: the export *)
(* workflow with two operations, one that may declare anything, one that is *)
(* forbidden; an alias of a workflow, of operations and of effects (a       *)
(* harmless, a critical and an external one).  Every draft is the export    *)
(* request with one thing about it changed.                                 *)
EXTENDS VerifiedIntent, TLC

Workflow == "PIIExportRequest"

Specs ==
    "auth.check_export" :>
      [trust |-> "reviewed", semantic_roles |-> {"authorization"},
       allowed_workflows |-> {Workflow}, required_effects |-> {"auth.check"},
       allowed_capabilities |-> {"cap.auth"}, required_capability_any |-> {"cap.auth"}]
    @@ "export.package" :>
      [trust |-> "reviewed", semantic_roles |-> {"pii_read", "export"},
       allowed_workflows |-> {Workflow}, allowed_effects |-> {"pii.read"},
       required_effect_families |-> {"privacy"},
       required_capability_prefixes |-> {"cap.pii."},
       requires_policy_any |-> {"policy.encrypted"}]
    @@ "notify" :>
      [trust |-> "reviewed", semantic_roles |-> {"notification"},
       allow_extra_effects |-> TRUE, allow_extra_capabilities |-> TRUE]
    @@ "log.raw" :>
      [trust |-> "reviewed", semantic_roles |-> {"raw_pii_logging"},
       forbidden_families |-> {"raw_pii"}, forbidden_in_public_demo |-> TRUE]

TheRegistry ==
    [workflows |-> {Workflow, "CreateUser"},
     workflowAlias |-> "pii_export" :> Workflow,
     effectAlias |-> "read_pii" :> "pii.read" @@ "raw_pii_store" :> "pii.raw_store"
                       @@ "live_mail" :> "mail.live",
     opAlias |-> "authorize_export" :> "auth.check_export",
     specs |-> Specs,
     families |-> "pii.read" :> {"privacy"} @@ "pii.raw_store" :> {"privacy", "raw_pii"}
                    @@ "mail.live" :> {"notification"},
     external |-> {"mail.live"}, allowedExternal |-> {"mail.live"},
     real |-> {"mail.live"}, realExternal |-> {"mail.live"}, marketing |-> {},
     opFamilies |-> "log.raw" :> {"raw_pii"},
     impliedEffect |-> "raw_pii" :> "privacy",
     effectCapabilities |-> "pii.read" :> {"cap.pii.read"},
     startsWith |-> "cap.pii." :> {"cap.pii.read"},
     profiles |-> Workflow :>
        [required_roles |-> {"authorization", "pii_read"},
         required_policies |-> {"policy.authorized"},
         forbidden_families |-> {"raw_pii", "external_unallowlisted"},
         forbidden_roles |-> {"raw_pii_logging"}],
     trustedLevels |-> {"reviewed"}, blocksUnknown |-> TRUE,
     idempotency |-> {}, testLike |-> {"public_demo"}, production |-> {"production"},
     types |-> {"Job"}, returns |-> {"state"},
     ledger |-> {<<"ev1", "authorized", Workflow>>, <<"ev2", "signed", Workflow>>},
     records |-> {"ev1", "ev2"}]

TheConsumer ==
    [workflows |-> {Workflow},
     impliedEffects |-> {"pii.export"}, impliedCapabilities |-> {"cap.pii.export"},
     effectName |-> "pii.read" :> "PIIRead" @@ "pii.export" :> "PIIExport"
                      @@ "auth.check" :> "AuthorizationCheck"
                      @@ "mail.live" :> "NetworkAccess",
     capabilityName |-> "cap.pii.read" :> "PIIRead" @@ "cap.pii.export" :> "PIIExport"
                          @@ "cap.auth" :> "AuthorizationCheck",
     roleOperation |-> "authorization" :> "authorization_check"
                         @@ "pii_read" :> "read_pii_fields",
     operations |-> {"authorization_check", "read_pii_fields"},
     roles |-> {"authorization", "pii_read", "export"},
     denied |-> {"NetworkAccess"},
     allowedEffects |-> {"PIIRead", "PIIExport", "AuthorizationCheck"},
     requiredEffects |-> {"PIIRead", "PIIExport"},
     fixtures |-> {"evidence.fixture.1"},
     claims |-> {"authorized"}, authorizationClaim |-> "authorized",
     environments |-> {"public_demo", "test"}]

Op(id, op, effects, capabilities, policies) ==
    [id |-> id, op |-> op, effects |-> effects, capabilities |-> capabilities,
     policies |-> policies]
Authorize(op) == Op("o1", op, {"auth.check"}, {"cap.auth"}, {})
Package(effect) == Op("o2", "export.package", {effect}, {"cap.pii.read"},
                      {"policy.encrypted"})
Notify(effect) == Op("o3", "notify", {effect}, {}, {})
Refs(ids) == {[id |-> i, attests |-> FALSE] : i \in ids}
Claim(status, refs) == [id |-> "authorized", status |-> status, refs |-> refs]

Base ==
    [bytes |-> "ok", faults |-> {[at |-> "evidence", how |-> "missing"]},
     workflow |-> Workflow,
     ops |-> <<Authorize("auth.check_export"), Package("pii.read")>>,
     claims |-> {Claim("verified", Refs({"ev1"}))},
     policies |-> {"policy.authorized"}, holes |-> {TRUE}, environment |-> None,
     executable |-> None, ambiguity |-> None, unresolved |-> FALSE,
     types |-> {"Job"}, returns |-> "state", boundary |-> {}]
Ops(ops) == [Base EXCEPT !.ops = ops]
Fault(at, how) == [Base EXCEPT !.faults = {[at |-> at, how |-> how]}]
Two == <<Authorize("auth.check_export"), Package("pii.read")>>

DraftFiles ==
    "base" :> Base
    @@ "op_alias" :> [Ops(<<Authorize("authorize_export"), Package("pii.read")>>)
                        EXCEPT !.environment = "staging"]
    @@ "effect_alias" :> Ops(<<Authorize("auth.check_export"), Package("read_pii")>>)
    @@ "two_refs" :> [Base EXCEPT !.claims = {Claim("verified", Refs({"ev1", "ev2"}))}]
    @@ "fixture_ref" :> [Base EXCEPT !.claims =
                           {Claim("verified", Refs({"ev1", "evidence.fixture.1"}))}]
    @@ "workflow_alias" :> [Base EXCEPT !.workflow = "pii_export"]
    @@ "critical_alias" :> Ops(Append(Two, Notify("raw_pii_store")))
    @@ "live_alias" :> Ops(Append(Two, Notify("live_mail")))
    @@ "raw_log" :> Ops(Append(Two, Op("o3", "log.raw", {}, {}, {})))
    @@ "unknown_op" :> Ops(Append(Two, Op("o3", "mystery", {}, {}, {})))
    @@ "same_id" :> Ops(Append(Two, Authorize("auth.check_export")))
    @@ "no_package" :> Ops(<<Authorize("auth.check_export")>>)
    @@ "attests" :> [Base EXCEPT !.claims =
                       {Claim("verified", {[id |-> "ev1", attests |-> TRUE]})}]
    @@ "hypothesis" :> [Base EXCEPT !.claims = {Claim("hypothesized", {})}]
    @@ "open_hole" :> [Base EXCEPT !.holes = {FALSE}]
    @@ "unclear" :> [Base EXCEPT !.ambiguity = "requires_clarification"]
    @@ "not_executable" :> [Base EXCEPT !.executable = "false"]
    @@ "null_environment" :> Fault("environment", "null")
    @@ "null_type" :> Fault("input_type", "null")
    @@ "null_effects" :> Fault("operation.effects", "null")
    @@ "torn_yaml" :> [Base EXCEPT !.bytes = "parse"]
    @@ "split_tx" :> [Base EXCEPT !.boundary = {"TX"}]

AllDrafts == DOMAIN DraftFiles
OneRefDrafts == AllDrafts \ {"two_refs", "fixture_ref"}
Edited == {"op_alias"}
TwoExporters == {"x1", "x2"}
=============================================================================
