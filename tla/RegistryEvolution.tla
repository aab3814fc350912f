------------------------- MODULE RegistryEvolution -------------------------
(***************************************************************************)
(* What a registry permits, and how a change of it is classified.          *)
(*                                                                         *)
(* A registry maps operation ids to specs.  A spec binds the workflows an  *)
(* operation may occur in, the effects it must and may declare, and two    *)
(* lists of capabilities and policies of which it must have one; a field   *)
(* that is left out has a meaning of its own.  diff_registry_snapshots     *)
(* compares two registries field by field, classifies every change by the  *)
(* name of the field alone, and sums the classes up in one word, which a   *)
(* migration record carries and a replay reports.                          *)
(*                                                                         *)
(* Left out are the lists that work as those of effects do: what an        *)
(* operation must have all of, or may have (capabilities, their prefixes,  *)
(* effect families), and what it must not have; and the levels of trust.   *)
(* Operators only: RegistryReplay is the system.                           *)
(***************************************************************************)

CONSTANTS
    Workflows, Effects, Capabilities, Policies,
    Undeclared      \* the value of a field that a spec leaves out

Declared(S) == {Undeclared} \cup SUBSET S

OperationSpec ==
    [allowed_workflows       : Declared(Workflows),
     required_effects        : Declared(Effects),
     allowed_effects         : Declared(Effects),
     allow_extra_effects     : BOOLEAN,
     required_capability_any : Declared(Capabilities),
     requires_policy_any     : Declared(Policies),
     description             : {"old", "new"}]

(* item.get(field, []) or []                                               *)
Listed(value) == IF value = Undeclared THEN {} ELSE value

(* The effects a spec allows are those it requires if it does not say.     *)
AllowedEffects(spec) ==
    IF spec.allowed_effects = Undeclared
    THEN Listed(spec.required_effects)
    ELSE spec.allowed_effects

(* A list of which one is enough, and which demands nothing if it is empty. *)
HasAnyOf(value, given) == Listed(value) = {} \/ Listed(value) \cap given # {}

(* operation_binding_findings finds nothing critical: rules O003, O004,    *)
(* O009, O007 and O008.  A spec that does not list its workflows is        *)
(* allowed in all.                                                         *)
OperationBinds(spec, draft) ==
    /\ spec.allowed_workflows # Undeclared =>
           draft.workflow \in spec.allowed_workflows
    /\ Listed(spec.required_effects) \subseteq draft.effects
    /\ spec.allow_extra_effects \/ draft.effects \subseteq AllowedEffects(spec)
    /\ HasAnyOf(spec.required_capability_any, draft.capabilities)
    /\ HasAnyOf(spec.requires_policy_any, draft.policies)

(* The gate's decision on a draft of one operation.                        *)
Verdict(operations, draft) ==
    IF draft.op \in DOMAIN operations /\ OperationBinds(operations[draft.op], draft)
    THEN "passed"
    ELSE "refused"

---------------------------------------------------------------------------
(* diff_registry_snapshots *)

ChangeType(old, new) ==
    IF old = Undeclared THEN "added"
    ELSE IF new = Undeclared THEN "removed" ELSE "modified"

(* _deep_changes within one spec.                                          *)
SpecChanges(old, new) ==
    {[field |-> f, type |-> ChangeType(old[f], new[f]), old |-> old[f], new |-> new[f]] :
        f \in {g \in DOMAIN old : old[g] # new[g]}}

(* Faulty variant of ListClass below: gained and lost are swapped.         *)
ListClassSwapped(change, more, less) ==
    LET both == change.type = "modified"
    IN IF change.type = "added" \/ (both /\ change.new \subseteq change.old) THEN more
       ELSE IF change.type = "removed" \/ (both /\ change.old \subseteq change.new) THEN less
       ELSE "behavioral"

(* A list that gained or lost members, or a field that came or went.       *)
ListClass(change, more, less) ==
    LET both == change.type = "modified"
        gained == IF both THEN change.new \ change.old ELSE {}
        lost == IF both THEN change.old \ change.new ELSE {}
    IN IF change.type = "added" \/ (gained # {} /\ lost = {}) THEN more
       ELSE IF change.type = "removed" \/ (lost # {} /\ gained = {}) THEN less
       ELSE "behavioral"

(* _classify_change for the fields of a spec: metadata, the prefixes       *)
(* required_, requires_ and allowed_, and the switch for extra effects.    *)
ClassifyField(change) ==
    IF change.field = "description" THEN "compatible"
    ELSE IF change.field = "allow_extra_effects"
         THEN IF change.new THEN "relaxation" ELSE "tightening"
    ELSE IF change.field \in {"required_effects", "required_capability_any",
                              "requires_policy_any"}
         THEN ListClass(change, "tightening", "relaxation")
    ELSE ListClass(change, "relaxation", "tightening")

(* The classes of all changes between two registries.                      *)
ChangeClasses(old, new) ==
    LET had == DOMAIN old.operations
        has == DOMAIN new.operations
    IN {"relaxation" : op \in has \ had}
       \cup {"breaking" : op \in had \ has}
       \cup (UNION {{ClassifyField(c) : c \in SpecChanges(old.operations[op], new.operations[op])} :
                      op \in had \cap has})
       \cup (IF old.external = new.external THEN {} ELSE {"unknown"})

(* _overall_classification *)
Overall(classes) ==
    IF classes \subseteq {"compatible"} THEN "compatible"
    ELSE IF "unknown" \in classes THEN "unknown"
    ELSE IF "breaking" \in classes THEN "breaking"
    ELSE IF {"relaxation", "tightening"} \subseteq classes THEN "behavioral"
    ELSE IF "relaxation" \in classes THEN "relaxation"
    ELSE IF "tightening" \in classes THEN "tightening"
    ELSE "behavioral"

Classification(old, new) == Overall(ChangeClasses(old, new))

---------------------------------------------------------------------------
(* Migration records *)

(* create_registry_migration_record                                        *)
MigrationRecord(source, target, approve) ==
    [source |-> source, target |-> target,
     classification |-> Classification(source, target),
     status |-> IF approve THEN "approved" ELSE "review_required"]

(* validate_registry_migration_record with require_approved                *)
RecordIsValid(record, source, target) ==
    /\ record.source = source
    /\ record.target = target
    /\ record.classification = Classification(source, target)
    /\ record.status = "approved"

=============================================================================
