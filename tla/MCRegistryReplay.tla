--------------------------- MODULE MCRegistryReplay -------------------------
(* RegistryReplay with small registries of one packaged operation and a    *)
(* profile that adds another.                                              *)
EXTENDS RegistryReplay, TLC

OneOp(required, allowed, policies) ==
    [base |-> [allowed_workflows |-> {"w1"}, required_effects |-> required,
               allowed_effects |-> allowed, allow_extra_effects |-> FALSE,
               required_capability_any |-> {}, requires_policy_any |-> policies,
               description |-> "old"]]

(* Strict allows fewer effects and demands a policy: a change to it is     *)
(* tightening, a change back relaxing.                                     *)
Lenient == OneOp({"a"}, {"a", "b"}, {})
Strict == OneOp({"a"}, {"a"}, {"q1"})

TwoVersions == {Lenient, Strict}

AddedOperation ==
    [added |-> [allowed_workflows |-> {"w1"}, required_effects |-> {"a"},
                allowed_effects |-> {"a"}, allow_extra_effects |-> FALSE,
                required_capability_any |-> {"k1"}, requires_policy_any |-> {},
                description |-> "new"]]

ReplayedDrafts ==
    {[op |-> op, workflow |-> "w1", effects |-> {"a"}, capabilities |-> {"k1"},
      policies |-> {"q2"}] : op \in {"base", "added"}}

CapturedBundles ==
    {r \in Packaged : r.external = CHOOSE e \in Externals : TRUE}

Symmetry == Permutations(Contexts)

=============================================================================
