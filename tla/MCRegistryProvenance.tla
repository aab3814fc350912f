------------------------ MODULE MCRegistryProvenance ------------------------
(* RegistryProvenance with two registries.  Processes are interchangeable, *)
(* and so are versions when all of them are accepting.                     *)
EXTENDS RegistryProvenance, TLC

SafetyAndOperations == <<"safety_registry", "operation_spec_registry">>
SafetyAndLedger == <<"safety_registry", "evidence_ledger">>

Symmetry == Permutations(Processes) \cup Permutations(Versions)

=============================================================================
