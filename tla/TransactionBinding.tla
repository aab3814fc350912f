------------------------- MODULE TransactionBinding -------------------------
(***************************************************************************)
(* From a draft to the host runtime: transaction_findings of               *)
(* src/ainir/transaction_contract.py judges the transactions a draft       *)
(* declares, assess_lowering_eligibility of lowering_gate.py admits the    *)
(* draft or refuses it, lower_to_typescript of lowering.py cuts the task   *)
(* into runTransaction calls, and the host runs the result.                *)
(*                                                                         *)
(* The host is not in the repository: it is modelled from the contract the *)
(* generated skeleton states.  An operation called inside runTransaction   *)
(* takes effect when the transaction body returns, any other at once; any  *)
(* hook or operation may throw, and the task then ends.                    *)
(*                                                                         *)
(* An operation id is the operation's position in the task (ids are unique *)
(* in a draft the verifier passes), and 0 an id that names no operation.   *)
(***************************************************************************)
EXTENDS Naturals, Sequences, FiniteSets, SequencesExt

CONSTANTS
    Drafts,       \* drafts a caller may have verified
    Replacements, \* drafts a caller may lower in place of the verified one
    Environments, \* subset of {"public_demo", "production"}: the trusted context
    MaxEdits      \* bound: replacements of the draft between report and lowering

Roles == {"create_user", "outbox_event"}
Workflows == {"CreateUser", "other"}

(* wellFormed: an object with a safe id and a proper rollback_on. *)
Tx == [id : STRING, mode : {"atomic", "unlisted", "absent"},
       includes : Seq(Nat), wellFormed : BOOLEAN]

(* policy: the transactional outbox policy is declared; otherFindings: the *)
(* verifier has something critical to say that is not about transactions;  *)
(* unsettled: an open hole or ambiguity, executable: false, or a type or   *)
(* return expression that cannot be lowered.                               *)
Draft == [workflow : Workflows, roles : Seq(SUBSET Roles), txs : Seq(Tx),
          policy : BOOLEAN, otherFindings : BOOLEAN, unsettled : BOOLEAN]

ASSUME DraftsAssumption ==
    \A d \in Drafts \cup Replacements : d \in Draft /\ Len(d.roles) > 0
ASSUME EnvironmentsAssumption == Environments \subseteq {"public_demo", "production"}
ASSUME MaxEditsAssumption == MaxEdits \in Nat

Ops(d) == DOMAIN d.roles

-----------------------------------------------------------------------------
(*                     The verifier's transaction rules                    *)

(* The bundled registry: one workflow has transaction requirements. *)
RequiredRoles(d) ==
    IF d.workflow = "CreateUser" THEN {"create_user", "outbox_event"} ELSE {}
OrderRoles(d) ==
    IF d.workflow = "CreateUser" THEN {<<"create_user", "outbox_event">>} ELSE {}

OpsForRole(d, role) == {op \in Ops(d) : role \in d.roles[op]}

Included(d, tx) == ToSet(tx.includes) \cap Ops(d)

SpanOf(S) == Max(S) - Min(S) + 1

HasRequiredRoles(d, tx) ==
    \A role \in RequiredRoles(d) :
        OpsForRole(d, role) \cap Included(d, tx) # {}

RolesInOrder(d, tx) ==
    \A pair \in OrderRoles(d) :
        \A before \in OpsForRole(d, pair[1]) \cap Included(d, tx),
           after \in OpsForRole(d, pair[2]) \cap Included(d, tx) : before < after

ModeAllowed(d, tx) ==
    \/ tx.mode = "atomic"
    \/ tx.mode = "absent" /\ RequiredRoles(d) = {}

(* Faulty variants of ValidBinding: a rule is dropped. *)
ValidWithGaps(d, tx) ==
    /\ tx.wellFormed /\ ModeAllowed(d, tx)
    /\ tx.includes # <<>> /\ IsInjective(tx.includes)
    /\ ToSet(tx.includes) \subseteq Ops(d)
    /\ \A i, j \in DOMAIN tx.includes : i < j => tx.includes[i] <= tx.includes[j]
    /\ HasRequiredRoles(d, tx) /\ RolesInOrder(d, tx)
ValidWithoutOwnRoles(d, tx) ==
    /\ tx.wellFormed /\ ModeAllowed(d, tx)
    /\ tx.includes # <<>> /\ IsInjective(tx.includes)
    /\ ToSet(tx.includes) \subseteq Ops(d)
    /\ \A i, j \in DOMAIN tx.includes : i < j => tx.includes[i] <= tx.includes[j]
    /\ SpanOf(ToSet(tx.includes)) = Cardinality(ToSet(tx.includes))
    /\ RolesInOrder(d, tx)

(* No rule from TX002 to TX017 has a finding about this transaction.  Each *)
(* transaction is judged on its own: nothing compares two of them.         *)
ValidBinding(d, tx) ==
    /\ tx.wellFormed /\ ModeAllowed(d, tx)
    /\ tx.includes # <<>> /\ IsInjective(tx.includes)
    /\ ToSet(tx.includes) \subseteq Ops(d)
    /\ \A i, j \in DOMAIN tx.includes : i < j => tx.includes[i] <= tx.includes[j]
    /\ SpanOf(ToSet(tx.includes)) = Cardinality(ToSet(tx.includes))
    /\ HasRequiredRoles(d, tx) /\ RolesInOrder(d, tx)

TransactionsPass(d) ==
    /\ \A i \in DOMAIN d.txs : ValidBinding(d, d.txs[i])
    /\ RequiredRoles(d) # {} =>
         /\ \E i \in DOMAIN d.txs : HasRequiredRoles(d, d.txs[i])
         /\ d.policy

VerifyStatus(d) ==
    IF TransactionsPass(d) /\ ~d.otherFindings THEN "passed" ELSE "blocked"

-----------------------------------------------------------------------------
VARIABLES
    draft, environment,
    edits,     \* counter, bounded by MaxEdits
    pc,        \* "verify", "gate", "lower", "run"; "refused", "failed", "done"
    report,    \* the verification report supplied to the lowerer
    i,         \* the lowerer's loop index
    groups,    \* the skeleton so far: calls in order, tx 0 for a bare operation
    cursor,    \* the host: which call of which group is next
    pending,   \* the host: operations run in the transaction that is open
    committed  \* the host: operations that took effect, in order

vars == <<draft, environment, edits, pc, report, i, groups, cursor, pending, committed>>

lowerer == <<i, groups>>
host == <<cursor, pending, committed>>

Group == [tx : Nat, ops : Seq(Nat)]

TypeOK ==
    /\ draft \in Draft
    /\ environment \in Environments
    /\ edits \in 0..MaxEdits
    /\ pc \in {"verify", "gate", "lower", "run", "refused", "failed", "done"}
    /\ report \in [status : {"none", "passed", "blocked"}, workflow : Workflows]
    /\ i \in 1..Len(draft.roles) + 1
    /\ groups \in Seq(Group)
    /\ \A g \in DOMAIN groups : groups[g].tx \in {0} \cup DOMAIN draft.txs
    /\ cursor \in [group : 1..Len(groups) + 1, op : Nat \ {0}]
    /\ pending \in Seq(Ops(draft)) /\ committed \in Seq(Ops(draft))

Init ==
    /\ draft \in Drafts /\ environment \in Environments
    /\ edits = 0
    /\ pc = "verify"
    /\ report = [status |-> "none", workflow |-> draft.workflow]
    /\ i = 1 /\ groups = <<>>
    /\ cursor = [group |-> 1, op |-> 1]
    /\ pending = <<>> /\ committed = <<>>

Verify ==
    /\ pc = "verify"
    /\ report' = [status |-> VerifyStatus(draft), workflow |-> draft.workflow]
    /\ pc' = "gate"
    /\ UNCHANGED <<draft, environment, edits, lowerer, host>>

(* A caller passes a report and a draft that has changed since, or another. *)
ReplaceDraft ==
    /\ pc = "gate" /\ edits < MaxEdits
    /\ draft' \in Replacements
    /\ edits' = edits + 1
    /\ UNCHANGED <<environment, pc, report, lowerer, host>>

(* Faulty variant: the supplied report is believed. *)
EligibleByReport ==
    /\ environment # "production"
    /\ report.status = "passed"
    /\ ~draft.unsettled
    /\ report.workflow = draft.workflow

(* assess_lowering_eligibility: the draft is verified again, and the report *)
(* must agree.                                                             *)
Eligible ==
    /\ environment # "production"
    /\ report.status = "passed"
    /\ ~draft.unsettled
    /\ VerifyStatus(draft) = "passed"
    /\ report.workflow = draft.workflow

Refuse ==
    /\ pc = "gate" /\ ~Eligible
    /\ pc' = "refused"
    /\ UNCHANGED <<draft, environment, edits, report, lowerer, host>>

Admit ==
    /\ pc = "gate" /\ Eligible
    /\ pc' = "lower"
    /\ UNCHANGED <<draft, environment, edits, report, lowerer, host>>

-----------------------------------------------------------------------------
(*                              The lowerer                                *)

(* tx_by_op and tx_by_id are dict comprehensions: of several transactions  *)
(* that include an operation, or share an id, the last one stands.         *)
TxsIncluding(op) == {t \in DOMAIN draft.txs : op \in ToSet(draft.txs[t].includes)}
InTx(op) == op \in Ops(draft) /\ TxsIncluding(op) # {}
TxIdOf(op) == draft.txs[Max(TxsIncluding(op))].id
TxById(id) == Max({t \in DOMAIN draft.txs : draft.txs[t].id = id})

EmitOperation ==
    /\ pc = "lower" /\ i \in Ops(draft) /\ ~InTx(i)
    /\ groups' = Append(groups, [tx |-> 0, ops |-> <<i>>])
    /\ i' = i + 1
    /\ UNCHANGED <<draft, environment, edits, pc, report, host>>

(* The inner loop takes operations as long as they map to the same id. *)
SegmentEnd(op) ==
    Max({j \in op..Len(draft.roles) :
            \A k \in op..j : InTx(k) /\ TxIdOf(k) = TxIdOf(op)})

(* Faulty variants: the outer loop goes on one operation too far, or from  *)
(* the second operation of the segment.                                    *)
EmitTransactionSkipsOne ==
    /\ pc = "lower" /\ InTx(i)
    /\ groups' = Append(groups,
         [tx |-> TxById(TxIdOf(i)), ops |-> [k \in 1..SegmentEnd(i) - i + 1 |-> i + k - 1]])
    /\ i' = SegmentEnd(i) + 2
    /\ UNCHANGED <<draft, environment, edits, pc, report, host>>
EmitTransactionAgain ==
    /\ pc = "lower" /\ InTx(i)
    /\ groups' = Append(groups,
         [tx |-> TxById(TxIdOf(i)), ops |-> [k \in 1..SegmentEnd(i) - i + 1 |-> i + k - 1]])
    /\ i' = i + 1
    /\ UNCHANGED <<draft, environment, edits, pc, report, host>>

EmitTransaction ==
    /\ pc = "lower" /\ InTx(i)
    /\ groups' = Append(groups,
         [tx |-> TxById(TxIdOf(i)), ops |-> [k \in 1..SegmentEnd(i) - i + 1 |-> i + k - 1]])
    /\ i' = SegmentEnd(i) + 1
    /\ UNCHANGED <<draft, environment, edits, pc, report, host>>

WriteSkeleton ==
    /\ pc = "lower" /\ i \notin Ops(draft)
    /\ pc' = "run"
    /\ UNCHANGED <<draft, environment, edits, report, lowerer, host>>

-----------------------------------------------------------------------------
(*                        The host runs the skeleton                       *)

Current == groups[cursor.group]

RunOperation ==
    /\ pc = "run" /\ cursor.group \in DOMAIN groups
    /\ cursor.op \in DOMAIN Current.ops
    /\ IF Current.tx = 0
         THEN committed' = Append(committed, Current.ops[cursor.op]) /\ UNCHANGED pending
         ELSE pending' = Append(pending, Current.ops[cursor.op]) /\ UNCHANGED committed
    /\ cursor' = [cursor EXCEPT !.op = @ + 1]
    /\ UNCHANGED <<draft, environment, edits, pc, report, lowerer>>

(* The body of runTransaction returns (or the bare call does). *)
Commit ==
    /\ pc = "run" /\ cursor.group \in DOMAIN groups
    /\ cursor.op \notin DOMAIN Current.ops
    /\ committed' = committed \o pending
    /\ pending' = <<>>
    /\ cursor' = [group |-> cursor.group + 1, op |-> 1]
    /\ UNCHANGED <<draft, environment, edits, pc, report, lowerer>>

(* A hook or an operation throws: the open transaction is rolled back. *)
Fail ==
    /\ pc = "run" /\ cursor.group \in DOMAIN groups
    /\ pending' = <<>>
    /\ pc' = "failed"
    /\ UNCHANGED <<draft, environment, edits, report, lowerer, cursor, committed>>

Finish ==
    /\ pc = "run" /\ cursor.group \notin DOMAIN groups
    /\ pc' = "done"
    /\ UNCHANGED <<draft, environment, edits, report, lowerer, host>>

Next ==
    \/ Verify \/ ReplaceDraft \/ Refuse \/ Admit
    \/ EmitOperation \/ EmitTransaction \/ WriteSkeleton
    \/ RunOperation \/ Commit \/ Fail \/ Finish

Spec == Init /\ [][Next]_vars

-----------------------------------------------------------------------------
(*                              Properties                                 *)

Ended == pc \in {"done", "failed"}

(* No operation is declared in two transactions. *)
DisjointTxs ==
    \A s, t \in DOMAIN draft.txs :
        s # t => ToSet(draft.txs[s].includes) \cap ToSet(draft.txs[t].includes) = {}

(* Each transaction a draft declares takes effect as a whole or not at     *)
(* all, wherever the task fails.  About the boundaries the lowerer cuts;   *)
(* it fails for transactions that share an operation.                      *)
EachTransactionIsAtomic ==
    Ended => \A t \in DOMAIN draft.txs :
        LET ops == ToSet(draft.txs[t].includes) IN
        ops \subseteq ToSet(committed) \/ ops \cap ToSet(committed) = {}

(* Transactions that share no operation take effect as a whole or not at   *)
(* all, also when they are adjacent or share an id (the lowerer then makes *)
(* one call of two), and wherever the task fails.                          *)
DeclaredTransactionsAreAtomic == DisjointTxs => EachTransactionIsAtomic

(* CreateUser: when the user and the outbox event have one operation each, *)
(* neither takes effect without the other, however many transactions the   *)
(* draft declares and however they overlap.                                *)
RequiredRolesAreAtomic ==
    Ended /\ (\A role \in RequiredRoles(draft) : Cardinality(OpsForRole(draft, role)) = 1) =>
        LET ops == UNION {OpsForRole(draft, role) : role \in RequiredRoles(draft)} IN
        ops \subseteq ToSet(committed) \/ ops \cap ToSet(committed) = {}

(* However the task is cut, the host runs its operations once each and in  *)
(* task order, and all of them when it ends well.                          *)
TaskOrderIsKept ==
    LET ran == committed \o pending IN
    /\ \A k \in DOMAIN ran : ran[k] = k
    /\ pc = "done" => Len(ran) = Len(draft.roles)

(* Nothing is lowered that the verifier does not pass as it is now: a      *)
(* report about an earlier draft lets nothing through.                     *)
StaleReportLowersNothing ==
    pc \in {"lower", "run", "done", "failed"} =>
        VerifyStatus(draft) = "passed" /\ ~draft.unsettled /\ environment # "production"

=============================================================================
