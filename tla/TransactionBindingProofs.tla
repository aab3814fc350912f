---------------------- MODULE TransactionBindingProofs ----------------------
(***************************************************************************)
(* Theorems about TransactionBinding, for all drafts, environments and     *)
(* numbers of edits.                                                       *)
(*                                                                         *)
(* The inductive invariant says that the calls of the skeleton cover the   *)
(* task so far, one after another, that the lowerer cuts between two       *)
(* operations only where their transactions differ, and that what took     *)
(* effect ends at a cut.  A valid transaction is an interval of the task,  *)
(* so it takes effect as a whole or not at all.                            *)
(***************************************************************************)
EXTENDS TransactionBinding, FiniteSetTheorems, SequenceTheorems, TLAPS

(* The first operation of a call, and the first one after it.              *)
From == [g \in DOMAIN groups |-> groups[g].ops[1]]
Beyond == [g \in DOMAIN groups |-> From[g] + Len(groups[g].ops)]

(* The operations after which the lowerer may cut (0: before the first):   *)
(* the next one is in no transaction with it, as far as the lowerer tells  *)
(* transactions apart.                                                     *)
Cuts == {k \in 0 .. Len(draft.roles) :
            ~(InTx(k) /\ InTx(k + 1) /\ TxIdOf(k) = TxIdOf(k + 1))}

CallsAreTyped ==
    /\ groups \in Seq(Group)
    /\ \A g \in DOMAIN groups :
        /\ groups[g].tx \in {0} \cup DOMAIN draft.txs
        /\ Len(groups[g].ops) \in Nat \ {0} /\ From[g] \in Nat \ {0}
        /\ \A k \in 1 .. Len(groups[g].ops) : groups[g].ops[k] = From[g] + k - 1
        /\ groups[g].tx = 0 => Len(groups[g].ops) = 1

CallsFollow ==
    /\ \A g \in DOMAIN groups :
        /\ From[g] = IF g = 1 THEN 1 ELSE Beyond[g - 1]
        /\ Beyond[g] <= i
        /\ Beyond[g] - 1 \in Cuts
    /\ i = IF Len(groups) = 0 THEN 1 ELSE Beyond[Len(groups)]
    /\ i \in 1 .. Len(draft.roles) + 1
    /\ pc \in {"run", "failed", "done"} => i = Len(draft.roles) + 1

(* How far the host has come: ran operations, of which those of an open    *)
(* transaction have not yet taken effect.                                  *)
Ran == IF cursor.group \in DOMAIN groups THEN From[cursor.group] + cursor.op - 2 ELSE i - 1

HostFollows ==
    /\ cursor \in [group : 1 .. Len(groups) + 1, op : Nat \ {0}]
    /\ cursor.group \in DOMAIN groups =>
         cursor.op \in 1 .. Len(groups[cursor.group].ops) + 1
    /\ pc = "run" =>
         /\ Len(committed) + Len(pending) = Ran
         /\ Len(pending) = IF cursor.group \in DOMAIN groups /\ Current.tx # 0
                            THEN cursor.op - 1 ELSE 0
    /\ pc = "done" => Len(committed) + Len(pending) = Len(draft.roles)

InOrder ==
    /\ committed \in Seq(Ops(draft)) /\ pending \in Seq(Ops(draft))
    /\ \A k \in 1 .. Len(committed) : committed[k] = k
    /\ \A k \in 1 .. Len(pending) : pending[k] = Len(committed) + k
    /\ Len(committed) \in Cuts

Untouched ==
    /\ pc \in {"verify", "gate", "refused"} => i = 1 /\ groups = <<>>
    /\ pc \in {"verify", "gate", "refused", "lower"} =>
         pending = <<>> /\ committed = <<>> /\ cursor = [group |-> 1, op |-> 1]

IInv == TypeOK /\ CallsAreTyped /\ CallsFollow /\ HostFollows /\ InOrder /\ Untouched
          /\ StaleReportLowersNothing

---------------------------------------------------------------------------
(* Sets of numbers *)

(* A finite set of integers that is not empty has a greatest element: the  *)
(* sets of what is above one of its elements are well-founded.             *)
LEMMA MaxExists ==
    ASSUME NEW S \in SUBSET Int, IsFiniteSet(S), S # {}
    PROVE  Max(S) \in S /\ \A y \in S : y <= Max(S)
<1> DEFINE Above(x) == {y \in S : y > x}
           T == {Above(x) : x \in S}
<1>1. T \subseteq FiniteSubsetsOf(S) /\ T # {}
  <2>1. FiniteSubsetsOf(S) = SUBSET S
    BY FS_FiniteSubsetsOfFinite
  <2>2. \A x \in S : Above(x) \in SUBSET S
    OBVIOUS
  <2>3. PICK x \in S : TRUE
    OBVIOUS
  <2>4. Above(x) \in T
    OBVIOUS
  <2>5. T \subseteq SUBSET S
    OBVIOUS
  <2> HIDE DEF T
  <2> QED BY <2>1, <2>4, <2>5
<1>2. IsWellFoundedOn(StrictSubsetOrdering(S), FiniteSubsetsOf(S))
  BY FS_StrictSubsetOrderingWellFounded
<1>3. PICK U \in T : \A V \in T : <<V, U>> \notin StrictSubsetOrdering(S)
  <2> HIDE DEF T
  <2> QED BY <1>1, <1>2, WFMin
<1>4. PICK m \in S : U = Above(m)
  OBVIOUS
<1>5. \A y \in S : m >= y
  <2> SUFFICES ASSUME NEW y \in S, y > m PROVE FALSE
    OBVIOUS
  <2>1. Above(y) \subseteq Above(m) /\ y \in Above(m) /\ y \notin Above(y)
    <3>1. y \in Int /\ m \in Int /\ \A z \in S : z \in Int
      OBVIOUS
    <3>2. ~(y > y) /\ \A z \in S : z > y => z > m
      BY <3>1
    <3> QED BY <3>2
  <2>2. Above(y) \in T /\ Above(y) \in SUBSET S /\ Above(m) \in SUBSET S
    OBVIOUS
  <2> HIDE DEF Above, T
  <2>3. <<Above(y), Above(m)>> \in StrictSubsetOrdering(S)
    BY <2>1, <2>2 DEF StrictSubsetOrdering
  <2> QED BY <1>3, <1>4, <2>2, <2>3
<1>6. Max(S) \in S /\ \A y \in S : Max(S) >= y
  BY <1>5 DEF Max
<1> QED BY <1>6

LEMMA MinExists ==
    ASSUME NEW S \in SUBSET Int, IsFiniteSet(S), S # {}
    PROVE  Min(S) \in S /\ \A y \in S : Min(S) <= y
<1> DEFINE Below(x) == {y \in S : y < x}
           T == {Below(x) : x \in S}
<1>1. T \subseteq FiniteSubsetsOf(S) /\ T # {}
  <2>1. FiniteSubsetsOf(S) = SUBSET S
    BY FS_FiniteSubsetsOfFinite
  <2>2. PICK x \in S : TRUE
    OBVIOUS
  <2>3. Below(x) \in T
    OBVIOUS
  <2>4. T \subseteq SUBSET S
    OBVIOUS
  <2> HIDE DEF T
  <2> QED BY <2>1, <2>3, <2>4
<1>2. IsWellFoundedOn(StrictSubsetOrdering(S), FiniteSubsetsOf(S))
  BY FS_StrictSubsetOrderingWellFounded
<1>3. PICK U \in T : \A V \in T : <<V, U>> \notin StrictSubsetOrdering(S)
  <2> HIDE DEF T
  <2> QED BY <1>1, <1>2, WFMin
<1>4. PICK m \in S : U = Below(m)
  OBVIOUS
<1>5. \A y \in S : m =< y
  <2> SUFFICES ASSUME NEW y \in S, y < m PROVE FALSE
    OBVIOUS
  <2>1. Below(y) \subseteq Below(m) /\ y \in Below(m) /\ y \notin Below(y)
    <3>1. y \in Int /\ m \in Int /\ \A z \in S : z \in Int
      OBVIOUS
    <3>2. ~(y < y) /\ \A z \in S : z < y => z < m
      BY <3>1
    <3> QED BY <3>2
  <2>2. Below(y) \in T /\ Below(y) \in SUBSET S /\ Below(m) \in SUBSET S
    OBVIOUS
  <2> HIDE DEF Below, T
  <2>3. <<Below(y), Below(m)>> \in StrictSubsetOrdering(S)
    BY <2>1, <2>2 DEF StrictSubsetOrdering
  <2> QED BY <1>3, <1>4, <2>2, <2>3
<1>6. Min(S) \in S /\ \A y \in S : Min(S) =< y
  BY <1>5 DEF Min
<1> QED BY <1>6

(* A set of naturals that is as large as its span has no gaps.             *)
LEMMA FullSpanHasNoGaps ==
    ASSUME NEW n \in Nat, NEW S \in SUBSET (1 .. n), S # {}, SpanOf(S) = Cardinality(S),
           NEW x \in S, NEW z \in S, NEW y \in Int, x <= y, y <= z
    PROVE  y \in S
<1> DEFINE lo == Min(S)
           hi == Max(S)
<1>1. IsFiniteSet(S) /\ S \in SUBSET Int
  <2>1. IsFiniteSet(1 .. n)
    <3>1. 1 \in Int /\ n \in Int
      OBVIOUS
    <3> QED BY <3>1, FS_Interval
  <2>2. S \in SUBSET Int
    OBVIOUS
  <2> QED BY <2>1, <2>2, FS_Subset
<1>2. /\ lo \in S /\ hi \in S /\ lo \in Int /\ hi \in Int
      /\ \A v \in S : v \in Int /\ lo <= v /\ v <= hi
  <2>1. lo \in S /\ \A v \in S : lo <= v
    BY <1>1, MinExists
  <2>2. hi \in S /\ \A v \in S : v <= hi
    BY <1>1, MaxExists
  <2> QED BY <1>1, <2>1, <2>2
<1>3. Cardinality(S) = hi - lo + 1
  BY DEF SpanOf
<1> HIDE DEF lo, hi
<1>4. IsFiniteSet(lo .. hi) /\ Cardinality(lo .. hi) = hi - lo + 1
  BY <1>2, FS_Interval
<1>5. S \in SUBSET (lo .. hi)
  BY <1>2
<1>6. S = lo .. hi
  BY <1>3, <1>4, <1>5, FS_Subset
<1> QED BY <1>2, <1>6

---------------------------------------------------------------------------
(* Transactions *)

LEMMA TypesOfDrafts ==
    ASSUME NEW d \in Draft
    PROVE  /\ Len(d.roles) \in Nat /\ Ops(d) = 1 .. Len(d.roles)
           /\ Len(d.txs) \in Nat /\ DOMAIN d.txs = 1 .. Len(d.txs)
           /\ \A t \in DOMAIN d.txs : d.txs[t] \in Tx
<1>1. d.roles \in Seq(SUBSET Roles) /\ d.txs \in Seq(Tx)
  BY DEF Draft
<1> QED BY <1>1 DEF Ops

(* A transaction that the verifier passes is an interval of the task.      *)
LEMMA ValidTransactionsAreIntervals ==
    ASSUME NEW d \in Draft, NEW t \in DOMAIN d.txs, ValidBinding(d, d.txs[t]),
           NEW x \in ToSet(d.txs[t].includes), NEW z \in ToSet(d.txs[t].includes),
           NEW y \in Int, x <= y, y <= z
    PROVE  y \in ToSet(d.txs[t].includes)
<1> DEFINE S == ToSet(d.txs[t].includes)
<1>1. S \subseteq 1 .. Len(d.roles) /\ Len(d.roles) \in Nat
  BY TypesOfDrafts DEF ValidBinding
<1>2. SpanOf(S) = Cardinality(S)
  BY DEF ValidBinding
<1> HIDE DEF S
<1>3. x \in S /\ z \in S
  BY DEF S
<1>4. y \in S
  BY <1>1, <1>2, <1>3, FullSpanHasNoGaps
<1> QED BY <1>4 DEF S

LEMMA PassedDraftsAreValid ==
    ASSUME NEW d, VerifyStatus(d) = "passed"
    PROVE  /\ \A t \in DOMAIN d.txs : ValidBinding(d, d.txs[t])
           /\ RequiredRoles(d) # {} => \E t \in DOMAIN d.txs : HasRequiredRoles(d, d.txs[t])
BY DEF VerifyStatus, TransactionsPass

LEMMA LastTransaction ==
    ASSUME draft \in Draft, NEW op, InTx(op)
    PROVE  /\ Max(TxsIncluding(op)) \in DOMAIN draft.txs
           /\ op \in ToSet(draft.txs[Max(TxsIncluding(op))].includes)
           /\ TxById(TxIdOf(op)) \in DOMAIN draft.txs
<1> DEFINE S == TxsIncluding(op)
           T == {t \in DOMAIN draft.txs : draft.txs[t].id = TxIdOf(op)}
<1>1. Len(draft.txs) \in Nat /\ DOMAIN draft.txs = 1 .. Len(draft.txs)
  BY TypesOfDrafts
<1>2. IsFiniteSet(DOMAIN draft.txs) /\ DOMAIN draft.txs \subseteq Int
  BY <1>1, FS_Interval
<1>3. S \in SUBSET Int /\ IsFiniteSet(S) /\ S # {} /\ S \subseteq DOMAIN draft.txs
  <2>1. S \in SUBSET (DOMAIN draft.txs)
    BY DEF TxsIncluding
  <2> QED BY <1>2, <2>1, FS_Subset DEF InTx
<1>4. Max(S) \in S
  BY <1>3, MaxExists
<1>5. T \in SUBSET Int /\ IsFiniteSet(T) /\ T # {}
  <2>1. T \in SUBSET (DOMAIN draft.txs)
    OBVIOUS
  <2>2. Max(S) \in T
    BY <1>3, <1>4 DEF TxIdOf
  <2> HIDE DEF T
  <2> QED BY <1>2, <2>1, <2>2, FS_Subset
<1>6. Max(T) \in T
  <2> HIDE DEF T
  <2> QED BY <1>5, MaxExists
<1> QED BY <1>3, <1>4, <1>6 DEF TxById, TxsIncluding

LEMMA SegmentsAreMaximal ==
    ASSUME draft \in Draft, NEW op \in Ops(draft), InTx(op)
    PROVE  SegmentEnd(op) \in op .. Len(draft.roles) /\ SegmentEnd(op) \in Cuts
<1> DEFINE Same(k) == InTx(k) /\ TxIdOf(k) = TxIdOf(op)
           S == {j \in op .. Len(draft.roles) : \A k \in op .. j : Same(k)}
           m == Max(S)
<1>1. Len(draft.roles) \in Nat /\ Ops(draft) = 1 .. Len(draft.roles) /\ op \in Int
  BY TypesOfDrafts
<1>2. S \in SUBSET Int /\ IsFiniteSet(S) /\ S # {}
  <2>1. S \in SUBSET (op .. Len(draft.roles)) /\ IsFiniteSet(op .. Len(draft.roles))
    BY <1>1, FS_Interval
  <2>2. \A k \in op .. op : Same(k)
    BY <1>1
  <2>3. op \in S
    <3> HIDE DEF Same
    <3> QED BY <1>1, <2>2
  <2> HIDE DEF S
  <2>4. IsFiniteSet(S)
    BY <2>1, FS_Subset
  <2>5. S \in SUBSET Int
    <3>1. op .. Len(draft.roles) \in SUBSET Int
      BY <1>1
    <3> QED BY <2>1, <3>1
  <2> QED BY <2>3, <2>4, <2>5
<1>3. m \in S /\ \A j \in S : j <= m
  <2> HIDE DEF S
  <2> QED BY <1>2, MaxExists
<1>4. SegmentEnd(op) = m
  BY DEF SegmentEnd
<1> HIDE DEF m
<1>5. m \in op .. Len(draft.roles) /\ \A k \in op .. m : Same(k)
  BY <1>3
<1>6. m \in Cuts
  <2> SUFFICES ASSUME InTx(m), InTx(m + 1), TxIdOf(m) = TxIdOf(m + 1) PROVE FALSE
    BY <1>1, <1>5 DEF Cuts
  <2>1. m \in op .. m /\ m + 1 \in op .. Len(draft.roles)
    BY <1>1, <1>5 DEF InTx
  <2>2. Same(m + 1)
    BY <1>5, <2>1
  <2> HIDE DEF Same
  <2>3. \A k \in op .. m + 1 : Same(k)
    <3>1. \A k \in op .. m + 1 : k \in op .. m \/ k = m + 1
      BY <1>1, <1>5
    <3> QED BY <1>5, <2>2, <3>1
  <2>4. m + 1 \in S
    BY <2>1, <2>3
  <2> HIDE DEF S
  <2> QED BY <1>1, <1>3, <1>5, <2>4
<1> QED BY <1>4, <1>5, <1>6

---------------------------------------------------------------------------
(* The lowerer *)

LEMMA Numbers ==
    ASSUME IInv
    PROVE  /\ draft \in Draft /\ Len(draft.roles) \in Nat /\ Ops(draft) = 1 .. Len(draft.roles)
           /\ groups \in Seq(Group) /\ Len(groups) \in Nat /\ DOMAIN groups = 1 .. Len(groups)
           /\ i \in 1 .. Len(draft.roles) + 1 /\ i \in Nat
           /\ cursor.group \in Nat /\ cursor.op \in Nat
           /\ Len(committed) \in Nat /\ Len(pending) \in Nat
<1>1. draft \in Draft /\ Len(draft.roles) \in Nat /\ Ops(draft) = 1 .. Len(draft.roles)
  BY TypesOfDrafts DEF IInv, TypeOK
<1>2. groups \in Seq(Group) /\ Len(groups) \in Nat /\ DOMAIN groups = 1 .. Len(groups)
  BY DEF IInv, TypeOK
<1>3. i \in 1 .. Len(draft.roles) + 1 /\ cursor \in [group : 1 .. Len(groups) + 1, op : Nat \ {0}]
  BY DEF IInv, TypeOK
<1>4. Len(committed) \in Nat /\ Len(pending) \in Nat
  BY DEF IInv, TypeOK
<1> QED BY <1>1, <1>2, <1>3, <1>4

(* A call that takes the operations from i to a cut keeps the invariant.   *)
LEMMA CallAppended ==
    ASSUME IInv, pc = "lower", pc' = pc,
           NEW t \in {0} \cup DOMAIN draft.txs, NEW ops \in Seq(Nat),
           NEW last \in i .. Len(draft.roles),
           Len(ops) = last - i + 1, \A k \in 1 .. Len(ops) : ops[k] = i + k - 1,
           t = 0 => Len(ops) = 1, last \in Cuts,
           groups' = Append(groups, [tx |-> t, ops |-> ops]), i' = last + 1,
           UNCHANGED <<draft, environment, edits, report, host>>
    PROVE  IInv'
<1> DEFINE n == Len(groups)
           new == [tx |-> t, ops |-> ops]
<1>1. /\ draft \in Draft /\ Len(draft.roles) \in Nat /\ groups \in Seq(Group)
      /\ n \in Nat /\ DOMAIN groups = 1 .. n /\ i \in Nat /\ i > 0 /\ last \in Nat
  BY Numbers
<1>2. t \in Nat
  BY <1>1, TypesOfDrafts
<1>3. new \in Group
  BY <1>2 DEF Group
<1>4. /\ groups' \in Seq(Group) /\ Len(groups') = n + 1 /\ DOMAIN groups' = 1 .. n + 1
      /\ groups'[n + 1] = new /\ \A g \in 1 .. n : groups'[g] = groups[g]
  <2> HIDE DEF new
  <2>1. groups' = Append(groups, new)
    BY DEF new
  <2>2. groups' \in Seq(Group) /\ Len(groups') = n + 1
    BY <1>1, <1>3, <2>1
  <2>3. groups'[n + 1] = new /\ \A g \in 1 .. n : groups'[g] = groups[g]
    BY <1>1, <1>3, <2>1
  <2> QED BY <2>2, <2>3
<1>5. \A g \in 1 .. n : From'[g] = From[g] /\ Beyond'[g] = Beyond[g]
  BY <1>4 DEF From, Beyond
<1>6. From'[n + 1] = i /\ Beyond'[n + 1] = last + 1
  <2>1. groups'[n + 1].ops = ops
    BY <1>4
  <2>2. Len(ops) \in Nat /\ 1 <= Len(ops) /\ i + Len(ops) = last + 1
    BY <1>1
  <2>3. ops[1] = i
    <3>1. 1 \in 1 .. Len(ops) /\ i + 1 - 1 = i
      BY <1>1, <2>2
    <3> QED BY <3>1
  <2>4. n + 1 \in DOMAIN groups'
    BY <1>1, <1>4
  <2>5. From'[n + 1] = i
    BY <2>1, <2>3, <2>4 DEF From
  <2>6. Beyond'[n + 1] = From'[n + 1] + Len(groups'[n + 1].ops)
    BY <2>4 DEF Beyond
  <2> QED BY <2>1, <2>2, <2>5, <2>6
<1>7. Cuts' = Cuts
  BY DEF Cuts, InTx, TxsIncluding, TxIdOf, Ops
<1>8. CallsAreTyped'
  <2>1. \A g \in 1 .. n :
          /\ groups[g].tx \in {0} \cup DOMAIN draft.txs
          /\ Len(groups[g].ops) \in Nat \ {0} /\ From[g] \in Nat \ {0}
          /\ \A k \in 1 .. Len(groups[g].ops) : groups[g].ops[k] = From[g] + k - 1
          /\ groups[g].tx = 0 => Len(groups[g].ops) = 1
    BY <1>1 DEF IInv, CallsAreTyped
  <2>2. /\ groups'[n + 1].tx \in {0} \cup DOMAIN draft.txs
        /\ Len(groups'[n + 1].ops) \in Nat \ {0} /\ From'[n + 1] \in Nat \ {0}
        /\ \A k \in 1 .. Len(groups'[n + 1].ops) :
             groups'[n + 1].ops[k] = From'[n + 1] + k - 1
        /\ groups'[n + 1].tx = 0 => Len(groups'[n + 1].ops) = 1
    <3>1. groups'[n + 1].tx = t /\ groups'[n + 1].ops = ops
      BY <1>4
    <3>2. Len(ops) \in Nat \ {0}
      BY <1>1
    <3>3. From'[n + 1] = i
      BY <1>6
    <3>4. \A k \in 1 .. Len(groups'[n + 1].ops) : groups'[n + 1].ops[k] = From'[n + 1] + k - 1
      BY <3>1, <3>3
    <3>5. groups'[n + 1].tx \in {0} \cup DOMAIN draft.txs /\ (groups'[n + 1].tx = 0 => Len(ops) = 1)
      BY <3>1
    <3>6. Len(groups'[n + 1].ops) \in Nat \ {0}
      BY <3>1, <3>2
    <3>7. groups'[n + 1].tx = 0 => Len(groups'[n + 1].ops) = 1
      BY <3>1, <3>5
    <3>8. From'[n + 1] \in Nat \ {0}
      BY <1>1, <3>3
    <3> HIDE DEF new, n
    <3> QED BY <3>4, <3>5, <3>6, <3>7, <3>8
  <2>3. \A g \in DOMAIN groups' : g \in 1 .. n \/ g = n + 1
    BY <1>1, <1>4
  <2>4. ASSUME NEW g \in 1 .. n
        PROVE  groups'[g] = groups[g] /\ From'[g] = From[g]
    BY <1>4, <1>5
  <2> HIDE DEF n, new
  <2>5. ASSUME NEW g \in DOMAIN groups'
        PROVE  /\ groups'[g].tx \in {0} \cup DOMAIN draft.txs
               /\ Len(groups'[g].ops) \in Nat \ {0} /\ From'[g] \in Nat \ {0}
               /\ \A k \in 1 .. Len(groups'[g].ops) : groups'[g].ops[k] = From'[g] + k - 1
               /\ groups'[g].tx = 0 => Len(groups'[g].ops) = 1
    <3>1. CASE g \in 1 .. n
      <4>1. groups'[g] = groups[g] /\ From'[g] = From[g]
        BY <2>4, <3>1
      <4> QED BY <2>1, <3>1, <4>1
    <3>2. CASE g = n + 1
      BY <2>2, <3>2
    <3> QED BY <2>3, <3>1, <3>2
  <2>6. groups' \in Seq(Group) /\ UNCHANGED draft
    BY <1>4
  <2> QED BY <2>5, <2>6 DEF CallsAreTyped
<1>9. CallsFollow'
  <2>1. /\ \A g \in 1 .. n : /\ From[g] = IF g = 1 THEN 1 ELSE Beyond[g - 1]
                             /\ Beyond[g] <= i
                             /\ Beyond[g] - 1 \in Cuts
        /\ i = IF n = 0 THEN 1 ELSE Beyond[n]
    BY <1>1 DEF IInv, CallsFollow
  <2>2. \A g \in 1 .. n : Beyond[g] \in Nat
    <3>1. \A g \in 1 .. n : From[g] \in Nat /\ Len(groups[g].ops) \in Nat
      BY <1>1 DEF IInv, CallsAreTyped
    <3>2. DOMAIN groups = 1 .. n
      BY <1>1
    <3> HIDE DEF n, new
    <3>3. ASSUME NEW g \in 1 .. n PROVE Beyond[g] = From[g] + Len(groups[g].ops)
      BY <3>2 DEF Beyond
    <3>4. ASSUME NEW g \in 1 .. n PROVE Beyond[g] \in Nat
      <4>1. From[g] \in Nat /\ Len(groups[g].ops) \in Nat
        BY <3>1
      <4> HIDE DEF Beyond, From
      <4> QED BY <3>3, <4>1
    <3> QED BY <3>4
  <2>3. ASSUME NEW g \in 1 .. n
        PROVE  /\ From'[g] = IF g = 1 THEN 1 ELSE Beyond'[g - 1]
               /\ Beyond'[g] <= i'
               /\ Beyond'[g] - 1 \in Cuts'
    <3>1. g = 1 \/ g - 1 \in 1 .. n
      BY <1>1
    <3>2. From'[g] = IF g = 1 THEN 1 ELSE Beyond'[g - 1]
      BY <1>5, <2>1, <3>1
    <3>3. Beyond'[g] <= i'
      <4>1. Beyond[g] <= i /\ Beyond[g] \in Nat /\ i <= last
        BY <1>1, <2>1, <2>2
      <4>2. Beyond[g] <= last + 1
        BY <1>1, <4>1
      <4> QED BY <1>5, <4>2
    <3>4. Beyond'[g] - 1 \in Cuts'
      BY <1>5, <1>7, <2>1
    <3> QED BY <3>2, <3>3, <3>4
  <2>4. /\ From'[n + 1] = IF n + 1 = 1 THEN 1 ELSE Beyond'[n]
        /\ Beyond'[n + 1] <= i'
        /\ Beyond'[n + 1] - 1 \in Cuts'
    <3>1. From'[n + 1] = IF n + 1 = 1 THEN 1 ELSE Beyond'[n]
      <4>1. CASE n = 0
        BY <1>6, <2>1, <4>1
      <4>2. CASE n # 0
        <5>1. n \in 1 .. n
          BY <1>1, <4>2
        <5> QED BY <1>1, <1>5, <1>6, <2>1, <4>2, <5>1
      <4> QED BY <4>1, <4>2
    <3>2. Beyond'[n + 1] <= i'
      BY <1>1, <1>6
    <3>3. Beyond'[n + 1] - 1 = last
      BY <1>1, <1>6
    <3> QED BY <1>1, <1>7, <3>1, <3>2, <3>3
  <2>5. i' = IF Len(groups') = 0 THEN 1 ELSE Beyond'[Len(groups')]
    BY <1>1, <1>4, <1>6
  <2>6. i' \in 1 .. Len(draft.roles) + 1
    BY <1>1
  <2>7. \A g \in DOMAIN groups' : g \in 1 .. n \/ g = n + 1
    BY <1>1, <1>4
  <2>8. (n + 1) - 1 = n
    BY <1>1
  <2>9. \A g \in DOMAIN groups' :
          /\ From'[g] = IF g = 1 THEN 1 ELSE Beyond'[g - 1]
          /\ Beyond'[g] <= i'
          /\ Beyond'[g] - 1 \in Cuts'
    BY <2>3, <2>4, <2>7, <2>8
  <2> QED BY <2>5, <2>6, <2>9 DEF CallsFollow
<1>10. pending = <<>> /\ committed = <<>> /\ cursor = [group |-> 1, op |-> 1]
  BY DEF IInv, Untouched
<1>11. HostFollows'
  <2>1. 1 \in DOMAIN groups' /\ cursor'.group = 1 /\ cursor'.op = 1
    BY <1>1, <1>4, <1>10 DEF host
  <2>2. cursor' \in [group : 1 .. Len(groups') + 1, op : Nat \ {0}]
    BY <1>1, <1>4, <1>10 DEF host
  <2>3. 1 \in 1 .. Len(groups'[1].ops) + 1
    BY <1>8, <2>1 DEF CallsAreTyped
  <2> QED BY <2>1, <2>2, <2>3 DEF HostFollows
<1>12. InOrder' /\ Untouched' /\ StaleReportLowersNothing'
  BY <1>7, <1>10 DEF host, IInv, InOrder, Untouched, StaleReportLowersNothing, Ops
<1>13. TypeOK'
  <2>1. draft' \in Draft /\ environment' \in Environments /\ edits' \in 0 .. MaxEdits
        /\ pc' \in {"verify", "gate", "lower", "run", "refused", "failed", "done"}
        /\ report' \in [status : {"none", "passed", "blocked"}, workflow : Workflows]
    BY DEF IInv, TypeOK
  <2>2. i' \in 1 .. Len(draft'.roles) + 1 /\ groups' \in Seq(Group)
    BY <1>4, <1>9 DEF CallsFollow
  <2>3. \A g \in DOMAIN groups' : groups'[g].tx \in {0} \cup DOMAIN draft'.txs
    BY <1>8 DEF CallsAreTyped
  <2>4. cursor' \in [group : 1 .. Len(groups') + 1, op : Nat \ {0}]
    BY <1>11 DEF HostFollows
  <2>5. pending' \in Seq(Ops(draft')) /\ committed' \in Seq(Ops(draft'))
    BY <1>12 DEF InOrder
  <2> QED BY <2>1, <2>2, <2>3, <2>4, <2>5 DEF TypeOK
<1> QED BY <1>8, <1>9, <1>11, <1>12, <1>13 DEF IInv

LEMMA EmitOperationStep ==
    ASSUME IInv, EmitOperation
    PROVE  IInv'
<1>1. i \in Nat /\ i \in i .. Len(draft.roles) /\ i \in 1 .. Len(draft.roles)
  BY Numbers DEF EmitOperation
<1>2. <<i>> \in Seq(Nat) /\ Len(<<i>>) = i - i + 1
      /\ \A k \in 1 .. Len(<<i>>) : <<i>>[k] = i + k - 1
  BY <1>1
<1>3. i \in Cuts
  BY <1>1, Numbers DEF EmitOperation, Cuts
<1>4. /\ groups' = Append(groups, [tx |-> 0, ops |-> <<i>>]) /\ i' = i + 1
      /\ pc = "lower" /\ pc' = pc
      /\ UNCHANGED <<draft, environment, edits, report, host>>
  BY DEF EmitOperation
<1> QED BY <1>1, <1>2, <1>3, <1>4, CallAppended

LEMMA EmitTransactionStep ==
    ASSUME IInv, EmitTransaction
    PROVE  IInv'
<1> DEFINE last == SegmentEnd(i)
           ops == [k \in 1 .. last - i + 1 |-> i + k - 1]
           t == TxById(TxIdOf(i))
<1>1. draft \in Draft /\ Len(draft.roles) \in Nat /\ i \in Ops(draft) /\ i \in Nat /\ i > 0
  BY Numbers DEF EmitTransaction, InTx
<1>2. last \in i .. Len(draft.roles) /\ last \in Cuts
  BY <1>1, SegmentsAreMaximal DEF EmitTransaction
<1>3. t \in DOMAIN draft.txs /\ t # 0
  BY <1>1, LastTransaction, TypesOfDrafts DEF EmitTransaction
<1>4. /\ groups' = Append(groups, [tx |-> t, ops |-> ops]) /\ i' = last + 1
      /\ pc = "lower" /\ pc' = pc
      /\ UNCHANGED <<draft, environment, edits, report, host>>
  BY DEF EmitTransaction
<1> HIDE DEF last, t
<1>5. ops \in Seq(Nat) /\ Len(ops) = last - i + 1 /\ \A k \in 1 .. Len(ops) : ops[k] = i + k - 1
  <2>1. last - i + 1 \in Nat /\ \A k \in 1 .. last - i + 1 : i + k - 1 \in Nat
    BY <1>1, <1>2
  <2> QED BY <2>1
<1> HIDE DEF ops
<1>6. t \in {0} \cup DOMAIN draft.txs /\ (t = 0 => Len(ops) = 1)
  BY <1>3
<1> QED BY <1>2, <1>4, <1>5, <1>6, CallAppended

---------------------------------------------------------------------------
(* The gate *)

LEMMA InitIInv ==
    ASSUME Init
    PROVE  IInv
<1>1. draft \in Draft /\ Len(draft.roles) \in Nat /\ Ops(draft) = 1 .. Len(draft.roles)
  BY DraftsAssumption, TypesOfDrafts DEF Init
<1>2. TypeOK
  BY <1>1, MaxEditsAssumption DEF Init, TypeOK, Draft
<1>3. 0 \in Cuts
  BY <1>1 DEF Cuts, InTx
<1>4. CallsAreTyped /\ CallsFollow /\ HostFollows
  BY <1>1 DEF Init, CallsAreTyped, CallsFollow, HostFollows
<1>5. InOrder /\ Untouched /\ StaleReportLowersNothing
  BY <1>3 DEF Init, InOrder, Untouched, StaleReportLowersNothing
<1> QED BY <1>2, <1>4, <1>5 DEF IInv

(* Before the lowerer starts there are no calls, whatever the draft is.    *)
LEMMA BeforeTheLowerer ==
    ASSUME IInv, pc \in {"verify", "gate"}, pc' \in {"gate", "refused"},
           draft' \in Draft, edits' \in 0 .. MaxEdits,
           report' \in [status : {"none", "passed", "blocked"}, workflow : Workflows],
           UNCHANGED <<environment, lowerer, host>>
    PROVE  IInv'
<1>1. /\ i = 1 /\ groups = <<>> /\ pending = <<>> /\ committed = <<>>
      /\ cursor = [group |-> 1, op |-> 1]
      /\ i' = 1 /\ groups' = <<>> /\ pending' = <<>> /\ committed' = <<>>
      /\ cursor' = [group |-> 1, op |-> 1]
  BY DEF IInv, Untouched, lowerer, host
<1>2. Len(draft'.roles) \in Nat /\ Ops(draft') = 1 .. Len(draft'.roles)
  BY TypesOfDrafts
<1>3. TypeOK'
  BY <1>1, <1>2 DEF IInv, TypeOK
<1>4. 0 \in Cuts'
  BY <1>2 DEF Cuts, InTx
<1>5. CallsAreTyped' /\ CallsFollow' /\ HostFollows'
  BY <1>1, <1>2 DEF CallsAreTyped, CallsFollow, HostFollows
<1>6. InOrder' /\ Untouched' /\ StaleReportLowersNothing'
  BY <1>1, <1>4 DEF InOrder, Untouched, StaleReportLowersNothing
<1> QED BY <1>3, <1>5, <1>6 DEF IInv

LEMMA VerifyStep ==
    ASSUME IInv, Verify
    PROVE  IInv'
<1>1. draft' \in Draft /\ edits' \in 0 .. MaxEdits /\ draft.workflow \in Workflows
  BY DEF IInv, TypeOK, Verify, Draft
<1>2. report' \in [status : {"none", "passed", "blocked"}, workflow : Workflows]
  BY <1>1 DEF Verify, VerifyStatus
<1>3. /\ pc \in {"verify", "gate"} /\ pc' \in {"gate", "refused"}
      /\ UNCHANGED <<environment, lowerer, host>>
  BY DEF Verify
<1> QED BY <1>1, <1>2, <1>3, BeforeTheLowerer

LEMMA ReplaceDraftStep ==
    ASSUME IInv, ReplaceDraft
    PROVE  IInv'
<1>1. draft' \in Draft
  BY DraftsAssumption DEF ReplaceDraft
<1>2. edits' \in 0 .. MaxEdits
  BY MaxEditsAssumption DEF IInv, TypeOK, ReplaceDraft
<1>3. report' \in [status : {"none", "passed", "blocked"}, workflow : Workflows]
  BY DEF IInv, TypeOK, ReplaceDraft
<1>4. /\ pc \in {"verify", "gate"} /\ pc' \in {"gate", "refused"}
      /\ UNCHANGED <<environment, lowerer, host>>
  BY DEF ReplaceDraft
<1> QED BY <1>1, <1>2, <1>3, <1>4, BeforeTheLowerer

LEMMA RefuseStep ==
    ASSUME IInv, Refuse
    PROVE  IInv'
<1>1. /\ draft' \in Draft /\ edits' \in 0 .. MaxEdits
      /\ report' \in [status : {"none", "passed", "blocked"}, workflow : Workflows]
  BY DEF IInv, TypeOK, Refuse
<1>2. /\ pc \in {"verify", "gate"} /\ pc' \in {"gate", "refused"}
      /\ UNCHANGED <<environment, lowerer, host>>
  BY DEF Refuse
<1> QED BY <1>1, <1>2, BeforeTheLowerer

(* The parts of the invariant that only the draft, the calls and the       *)
(* cursor appear in.                                                       *)
LEMMA CallsUntouched ==
    ASSUME IInv, UNCHANGED <<draft, lowerer>>
    PROVE  /\ Cuts' = Cuts /\ From' = From /\ Beyond' = Beyond
           /\ CallsAreTyped'
           /\ (pc' \in {"run", "failed", "done"} => i = Len(draft.roles) + 1) => CallsFollow'
<1>1. Cuts' = Cuts
  BY DEF Cuts, InTx, TxsIncluding, TxIdOf, Ops
<1>2. From' = From /\ Beyond' = Beyond
  BY DEF From, Beyond, lowerer
<1>3. CallsAreTyped'
  BY <1>2 DEF IInv, CallsAreTyped, lowerer
<1>4. (pc' \in {"run", "failed", "done"} => i = Len(draft.roles) + 1) => CallsFollow'
  BY <1>1, <1>2 DEF IInv, CallsFollow, lowerer
<1> QED BY <1>1, <1>2, <1>3, <1>4

LEMMA AdmitStep ==
    ASSUME IInv, Admit
    PROVE  IInv'
<1>1. CallsAreTyped' /\ CallsFollow' /\ Cuts' = Cuts /\ From' = From
  BY CallsUntouched DEF Admit
<1>2. TypeOK'
  BY DEF Admit, IInv, TypeOK, lowerer, host
<1>3. HostFollows' /\ InOrder' /\ Untouched'
  BY <1>1 DEF Admit, IInv, HostFollows, InOrder, Untouched, lowerer, host, Ops
<1>4. StaleReportLowersNothing'
  BY DEF Admit, Eligible, StaleReportLowersNothing, VerifyStatus, TransactionsPass,
         ValidBinding, RequiredRoles, HasRequiredRoles, ModeAllowed, RolesInOrder,
         OrderRoles, OpsForRole, Included, Ops, SpanOf
<1> QED BY <1>1, <1>2, <1>3, <1>4 DEF IInv

---------------------------------------------------------------------------
(* The host *)

LEMMA WriteSkeletonStep ==
    ASSUME IInv, WriteSkeleton
    PROVE  IInv'
<1>1. /\ i = Len(draft.roles) + 1 /\ pc = "lower" /\ pc' = "run"
      /\ UNCHANGED <<draft, environment, edits, report, lowerer, host>>
  BY Numbers DEF WriteSkeleton
<1>2. /\ pending = <<>> /\ committed = <<>> /\ cursor = [group |-> 1, op |-> 1]
      /\ pending' = <<>> /\ committed' = <<>> /\ cursor' = cursor
      /\ i' = i /\ groups' = groups
  BY <1>1 DEF IInv, Untouched, lowerer, host
<1>3. CallsAreTyped' /\ CallsFollow' /\ Cuts' = Cuts /\ From' = From
  BY <1>1, CallsUntouched
<1>4. Ran' = 0
  <2>1. CASE Len(groups) = 0
    BY <1>2, <2>1, Numbers DEF IInv, CallsFollow, Ran
  <2>2. CASE Len(groups) # 0
    <3>1. 1 \in DOMAIN groups
      BY <2>2, Numbers
    <3>2. From[1] = 1
      BY <3>1 DEF IInv, CallsFollow
    <3> QED BY <1>2, <1>3, <3>1, <3>2 DEF Ran
  <2> QED BY <2>1, <2>2
<1>5. HostFollows'
  <2>1. /\ cursor' \in [group : 1 .. Len(groups') + 1, op : Nat \ {0}]
        /\ cursor'.group \in DOMAIN groups' =>
             cursor'.op \in 1 .. Len(groups'[cursor'.group].ops) + 1
    BY <1>2 DEF IInv, HostFollows
  <2>2. Len(committed') + Len(pending') = Ran'
        /\ Len(pending') = 0 /\ cursor'.op - 1 = 0
    BY <1>2, <1>4
  <2> QED BY <1>1, <2>1, <2>2 DEF HostFollows
<1>6. TypeOK' /\ InOrder' /\ Untouched' /\ StaleReportLowersNothing'
  BY <1>1, <1>2, <1>3
     DEF IInv, TypeOK, InOrder, Untouched, StaleReportLowersNothing, Ops, lowerer, host
<1> QED BY <1>3, <1>5, <1>6 DEF IInv

(* The operation the host runs next is the one after those it has run.     *)
LEMMA CallInProgress ==
    ASSUME IInv, cursor.group \in DOMAIN groups
    PROVE  /\ Len(Current.ops) \in Nat \ {0} /\ cursor.op \in 1 .. Len(Current.ops) + 1
           /\ Current.ops \in Seq(Nat) /\ DOMAIN Current.ops = 1 .. Len(Current.ops)
           /\ From[cursor.group] \in Nat \ {0}
           /\ Ran = From[cursor.group] + cursor.op - 2
           /\ cursor.op <= Len(Current.ops) =>
                Current.ops[cursor.op] = Ran + 1 /\ Ran + 1 \in Ops(draft)
           /\ Current.tx = 0 => Len(Current.ops) = 1
           /\ Beyond[cursor.group] = From[cursor.group] + Len(Current.ops)
           /\ Beyond[cursor.group] - 1 \in Cuts
<1> DEFINE c == cursor.group
           n == Len(Current.ops)
<1>1. /\ n \in Nat \ {0} /\ From[c] \in Nat \ {0}
      /\ \A k \in 1 .. n : Current.ops[k] = From[c] + k - 1
      /\ Current.tx = 0 => n = 1
  BY DEF IInv, CallsAreTyped, Current
<1>2. Current.ops \in Seq(Nat)
  <2>1. groups \in Seq(Group)
    BY Numbers
  <2>2. Current \in Group
    BY <2>1 DEF Current
  <2> QED BY <2>2 DEF Group
<1>3. cursor.op \in 1 .. n + 1 /\ cursor.op \in Nat
  BY Numbers DEF IInv, HostFollows, Current
<1>4. Ran = From[c] + cursor.op - 2
  BY DEF Ran
<1>5. Beyond[c] = From[c] + n /\ Beyond[c] <= i /\ Beyond[c] - 1 \in Cuts
  BY DEF IInv, CallsFollow, Beyond, Current
<1>6. i \in Nat /\ i <= Len(draft.roles) + 1 /\ Len(draft.roles) \in Nat
      /\ Ops(draft) = 1 .. Len(draft.roles)
  BY Numbers
<1>7. ASSUME cursor.op <= n
      PROVE  Current.ops[cursor.op] = Ran + 1 /\ Ran + 1 \in Ops(draft)
  <2> HIDE DEF n
  <2>1. cursor.op \in 1 .. n
    BY <1>1, <1>3, <1>7
  <2>2. Current.ops[cursor.op] = Ran + 1
    BY <1>1, <1>3, <1>4, <2>1
  <2>3. Ran + 1 >= 1 /\ Ran + 1 <= From[c] + n - 1 /\ Ran \in Int
    BY <1>1, <1>3, <1>4, <1>7
  <2>4. Ran + 1 <= Len(draft.roles)
    BY <1>1, <1>5, <1>6, <2>3
  <2> QED BY <1>6, <2>2, <2>3, <2>4
<1> QED BY <1>1, <1>2, <1>3, <1>4, <1>5, <1>7

LEMMA RunOperationStep ==
    ASSUME IInv, RunOperation
    PROVE  IInv'
<1> DEFINE c == cursor.group
           o == cursor.op
           op == Current.ops[o]
<1>1. /\ pc = "run" /\ pc' = "run" /\ c \in DOMAIN groups
      /\ o \in Nat \ {0} /\ o <= Len(Current.ops) /\ Len(Current.ops) \in Nat
      /\ cursor' = [cursor EXCEPT !.op = @ + 1]
      /\ draft' = draft /\ groups' = groups /\ i' = i
      /\ UNCHANGED <<environment, edits, report>>
  <2>1. pc = "run" /\ c \in DOMAIN groups /\ o \in DOMAIN Current.ops
    BY DEF RunOperation
  <2>2. o \in 1 .. Len(Current.ops) /\ Len(Current.ops) \in Nat
    BY <2>1, CallInProgress
  <2> QED BY <2>1, <2>2 DEF RunOperation, lowerer
<1>2. cursor \in [group : 1 .. Len(groups) + 1, op : Nat \ {0}]
  BY DEF IInv, HostFollows
<1>3. cursor'.group = c /\ cursor'.op = o + 1
      /\ cursor' \in [group : 1 .. Len(groups) + 1, op : Nat \ {0}]
  BY <1>1, <1>2
<1>4. CallsAreTyped' /\ CallsFollow' /\ Cuts' = Cuts /\ From' = From
  BY <1>1, CallsUntouched DEF IInv, CallsFollow, lowerer
<1>5. /\ op = Ran + 1 /\ op \in Ops(draft) /\ From[c] \in Nat \ {0} /\ Ran = From[c] + o - 2
      /\ Ran \in Nat
      /\ Current.tx = 0 => o = 1 /\ Ran + 1 \in Cuts
  <2>1. op = Ran + 1 /\ op \in Ops(draft) /\ From[c] \in Nat \ {0} /\ Ran = From[c] + o - 2
    BY <1>1, CallInProgress
  <2>2. Current.tx = 0 => o = 1 /\ Ran + 1 \in Cuts
    <3> SUFFICES ASSUME Current.tx = 0 PROVE o = 1 /\ Ran + 1 \in Cuts
      OBVIOUS
    <3>1. /\ Len(Current.ops) = 1 /\ Beyond[c] = From[c] + 1 /\ Beyond[c] - 1 \in Cuts
      BY <1>1, CallInProgress
    <3>2. o = 1 /\ Ran + 1 = Beyond[c] - 1
      BY <1>1, <2>1, <3>1
    <3> QED BY <3>1, <3>2
  <2> QED BY <1>1, <2>1, <2>2
<1>6. /\ committed \in Seq(Ops(draft)) /\ pending \in Seq(Ops(draft))
      /\ Len(committed) \in Nat /\ Len(pending) \in Nat
      /\ \A k \in 1 .. Len(committed) : committed[k] = k
      /\ \A k \in 1 .. Len(pending) : pending[k] = Len(committed) + k
      /\ Len(committed) \in Cuts
      /\ Len(committed) + Len(pending) = Ran
      /\ Len(pending) = IF Current.tx # 0 THEN o - 1 ELSE 0
  BY <1>1 DEF IInv, InOrder, HostFollows
<1>7. Current' = Current
  BY <1>1, <1>3 DEF Current
<1>8. Ran' = Ran + 1
  BY <1>1, <1>3, <1>4, <1>5 DEF Ran
<1> HIDE DEF op, o
<1>9. /\ InOrder'
      /\ Len(committed') + Len(pending') = Ran'
      /\ Len(pending') = IF Current.tx # 0 THEN o ELSE 0
  <2>1. CASE Current.tx = 0
    <3>1. committed' = Append(committed, op) /\ pending' = pending
      BY <2>1 DEF RunOperation, op, o
    <3>2. /\ committed' \in Seq(Ops(draft)) /\ Len(committed') = Len(committed) + 1
          /\ committed'[Len(committed) + 1] = op
          /\ \A k \in 1 .. Len(committed) : committed'[k] = committed[k]
      BY <1>5, <1>6, <3>1
    <3>3. Len(pending) = 0 /\ Len(committed) = Ran
      BY <1>5, <1>6, <2>1
    <3>4. \A k \in 1 .. Len(committed') : committed'[k] = k
      <4>1. \A k \in 1 .. Len(committed') : k \in 1 .. Len(committed) \/ k = Len(committed) + 1
        BY <1>6, <3>2
      <4> QED BY <1>5, <1>6, <3>2, <3>3, <4>1
    <3>5. Len(committed') \in Cuts'
      BY <1>4, <1>5, <2>1, <3>2, <3>3
    <3>6. \A k \in 1 .. Len(pending') : pending'[k] = Len(committed') + k
      BY <3>1, <3>3
    <3>7. InOrder'
      BY <1>1, <1>6, <3>1, <3>2, <3>4, <3>5, <3>6 DEF InOrder, Ops
    <3> QED BY <1>6, <1>8, <2>1, <3>1, <3>2, <3>3, <3>7
  <2>2. CASE Current.tx # 0
    <3>1. pending' = Append(pending, op) /\ committed' = committed
      BY <2>2 DEF RunOperation, op, o
    <3>2. /\ pending' \in Seq(Ops(draft)) /\ Len(pending') = Len(pending) + 1
          /\ pending'[Len(pending) + 1] = op
          /\ \A k \in 1 .. Len(pending) : pending'[k] = pending[k]
      BY <1>5, <1>6, <3>1
    <3>3. \A k \in 1 .. Len(pending') : pending'[k] = Len(committed) + k
      <4>1. \A k \in 1 .. Len(pending') : k \in 1 .. Len(pending) \/ k = Len(pending) + 1
        BY <1>6, <3>2
      <4>2. op = Len(committed) + (Len(pending) + 1)
        BY <1>5, <1>6
      <4> QED BY <1>6, <3>2, <4>1, <4>2
    <3>4. InOrder'
      BY <1>1, <1>4, <1>6, <3>1, <3>2, <3>3 DEF InOrder, Ops
    <3> QED BY <1>1, <1>6, <1>8, <2>2, <3>1, <3>2, <3>4
  <2> QED BY <2>1, <2>2
<1>10. HostFollows'
  <2>1. cursor'.op \in 1 .. Len(groups'[cursor'.group].ops) + 1
    BY <1>1, <1>3 DEF Current, o
  <2>2. Len(pending') = IF Current'.tx # 0 THEN cursor'.op - 1 ELSE 0
    BY <1>1, <1>3, <1>7, <1>9
  <2> QED BY <1>1, <1>3, <1>9, <2>1, <2>2 DEF HostFollows
<1>11. TypeOK'
  BY <1>1, <1>3, <1>9 DEF IInv, TypeOK, InOrder
<1>12. Untouched' /\ StaleReportLowersNothing'
  BY <1>1 DEF IInv, Untouched, StaleReportLowersNothing
<1> QED BY <1>4, <1>9, <1>10, <1>11, <1>12 DEF IInv

LEMMA CommitStep ==
    ASSUME IInv, Commit
    PROVE  IInv'
<1> DEFINE c == cursor.group
           n == Len(Current.ops)
           all == committed \o pending
<1>1. /\ pc = "run" /\ pc' = "run" /\ c \in DOMAIN groups /\ cursor.op \notin DOMAIN Current.ops
      /\ committed' = all /\ pending' = <<>>
      /\ cursor' = [group |-> c + 1, op |-> 1]
      /\ draft' = draft /\ groups' = groups /\ i' = i
      /\ UNCHANGED <<environment, edits, report>>
  BY DEF Commit, lowerer
<1>2. /\ n \in Nat \ {0} /\ From[c] \in Nat \ {0} /\ cursor.op = n + 1
      /\ Ran = From[c] + cursor.op - 2
      /\ Beyond[c] = From[c] + n /\ Beyond[c] - 1 \in Cuts
  <2>1. cursor.op \in 1 .. n + 1 /\ cursor.op \notin 1 .. n /\ n \in Nat \ {0}
    BY <1>1, CallInProgress
  <2>2. cursor.op = n + 1
    BY <2>1
  <2> QED BY <1>1, <2>1, <2>2, CallInProgress
<1>3. Ran = Beyond[c] - 1
  BY <1>2
<1>4. CallsAreTyped' /\ CallsFollow' /\ Cuts' = Cuts /\ From' = From /\ Beyond' = Beyond
  BY <1>1, CallsUntouched DEF IInv, CallsFollow, lowerer
<1>5. /\ committed \in Seq(Ops(draft)) /\ pending \in Seq(Ops(draft))
      /\ Len(committed) \in Nat /\ Len(pending) \in Nat
      /\ \A k \in 1 .. Len(committed) : committed[k] = k
      /\ \A k \in 1 .. Len(pending) : pending[k] = Len(committed) + k
      /\ Len(committed) + Len(pending) = Ran
  BY <1>1 DEF IInv, InOrder, HostFollows
<1>6. /\ all \in Seq(Ops(draft)) /\ Len(all) = Ran
      /\ \A k \in 1 .. Len(all) : all[k] = k
  <2>1. all \in Seq(Ops(draft)) /\ Len(all) = Len(committed) + Len(pending)
    BY <1>5
  <2>2. ASSUME NEW k \in 1 .. Len(all) PROVE all[k] = k
    <3>1. CASE k <= Len(committed)
      BY <1>5, <2>1, <3>1
    <3>2. CASE k > Len(committed)
      <4>1. k - Len(committed) \in 1 .. Len(pending)
        BY <1>5, <2>1, <3>2
      <4>2. all[k] = pending[k - Len(committed)]
        BY <1>5, <2>1, <3>2
      <4> QED BY <1>5, <4>1, <4>2
    <3> QED BY <1>5, <3>1, <3>2
  <2> QED BY <1>5, <2>1, <2>2
<1>7. InOrder'
  BY <1>1, <1>2, <1>3, <1>4, <1>6 DEF InOrder, Ops
<1>8. cursor' \in [group : 1 .. Len(groups') + 1, op : Nat \ {0}]
      /\ cursor'.group = c + 1 /\ cursor'.op = 1 /\ c \in Nat /\ c <= Len(groups)
      /\ Len(groups) \in Nat /\ DOMAIN groups = 1 .. Len(groups)
  BY <1>1, Numbers
<1>9. Ran' = Beyond[c] - 1
  <2>1. CASE c + 1 \in DOMAIN groups
    <3>1. From[c + 1] = Beyond[c]
      <4>1. c + 1 # 1 /\ (c + 1) - 1 = c
        BY <1>1, <1>8
      <4> QED BY <2>1, <4>1 DEF IInv, CallsFollow
    <3> QED BY <1>1, <1>2, <1>4, <1>8, <2>1, <3>1 DEF Ran
  <2>2. CASE c + 1 \notin DOMAIN groups
    <3>1. c = Len(groups) /\ Len(groups) # 0
      BY <1>1, <1>8, <2>2
    <3>2. i = Beyond[c]
      BY <3>1 DEF IInv, CallsFollow
    <3> QED BY <1>1, <1>8, <2>2, <3>2 DEF Ran
  <2> QED BY <2>1, <2>2
<1>10. HostFollows'
  <2>1. cursor'.group \in DOMAIN groups' =>
          cursor'.op \in 1 .. Len(groups'[cursor'.group].ops) + 1
    BY <1>4, <1>8 DEF CallsAreTyped
  <2>2. Len(pending') = 0 /\ cursor'.op - 1 = 0
    BY <1>1, <1>8
  <2>3. Len(committed') + Len(pending') = Ran'
    BY <1>1, <1>3, <1>5, <1>6, <1>9, <2>2
  <2> QED BY <1>1, <1>8, <2>1, <2>2, <2>3 DEF HostFollows
<1>11. TypeOK'
  BY <1>1, <1>7, <1>8 DEF IInv, TypeOK, InOrder
<1>12. Untouched' /\ StaleReportLowersNothing'
  BY <1>1 DEF IInv, Untouched, StaleReportLowersNothing
<1> QED BY <1>4, <1>7, <1>10, <1>11, <1>12 DEF IInv

LEMMA FailStep ==
    ASSUME IInv, Fail
    PROVE  IInv'
<1>1. /\ pc = "run" /\ pc' = "failed" /\ pending' = <<>>
      /\ draft' = draft /\ groups' = groups /\ i' = i /\ cursor' = cursor
      /\ committed' = committed
      /\ UNCHANGED <<environment, edits, report>>
  BY DEF Fail, lowerer
<1>2. CallsAreTyped' /\ CallsFollow' /\ Cuts' = Cuts
  BY <1>1, CallsUntouched DEF IInv, CallsFollow, lowerer
<1>3. InOrder' /\ HostFollows' /\ Untouched' /\ StaleReportLowersNothing'
  BY <1>1, <1>2
     DEF IInv, InOrder, HostFollows, Untouched, StaleReportLowersNothing, Ops
<1>4. TypeOK'
  BY <1>1, <1>3 DEF IInv, TypeOK
<1> QED BY <1>2, <1>3, <1>4 DEF IInv

LEMMA FinishStep ==
    ASSUME IInv, Finish
    PROVE  IInv'
<1>1. /\ pc = "run" /\ pc' = "done" /\ cursor.group \notin DOMAIN groups
      /\ draft' = draft /\ groups' = groups /\ i' = i /\ cursor' = cursor
      /\ committed' = committed /\ pending' = pending
      /\ UNCHANGED <<environment, edits, report>>
  BY DEF Finish, lowerer, host
<1>2. CallsAreTyped' /\ CallsFollow' /\ Cuts' = Cuts
  BY <1>1, CallsUntouched DEF IInv, CallsFollow, lowerer
<1>3. Len(committed) + Len(pending) = Len(draft.roles)
  <2>1. Len(committed) + Len(pending) = i - 1 /\ i = Len(draft.roles) + 1
    BY <1>1 DEF IInv, HostFollows, CallsFollow, Ran
  <2> QED BY <2>1, Numbers
<1>4. InOrder' /\ HostFollows' /\ Untouched' /\ StaleReportLowersNothing'
  BY <1>1, <1>2, <1>3
     DEF IInv, InOrder, HostFollows, Untouched, StaleReportLowersNothing, Ops
<1>5. TypeOK'
  BY <1>1 DEF IInv, TypeOK
<1> QED BY <1>2, <1>4, <1>5 DEF IInv

---------------------------------------------------------------------------
(* The theorems *)

LEMMA NextIInv ==
    ASSUME IInv, [Next]_vars
    PROVE  IInv'
<1>1. CASE UNCHANGED vars
  <2>1. UNCHANGED <<draft, lowerer>> /\ pc' = pc
    BY <1>1 DEF vars, lowerer
  <2>2. CallsAreTyped' /\ CallsFollow' /\ Cuts' = Cuts /\ From' = From
    BY <2>1, CallsUntouched DEF IInv, CallsFollow
  <2>3. TypeOK' /\ Untouched' /\ StaleReportLowersNothing' /\ InOrder'
    BY <1>1, <2>2 DEF vars, IInv, TypeOK, Untouched, StaleReportLowersNothing, InOrder, Ops
  <2>4. HostFollows'
    BY <1>1, <2>2 DEF vars, IInv, HostFollows, Ran, Current
  <2> QED BY <2>2, <2>3, <2>4 DEF IInv
<1>2. CASE Verify
  BY <1>2, VerifyStep
<1>3. CASE ReplaceDraft
  BY <1>3, ReplaceDraftStep
<1>4. CASE Refuse
  BY <1>4, RefuseStep
<1>5. CASE Admit
  BY <1>5, AdmitStep
<1>6. CASE EmitOperation
  BY <1>6, EmitOperationStep
<1>7. CASE EmitTransaction
  BY <1>7, EmitTransactionStep
<1>8. CASE WriteSkeleton
  BY <1>8, WriteSkeletonStep
<1>9. CASE RunOperation
  BY <1>9, RunOperationStep
<1>10. CASE Commit
  BY <1>10, CommitStep
<1>11. CASE Fail
  BY <1>11, FailStep
<1>12. CASE Finish
  BY <1>12, FinishStep
<1> QED BY <1>1, <1>2, <1>3, <1>4, <1>5, <1>6, <1>7, <1>8, <1>9, <1>10, <1>11, <1>12 DEF Next

LEMMA SpecIInv == Spec => []IInv
BY InitIInv, NextIInv, PTL DEF Spec

(* Every variable keeps its type: in particular every call of the skeleton *)
(* names a transaction of the draft that was lowered, or none.             *)
THEOREM TypeCorrect == Spec => []TypeOK
<1>1. IInv => TypeOK
  BY DEF IInv
<1> QED BY <1>1, SpecIInv, PTL

(* Nothing is lowered that the verifier does not pass as it is now: a      *)
(* report about an earlier draft lets nothing through.                     *)
THEOREM StaleReportsLowerNothing == Spec => []StaleReportLowersNothing
<1>1. IInv => StaleReportLowersNothing
  BY DEF IInv
<1> QED BY <1>1, SpecIInv, PTL

(* The host runs the operations once each and in task order, however the   *)
(* task is cut, and all of them when it ends well.                         *)
THEOREM TasksRunInOrder == Spec => []TaskOrderIsKept
<1>1. ASSUME IInv PROVE TaskOrderIsKept
  <2> DEFINE ran == committed \o pending
  <2>1. /\ committed \in Seq(Ops(draft)) /\ pending \in Seq(Ops(draft))
        /\ Len(committed) \in Nat /\ Len(pending) \in Nat
        /\ \A k \in 1 .. Len(committed) : committed[k] = k
        /\ \A k \in 1 .. Len(pending) : pending[k] = Len(committed) + k
        /\ pc = "done" => Len(committed) + Len(pending) = Len(draft.roles)
    BY <1>1 DEF IInv, InOrder, HostFollows
  <2>2. /\ ran \in Seq(Ops(draft)) /\ Len(ran) = Len(committed) + Len(pending)
        /\ DOMAIN ran = 1 .. Len(ran)
    BY <2>1
  <2>3. ASSUME NEW k \in 1 .. Len(ran) PROVE ran[k] = k
    <3>1. CASE k <= Len(committed)
      BY <2>1, <2>2, <3>1
    <3>2. CASE k > Len(committed)
      <4>1. k - Len(committed) \in 1 .. Len(pending)
        BY <2>1, <2>2, <3>2
      <4>2. ran[k] = pending[k - Len(committed)]
        BY <2>1, <2>2, <3>2
      <4> QED BY <2>1, <4>1, <4>2
    <3> QED BY <2>1, <3>1, <3>2
  <2> QED BY <2>1, <2>2, <2>3 DEF TaskOrderIsKept
<1> QED BY <1>1, SpecIInv, PTL

(* What took effect when the task ends: the operations up to a cut.        *)
LEMMA EndsAtACut ==
    ASSUME IInv, Ended
    PROVE  /\ Len(committed) \in Cuts /\ ToSet(committed) = 1 .. Len(committed)
           /\ \A t \in DOMAIN draft.txs : ValidBinding(draft, draft.txs[t])
           /\ RequiredRoles(draft) # {} =>
                \E t \in DOMAIN draft.txs : HasRequiredRoles(draft, draft.txs[t])
<1>1. Len(committed) \in Cuts /\ Len(committed) \in Nat /\ DOMAIN committed = 1 .. Len(committed)
      /\ \A k \in 1 .. Len(committed) : committed[k] = k
  BY DEF IInv, InOrder
<1>2. ToSet(committed) = 1 .. Len(committed)
  BY <1>1 DEF ToSet
<1>3. VerifyStatus(draft) = "passed"
  BY DEF IInv, StaleReportLowersNothing, Ended
<1> QED BY <1>1, <1>2, <1>3, PassedDraftsAreValid

(* A valid transaction that took effect in part has operations on both     *)
(* sides of the cut, next to it.                                           *)
LEMMA PartStraddlesTheCut ==
    ASSUME IInv, Ended, NEW t \in DOMAIN draft.txs,
           NEW x \in ToSet(draft.txs[t].includes), NEW y \in ToSet(draft.txs[t].includes),
           x \in ToSet(committed), y \notin ToSet(committed)
    PROVE  /\ Len(committed) \in Ops(draft) /\ Len(committed) + 1 \in Ops(draft)
           /\ t \in TxsIncluding(Len(committed)) /\ t \in TxsIncluding(Len(committed) + 1)
<1> DEFINE n == Len(committed)
           S == ToSet(draft.txs[t].includes)
<1>1. /\ draft \in Draft /\ ValidBinding(draft, draft.txs[t])
      /\ ToSet(committed) = 1 .. n /\ Ops(draft) = 1 .. Len(draft.roles)
      /\ Len(draft.roles) \in Nat /\ n \in Nat
  BY EndsAtACut, Numbers
<1>2. S \subseteq Ops(draft)
  BY <1>1 DEF ValidBinding
<1>3. x \in Int /\ y \in Int /\ x <= n /\ y >= n + 1 /\ n \in Int /\ n + 1 \in Int
      /\ x <= n + 1 /\ n <= y
  BY <1>1, <1>2
<1>4. n \in S
  BY <1>1, <1>3, ValidTransactionsAreIntervals
<1>5. n + 1 \in S
  BY <1>1, <1>3, ValidTransactionsAreIntervals
<1> QED BY <1>2, <1>4, <1>5 DEF TxsIncluding

(* At a cut the operations on both sides are in different transactions.    *)
LEMMA CutsSeparate ==
    ASSUME NEW n \in Cuts, n \in Ops(draft), n + 1 \in Ops(draft),
           TxsIncluding(n) = TxsIncluding(n + 1)
    PROVE  TxsIncluding(n) = {}
<1> SUFFICES ASSUME TxsIncluding(n) # {} PROVE FALSE
  OBVIOUS
<1>1. InTx(n) /\ InTx(n + 1) /\ TxIdOf(n) = TxIdOf(n + 1)
  BY DEF InTx, TxIdOf
<1> QED BY <1>1 DEF Cuts

(* Transactions that share no operation take effect as a whole or not at   *)
(* all, wherever the task fails.  About the boundaries the lowerer cuts.   *)
THEOREM TransactionsAreAtomic == Spec => []DeclaredTransactionsAreAtomic
<1>1. ASSUME IInv, DisjointTxs, Ended, NEW t \in DOMAIN draft.txs
      PROVE  LET ops == ToSet(draft.txs[t].includes) IN
             ops \subseteq ToSet(committed) \/ ops \cap ToSet(committed) = {}
  <2> DEFINE n == Len(committed)
  <2> SUFFICES ASSUME NEW x \in ToSet(draft.txs[t].includes), x \in ToSet(committed),
                      NEW y \in ToSet(draft.txs[t].includes), y \notin ToSet(committed)
               PROVE  FALSE
    OBVIOUS
  <2>1. /\ n \in Ops(draft) /\ n + 1 \in Ops(draft)
        /\ t \in TxsIncluding(n) /\ t \in TxsIncluding(n + 1)
    BY <1>1, PartStraddlesTheCut
  <2>2. \A op : t \in TxsIncluding(op) => TxsIncluding(op) = {t}
    BY <1>1 DEF DisjointTxs, TxsIncluding
  <2>3. TxsIncluding(n) = {t} /\ TxsIncluding(n + 1) = {t}
    BY <2>1, <2>2
  <2>4. n \in Cuts
    BY <1>1, EndsAtACut
  <2> QED BY <2>1, <2>3, <2>4, CutsSeparate
<1>2. IInv => DeclaredTransactionsAreAtomic
  BY <1>1 DEF DeclaredTransactionsAreAtomic, EachTransactionIsAtomic
<1> QED BY <1>2, SpecIInv, PTL

(* CreateUser: when the user and the outbox event have one operation each, *)
(* neither takes effect without the other, however many transactions the   *)
(* draft declares and however they overlap.                                *)
THEOREM RolesAreAtomic == Spec => []RequiredRolesAreAtomic
<1>1. ASSUME IInv, Ended,
             \A role \in RequiredRoles(draft) : Cardinality(OpsForRole(draft, role)) = 1,
             NEW r \in RequiredRoles(draft), NEW x \in OpsForRole(draft, r),
             NEW s \in RequiredRoles(draft), NEW y \in OpsForRole(draft, s),
             x \in ToSet(committed), y \notin ToSet(committed)
      PROVE  FALSE
  <2> DEFINE n == Len(committed)
  <2>1. ASSUME NEW role \in RequiredRoles(draft), NEW op \in OpsForRole(draft, role),
               NEW t \in DOMAIN draft.txs
        PROVE  op \in ToSet(draft.txs[t].includes)
    <3>1. IsFiniteSet(OpsForRole(draft, role))
      <4>1. OpsForRole(draft, role) \subseteq 1 .. Len(draft.roles) /\ Len(draft.roles) \in Nat
        BY <1>1, Numbers DEF OpsForRole
      <4>2. IsFiniteSet(1 .. Len(draft.roles))
        BY <4>1, FS_Interval
      <4> QED BY <4>1, <4>2, FS_Subset
    <3>2. PICK z : OpsForRole(draft, role) = {z}
      BY <1>1, <3>1, FS_Singleton
    <3>3. HasRequiredRoles(draft, draft.txs[t])
      BY <1>1, EndsAtACut DEF ValidBinding
    <3>4. op \in Included(draft, draft.txs[t])
      BY <3>2, <3>3 DEF HasRequiredRoles
    <3> QED BY <3>4 DEF Included
  <2>2. DOMAIN draft.txs # {}
    BY <1>1, EndsAtACut
  <2>3. \A t \in DOMAIN draft.txs :
          /\ n \in Ops(draft) /\ n + 1 \in Ops(draft)
          /\ t \in TxsIncluding(n) /\ t \in TxsIncluding(n + 1)
    BY <1>1, <2>1, PartStraddlesTheCut
  <2>4. TxsIncluding(n) = DOMAIN draft.txs /\ TxsIncluding(n + 1) = DOMAIN draft.txs
    BY <2>3 DEF TxsIncluding
  <2>5. n \in Cuts
    BY <1>1, EndsAtACut
  <2> QED BY <2>2, <2>3, <2>4, <2>5, CutsSeparate
<1>2. IInv => RequiredRolesAreAtomic
  BY <1>1 DEF RequiredRolesAreAtomic
<1> QED BY <1>2, SpecIInv, PTL

=============================================================================
