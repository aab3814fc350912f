------------------------ MODULE MCTransactionBinding ------------------------
(* Small drafts: tasks of three or four operations, each with at most one  *)
(* of the two transactional roles, and every contiguous segment of them as *)
(* a transaction, among some the verifier refuses.                         *)
EXTENDS TransactionBinding

AtomicTx(id, s) == [id |-> id, mode |-> "atomic", includes |-> s, wellFormed |-> TRUE]

Segments(n) == {[k \in 1..to - from + 1 |-> from + k - 1] : <<from, to>> \in
                  {p \in (1..n) \X (1..n) : p[1] <= p[2]}}

GoodTxs(n, ids) == {AtomicTx(id, s) : id \in ids, s \in Segments(n)}

BadTxs ==
    {AtomicTx("tx1", s) : s \in {<<>>, <<2, 1>>, <<1, 3>>, <<1, 2, 2>>, <<1, 2, 0>>}}
    \cup {[AtomicTx("tx1", <<1, 2>>) EXCEPT !.mode = m] : m \in {"unlisted", "absent"}}
    \cup {[AtomicTx("tx1", <<1, 2>>) EXCEPT !.wellFormed = FALSE]}

Tasks(n) == [1..n -> {{}, {"create_user"}, {"outbox_event"}}]

DraftOf(w, roles, txs) ==
    [workflow |-> w, roles |-> roles, txs |-> txs, policy |-> TRUE,
     otherFindings |-> FALSE, unsettled |-> FALSE]

OneTransaction ==
    {DraftOf(w, roles, txs) : w \in Workflows, roles \in Tasks(4),
       txs \in {<<>>} \cup {<<t>> : t \in GoodTxs(4, {"tx1"}) \cup BadTxs}}

TwoTransactions ==
    {DraftOf("CreateUser", roles, txs) : roles \in Tasks(4),
       txs \in {<<s, t>> : s \in GoodTxs(4, {"tx1"}), t \in GoodTxs(4, {"tx1", "tx2"})}}
    \cup {DraftOf("other", <<{}, {}, {}>>, <<s, t>>) :
            s \in GoodTxs(3, {"tx1"}), t \in GoodTxs(3, {"tx1", "tx2"})}

(* Drafts that differ in what the gate looks at. *)
GateDrafts ==
    {[DraftOf(w, <<{}, {"create_user"}, {"outbox_event"}>>, <<AtomicTx("tx1", s)>>)
        EXCEPT !.policy = p, !.otherFindings = f, !.unsettled = u] :
      w \in Workflows, s \in {<<1, 2>>, <<2, 3>>}, p \in BOOLEAN, f \in BOOLEAN, u \in BOOLEAN}

(* Adjacent and separate transactions come with TwoTransactions. *)
LoweredDrafts == UNION {OneTransaction, TwoTransactions, GateDrafts}

=============================================================================
