--------------------------- MODULE MCReceiptStore ---------------------------
(* ReceiptStore on small directories.  Issuers are interchangeable, and so *)
(* are replayers and draft contents: no action tells one from another.     *)
EXTENDS ReceiptStore, TLC

Symmetry == Permutations(Issuers) \cup Permutations(Replayers)
                \cup Permutations(Contents) \cup Permutations(Drafts)

=============================================================================
