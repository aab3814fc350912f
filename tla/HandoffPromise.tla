---------------------------- MODULE HandoffPromise ----------------------------
(***************************************************************************)
(* What docs/verified_intent_packet.md and                                 *)
(* verify_verified_intent_packet_handoff_from_files promise a consumer, as *)
(* if exports and handoff checks were single steps: an accepted handoff is *)
(* of one export that has finished by then.                                *)
(* VerifiedIntent, with its files, crashes and edits, implements this.     *)
(***************************************************************************)
CONSTANTS
    Handoffs,       \* what an export hands over: a draft and its packet
    Pending,        \* a check that has not answered
    Refused         \* the answer that hands over nothing

VARIABLES
    exported,       \* the handoffs of the finished exports
    answer          \* the check in progress, or the answer last given

vars == <<exported, answer>>

Init == exported = {} /\ answer = Refused

Export ==
    /\ \E h \in Handoffs : exported' = exported \cup {h}
    /\ UNCHANGED answer

Ask ==
    /\ answer # Pending
    /\ answer' = Pending
    /\ UNCHANGED exported

Answer ==
    /\ answer = Pending
    /\ answer' \in exported \cup {Refused}
    /\ UNCHANGED exported

Next == Export \/ Ask \/ Answer

Spec == Init /\ [][Next]_vars

=============================================================================
