------------------------------- MODULE MCInbox -------------------------------
(* Instance of Inbox for TLC: one contact writes m1, m2 and the receipt r1, *)
(* the user answers with t1.                                                *)
EXTENDS Inbox, TLC

CONSTANTS m1, m2, r1, t1, ann

MCWith == [x \in Messages \cup Outgoing |-> ann]

Symmetry == Permutations(Coroutines) \cup Permutations(Messages \ Receipts)
=============================================================================
