------------------------------ MODULE AtMostOnce ------------------------------
(***************************************************************************)
(* What a Signal session promises its user: only what was sent is opened,  *)
(* and each message once at most, whatever the network repeats, reorders   *)
(* or loses.                                                               *)
(***************************************************************************)
EXTENDS Naturals

CONSTANT InitiallySent  \* the messages under way from the start
VARIABLE opens          \* how often each message sent so far was opened

Init == opens = [m \in InitiallySent |-> 0]

\* A message unlike any other is sent.
Send == \E m \in DOMAIN opens' \ DOMAIN opens :
          opens' = [x \in DOMAIN opens \cup {m} |-> IF x = m THEN 0 ELSE opens[x]]

Open == \E m \in DOMAIN opens : /\ opens[m] = 0
                                /\ opens' = [opens EXCEPT ![m] = 1]

Next == Send \/ Open

Spec == Init /\ [][Next]_opens
=============================================================================
