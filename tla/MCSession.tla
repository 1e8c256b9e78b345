------------------------------ MODULE MCSession ------------------------------
(* Instance of Session for TLC: Alice's signed prekey is key pair 1, Bob's 2. *)
EXTENDS Session, TLC

MCParties == {"alice", "bob"}
MCSignedPreKey == [alice |-> 1, bob |-> 2]

Symmetry == Permutations(OneTimePreKeys)
=============================================================================
