------------------------- MODULE MCConcurrentSession -------------------------
(* Instance of ConcurrentSession for TLC.                                  *)
EXTENDS ConcurrentSession, TLC

MCParties == {"alice", "bob"}
MCSignedPreKey == [alice |-> 1, bob |-> 2]
MCSymmetry == Permutations(Threads)
=============================================================================
