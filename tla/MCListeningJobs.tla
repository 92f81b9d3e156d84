-------------------------- MODULE MCListeningJobs --------------------------
(* Instances of ListeningJobs for TLC. *)
EXTENDS ListeningJobs, TLC

CONSTANTS w1, w2, s1, s2, p1, p2

MCSymmetry == Permutations(Worker) \cup Permutations(TxProducer) \cup Permutations(PlainProducer)
=============================================================================
