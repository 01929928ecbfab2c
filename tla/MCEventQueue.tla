---------------------------- MODULE MCEventQueue ----------------------------
(* TLC instances of EventQueue. *)
EXTENDS EventQueue, TLC

ProducerSymmetry == Permutations(Producers)
=============================================================================
