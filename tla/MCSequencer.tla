---------------------------- MODULE MCSequencer ----------------------------
(* TLC instances of Sequencer: the weights are those of a file that is to  *)
(* run alone, of an empty one, of one of half the capacity and of one that *)
(* is over it.                                                             *)
EXTENDS Sequencer

MCWeights == {-1, 0, 1, 3}

=============================================================================
