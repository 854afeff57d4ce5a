---------------------------- MODULE MCSequencer -----------------------------
(* Small instances of the sequencer for TLC. *)
EXTENDS Sequencer, TLC

(* Callers only differ in name. *)
Symmetry == Permutations(Callers)

=============================================================================
