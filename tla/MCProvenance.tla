---------------------------- MODULE MCProvenance -----------------------------
(* Instances of Provenance for TLC.                                        *)
EXTENDS Provenance, TLC

Symmetry == Permutations(Procs) \cup Permutations(Scans)
=============================================================================
