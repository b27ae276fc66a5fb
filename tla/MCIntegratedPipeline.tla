------------------------ MODULE MCIntegratedPipeline -------------------------
(* Instances of IntegratedPipeline for TLC.                                *)
EXTENDS IntegratedPipeline, TLC

(* All files are copies of one envelope.                                   *)
Copies == [f \in Files |-> CHOOSE c \in Challenges : TRUE]

Symmetry == Permutations(Procs) \cup Permutations(Files)
=============================================================================
