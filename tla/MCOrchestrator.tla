--------------------------- MODULE MCOrchestrator ---------------------------
(***************************************************************************)
(* Instances of Orchestrator for TLC.                                      *)
(***************************************************************************)
EXTENDS Orchestrator, TLC

(* The production tag and another one.                                     *)
MCTags == {Prod, <<"latest">>}

Symmetry == Permutations(Images) \cup Permutations(Ports)
              \cup Permutations(Tasks) \cup Permutations(Locations)

=============================================================================
