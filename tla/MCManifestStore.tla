-------------------------- MODULE MCManifestStore ---------------------------
(***************************************************************************)
(* Instances of ManifestStore for TLC.                                     *)
(***************************************************************************)
EXTENDS ManifestStore, TLC

Symmetry == Permutations(Manifests) \cup Permutations(Tags)
              \cup Permutations(Requests) \cup Permutations(Uuids)

=============================================================================
