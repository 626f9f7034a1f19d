--------------------------- MODULE MCBlobUploads ----------------------------
(***************************************************************************)
(* Instances of BlobUploads for TLC.                                       *)
(***************************************************************************)
EXTENDS BlobUploads, TLC

(* A digest is the content it belongs to, tagged: an injective hash.       *)
MCSha256(c) == <<"sha256", c>>

CONSTANTS a, b

(* Digests that clients ask for: of a one-frame layer, of a two-frame      *)
(* layer, and of one that never arrives.                                   *)
MCDigests == {MCSha256(<<a>>), MCSha256(<<a, b>>), MCSha256(<<b, b, b>>)}

Symmetry == Permutations(Uploads) \cup Permutations(Requests)

=============================================================================
