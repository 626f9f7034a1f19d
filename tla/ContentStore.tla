---------------------------- MODULE ContentStore ----------------------------
(***************************************************************************)
(* What the registry promises to whoever pulls blobs from it: a content    *)
(* addressed store.  Every name is the SHA-256 of what is stored under it, *)
(* and what has been published is neither removed nor altered.             *)
(*                                                                         *)
(* This is the abstract specification that BlobUploads implements for      *)
(* clients that wait for each answer before they send the next request.    *)
(***************************************************************************)

CONSTANTS Digests,     \* the names
          Contents,    \* what a file can hold
          Sha256(_),   \* the hash of a content
          Absent       \* nothing is stored under this name

VARIABLE store         \* store[d] is what a pull of d receives

Init == store = [d \in Digests |-> Absent]

(* The only operation: a content appears under its own hash.               *)
Publish(d, c) ==
    /\ store[d] = Absent
    /\ Sha256(c) = d
    /\ store' = [store EXCEPT ![d] = c]

Next == \E d \in Digests, c \in Contents : Publish(d, c)

Spec == Init /\ [][Next]_store

=============================================================================
