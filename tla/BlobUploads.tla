---------------------------- MODULE BlobUploads -----------------------------
(***************************************************************************)
(* The blob half of the container registry: the handlers upload_new,       *)
(* upload_add_chunk (PATCH) and upload_finalize (PUT) of registry.rs on    *)
(* top of the uploads/ and blobs/ directories of registry/storage.rs.      *)
(*                                                                         *)
(* A handler is an async function; every await is a point where the other  *)
(* handlers run.  Each action below is the code between two awaits.  A     *)
(* file is identified with the UUID of the upload that created it, so      *)
(* `content` is indexed by inode while `partial` and `blobs` are the       *)
(* directory entries; a writer keeps its inode when the entry is renamed.  *)
(***************************************************************************)
EXTENDS Naturals, Sequences

CONSTANTS
    Uploads,      \* UUIDs that Uuid::new_v4 can return
    Frames,       \* data frames of request bodies
    Digests,      \* digests that clients ask for
    Sha256(_),    \* the hash of a content (a sequence of frames)
    Requests,     \* slots for requests that are served concurrently
    NoFile,       \* no such directory entry
    NoDigest,     \* a request that carries no digest
    NoFrame,      \* nothing handed to the thread that writes
    MaxFrames,    \* bound: frames a file may hold
    Overlap,      \* may a client send a request for an upload before the
                  \* previous one for that upload is answered
    Disconnects   \* may a connection break while a request is served

ASSUME BlobAssumption ==
    /\ NoFile \notin Uploads
    /\ NoFrame \notin Frames
    /\ NoDigest \notin Digests
    /\ MaxFrames \in Nat
    /\ Overlap \in BOOLEAN
    /\ Disconnects \in BOOLEAN

Contents == UNION {[1..n -> Frames] : n \in 0..MaxFrames}

(* SHA-256 is collision free: no two contents share a digest.              *)
ASSUME Sha256Injective ==
    \A c, e \in Contents : Sha256(c) = Sha256(e) => c = e

VARIABLES
    issued,    \* uploads that upload_new has answered
    partial,   \* entries <uuid>.partial of uploads/
    blobs,     \* entries of blobs/: blobs[d] is the inode named d
    content,   \* content[u] is what the inode of upload u holds
    req        \* req[r] is the request served in slot r

vars == <<issued, partial, blobs, content, req>>

-----------------------------------------------------------------------------

(* Where a handler is: suspended at an await; dropped, while a blocking    *)
(* thread still works for it; or not running.                              *)
Serving  == {"patch_open", "patch_write", "put_hash", "put_rename"}
Detached == {"late_write", "late_rename"}
Idle     == {"ready", "accepted", "created", "failed", "dropped"}

Request == [pc     : Serving \cup Detached \cup Idle,
            upload : Uploads \cup {NoFile},
            digest : Digests \cup {NoDigest},
            buf    : Frames \cup {NoFrame}]

NoRequest == [pc     |-> "ready",
              upload |-> NoFile,
              digest |-> NoDigest,
              buf    |-> NoFrame]

Init ==
    /\ issued  = {}
    /\ partial = {}
    /\ blobs   = [d \in Digests |-> NoFile]
    /\ content = [u \in Uploads |-> <<>>]
    /\ req     = [r \in Requests |-> NoRequest]

(* A client that does not overlap its requests waits for the answer to the *)
(* previous request on this upload, or for its connection to break.        *)
MayStart(r, u) ==
    /\ req[r].pc \in Idle
    /\ Overlap \/ \A q \in Requests :
                     req[q].pc \in Serving => req[q].upload # u

Start(r, u, d, pc) ==
    req' = [req EXCEPT ![r] = [pc     |-> pc,
                               upload |-> u,
                               digest |-> d,
                               buf    |-> NoFrame]]

(* Whether slot r holds an open writer on the inode of upload u.           *)
Writing(r, u) ==
    req[r].pc \in {"patch_write", "late_write"} /\ req[r].upload = u

-----------------------------------------------------------------------------

(* Mutant of UploadNew: a UUID may be drawn again.                         *)
UploadNewReused(u) ==
    /\ partial' = partial \cup {u}
    /\ content' = [content EXCEPT ![u] = <<>>]
    /\ UNCHANGED <<issued, blobs, req>>

(* POST: an empty file under a UUID that was never used before.            *)
UploadNew(u) ==
    /\ u \notin issued
    /\ issued'  = issued \cup {u}
    /\ partial' = partial \cup {u}
    /\ content' = [content EXCEPT ![u] = <<>>]
    /\ UNCHANGED <<blobs, req>>

(* PATCH up to the first await: a Range header or a missing upload ends    *)
(* the request, otherwise the upload exists and is about to be opened.     *)
PatchStart(r, u) ==
    /\ MayStart(r, u)
    /\ \/ Start(r, u, NoDigest, "failed")
       \/ u \in partial /\ Start(r, u, NoDigest, "patch_open")
    /\ UNCHANGED <<issued, partial, blobs, content>>

(* Mutant of PatchOpen: the file is reached after it left uploads/.        *)
PatchOpenByInode(r) ==
    /\ req[r].pc = "patch_open"
    /\ req' = [req EXCEPT ![r].pc = "patch_write"]
    /\ UNCHANGED <<issued, partial, blobs, content>>

(* The file is opened for appending, which is an error when a PUT has      *)
(* renamed it since the check, and may be one anyway.                      *)
PatchOpen(r) ==
    /\ req[r].pc = "patch_open"
    /\ \/ /\ req[r].upload \in partial
          /\ req' = [req EXCEPT ![r].pc = "patch_write"]
       \/ req' = [req EXCEPT ![r].pc = "failed"]
    /\ UNCHANGED <<issued, partial, blobs, content>>

(* A body frame arrives and write_all hands it to a blocking thread.       *)
PatchFrame(r, f) ==
    /\ req[r].pc = "patch_write"
    /\ req[r].buf = NoFrame
    /\ Len(content[req[r].upload]) < MaxFrames
    /\ req' = [req EXCEPT ![r].buf = f]
    /\ UNCHANGED <<issued, partial, blobs, content>>

(* Slot r after its pending write; a dropped handler has nothing left.     *)
WriteDone(r, pc) ==
    /\ req[r].pc \in {"patch_write", "late_write"}
    /\ req[r].buf # NoFrame
    /\ req' = [req EXCEPT ![r].buf = NoFrame,
                          ![r].pc  = IF req[r].pc = "late_write"
                                     THEN "dropped" ELSE pc]

(* The blocking thread appends the frame to the inode that was opened.     *)
PatchWrite(r) ==
    /\ WriteDone(r, "patch_write")
    /\ content' = [content EXCEPT
                     ![req[r].upload] = Append(content[req[r].upload],
                                               req[r].buf)]
    /\ UNCHANGED <<issued, partial, blobs>>

(* The write fails and the handler returns the error.                      *)
PatchWriteError(r) ==
    /\ WriteDone(r, "failed")
    /\ UNCHANGED <<issued, partial, blobs, content>>

(* End of the body: flush has waited for the pending write.                *)
PatchFinish(r) ==
    /\ req[r].pc = "patch_write"
    /\ req[r].buf = NoFrame
    /\ req' = [req EXCEPT ![r].pc = "accepted"]
    /\ UNCHANGED <<issued, partial, blobs, content>>

(* PUT up to the first await: a non-empty body or a missing upload ends    *)
(* the request, otherwise the file is handed to a thread that hashes it.   *)
PutStart(r, u, d) ==
    /\ MayStart(r, u)
    /\ \/ Start(r, u, d, "failed")
       \/ u \in partial /\ Start(r, u, d, "put_hash")
    /\ UNCHANGED <<issued, partial, blobs, content>>

(* Mutant of PutHash: the digests are not compared.                        *)
PutHashUnchecked(r) ==
    /\ req[r].pc = "put_hash"
    /\ \/ /\ req[r].upload \in partial
          /\ req' = [req EXCEPT ![r].pc = "put_rename"]
       \/ req' = [req EXCEPT ![r].pc = "failed"]
    /\ UNCHANGED <<issued, partial, blobs, content>>

(* The thread has opened the file, read it to its end and hashed it.  The  *)
(* file only grows, so what was read is its content at the moment the read *)
(* that reports the end of the file takes place.  A digest that differs, a *)
(* file that another PUT has renamed or a failing read is an error.        *)
PutHash(r) ==
    /\ req[r].pc = "put_hash"
    /\ \/ /\ req[r].upload \in partial
          /\ Sha256(content[req[r].upload]) = req[r].digest
          /\ req' = [req EXCEPT ![r].pc = "put_rename"]
       \/ req' = [req EXCEPT ![r].pc = "failed"]
    /\ UNCHANGED <<issued, partial, blobs, content>>

(* Mutant of PutRename: a hard link, so the upload stays where it was.     *)
PutRenameLinked(r) ==
    /\ req[r].pc \in {"put_rename", "late_rename"}
    /\ req[r].upload \in partial
    /\ blobs' = [blobs EXCEPT ![req[r].digest] = req[r].upload]
    /\ req'   = [req EXCEPT ![r].pc = IF req[r].pc = "late_rename"
                                      THEN "dropped" ELSE "created"]
    /\ UNCHANGED <<issued, partial, content>>

(* The rename into blobs/ replaces an entry of that name.                  *)
PutRename(r) ==
    /\ req[r].pc \in {"put_rename", "late_rename"}
    /\ req[r].upload \in partial
    /\ partial' = partial \ {req[r].upload}
    /\ blobs'   = [blobs EXCEPT ![req[r].digest] = req[r].upload]
    /\ req'     = [req EXCEPT ![r].pc = IF req[r].pc = "late_rename"
                                        THEN "dropped" ELSE "created"]
    /\ UNCHANGED <<issued, content>>

(* Mutant of PutRenameError: the error is dropped.                         *)
PutRenameIgnored(r) ==
    /\ req[r].pc \in {"put_rename", "late_rename"}
    /\ req' = [req EXCEPT ![r].pc = "created"]
    /\ UNCHANGED <<issued, partial, blobs, content>>

(* The rename fails: always once another PUT has renamed the file.         *)
PutRenameError(r) ==
    /\ req[r].pc \in {"put_rename", "late_rename"}
    /\ req' = [req EXCEPT ![r].pc = "failed"]
    /\ UNCHANGED <<issued, partial, blobs, content>>

-----------------------------------------------------------------------------

(* The connection breaks and the handler's future is dropped.  What it has *)
(* handed to a blocking thread, a pending write or the rename, still       *)
(* happens.                                                                *)
Disconnect(r) ==
    /\ Disconnects
    /\ req[r].pc \in Serving
    /\ \/ /\ req[r].buf = NoFrame
          /\ req' = [req EXCEPT ![r].pc = "dropped"]
       \/ /\ req[r].pc = "patch_write"
          /\ req[r].buf # NoFrame
          /\ req' = [req EXCEPT ![r].pc = "late_write"]
       \/ /\ req[r].pc = "put_rename"
          /\ req' = [req EXCEPT ![r].pc = "late_rename"]
    /\ UNCHANGED <<issued, partial, blobs, content>>

(* Mutant of Restart: the directories are created anew.                    *)
RestartWiped ==
    /\ req'     = [r \in Requests |-> NoRequest]
    /\ partial' = {}
    /\ blobs'   = [d \in Digests |-> NoFile]
    /\ UNCHANGED <<issued, content>>

(* The process dies and is started again: FilesystemStorage::new keeps the *)
(* directories as they are and no request survives.                        *)
Restart ==
    /\ req' = [r \in Requests |-> NoRequest]
    /\ UNCHANGED <<issued, partial, blobs, content>>

Next ==
    \/ \E u \in Uploads : UploadNew(u)
    \/ \E r \in Requests, u \in Uploads : PatchStart(r, u)
    \/ \E r \in Requests, f \in Frames : PatchFrame(r, f)
    \/ \E r \in Requests, u \in Uploads, d \in Digests : PutStart(r, u, d)
    \/ \E r \in Requests :
          \/ PatchOpen(r)
          \/ PatchWrite(r)
          \/ PatchWriteError(r)
          \/ PatchFinish(r)
          \/ PutHash(r)
          \/ PutRename(r)
          \/ PutRenameError(r)
          \/ Disconnect(r)
    \/ Restart

Spec == Init /\ [][Next]_vars

-----------------------------------------------------------------------------

(* Every variable stays in its type: the directory entries name uploads    *)
(* that were issued, and a handler is always at one of its awaits.         *)
TypeOK ==
    /\ issued \subseteq Uploads
    /\ partial \subseteq issued
    /\ blobs \in [Digests -> issued \cup {NoFile}]
    /\ content \in [Uploads -> Seq(Frames)]
    /\ req \in [Requests -> Request]

(* What blob_get streams and blob_check describes: the content of the file *)
(* in blobs/ that is named d.                                              *)
BlobGet(d) == content[blobs[d]]

(* finalize_upload (storage.rs:452) renames the upload because "the        *)
(* uploaded file matches": the file still has the requested digest when    *)
(* the rename is about to run.                                             *)
FinalizedFileMatches ==
    \A r \in Requests :
        req[r].pc \in {"put_rename", "late_rename"}
        /\ req[r].upload \in partial
          => Sha256(content[req[r].upload]) = req[r].digest

(* Whoever pulls a blob (blob_get) receives bytes that hash to the digest  *)
(* in the URL, whatever PATCH and PUT requests have been served before.    *)
BlobIntegrity ==
    \A d \in Digests : blobs[d] # NoFile => Sha256(BlobGet(d)) = d

(* An upload becomes at most one blob, and is no upload any more then, even *)
(* when several PUTs with different digests race for the rename of         *)
(* finalize_upload while a PATCH grows the file.                           *)
PublishedOnce ==
    \A d \in Digests : blobs[d] # NoFile =>
        /\ blobs[d] \notin partial
        /\ \A e \in Digests : blobs[e] = blobs[d] => e = d

(* A PUT that answered 201 Created has stored its blob: blob_check and     *)
(* blob_get find it, whatever happened since.                              *)
CreatedIsStored ==
    \A r \in Requests : req[r].pc = "created" => blobs[req[r].digest] # NoFile

(* A file that has left uploads/ and has no writer is sealed for ever:     *)
(* get_upload_writer opens uploads by their path only, so no PATCH that is *)
(* still between its check and its open, and no later one, reaches a blob. *)
SealedBlobs ==
    [][\A u \in issued \ partial :
          (\A r \in Requests : ~Writing(r, u))
          => /\ content'[u] = content[u]
             /\ \A r \in Requests : ~Writing(r, u)']_vars

(* The store that a puller of blobs sees.                                  *)
Pulled == [d \in Digests |-> IF blobs[d] = NoFile THEN NoFile ELSE BlobGet(d)]

Store == INSTANCE ContentStore WITH store <- Pulled, Absent <- NoFile

(* The upload protocol implements the content addressed store: a blob      *)
(* appears in one step, under its own hash, and is never removed, replaced *)
(* by another content or altered.                                          *)
ImplementsContentStore == Store!Spec

=============================================================================
