------------------------- MODULE BlobUploadsProofs --------------------------
(***************************************************************************)
(* Proofs about BlobUploads, for every number of uploads, requests, frames *)
(* and digests, and for every client: one that overlaps its requests and   *)
(* loses its connections too.                                              *)
(***************************************************************************)
EXTENDS BlobUploads, TLAPS

(* A handler at an await works on an upload that was issued, and a PUT     *)
(* knows its digest.                                                       *)
RequestsOK ==
    \A r \in Requests :
        /\ req[r].pc \in Serving \cup Detached => req[r].upload \in issued
        /\ req[r].pc \in {"put_hash", "put_rename", "late_rename", "created"}
             => req[r].digest \in Digests

TypeInv == TypeOK /\ RequestsOK

LEMMA InitTypeInv == Init => TypeInv
<1> USE BlobAssumption
<1> SUFFICES ASSUME Init PROVE TypeInv
    OBVIOUS
<1>1. NoRequest \in Request
    BY DEF NoRequest, Request, Idle
<1>2. TypeOK
    BY <1>1 DEF Init, TypeOK
<1>3. RequestsOK
    BY DEF Init, RequestsOK, NoRequest, Serving, Detached
<1> QED
    BY <1>2, <1>3 DEF TypeInv

(* The record that Start stores is a request.                              *)
LEMMA StartRequest ==
    ASSUME NEW r \in Requests, NEW u \in Uploads,
           NEW d \in Digests \cup {NoDigest},
           NEW pc \in Serving \cup Idle, Start(r, u, d, pc),
           req \in [Requests -> Request]
    PROVE  /\ req' \in [Requests -> Request]
           /\ req'[r].pc = pc
           /\ req'[r].upload = u
           /\ req'[r].digest = d
           /\ \A q \in Requests \ {r} : req'[q] = req[q]
<1> DEFINE R == [pc     |-> pc,
                 upload |-> u,
                 digest |-> d,
                 buf    |-> NoFrame]
<1>1. R \in Request
    BY DEF Request
<1>2. req' = [req EXCEPT ![r] = R]
    BY DEF Start
<1>3. R.pc = pc /\ R.upload = u /\ R.digest = d
    OBVIOUS
<1> HIDE DEF R
<1> QED
    BY <1>1, <1>2, <1>3

(* A request that is started on an upload that exists is well formed.      *)
LEMMA StartTypeInv ==
    ASSUME TypeInv, NEW r \in Requests, NEW u \in Uploads,
           NEW d \in Digests \cup {NoDigest}, NEW pc \in Serving \cup Idle,
           Start(r, u, d, pc), UNCHANGED <<issued, partial, blobs, content>>,
           pc \in Serving => u \in issued,
           pc \in {"put_hash", "put_rename", "created"} => d \in Digests
    PROVE  TypeInv'
<1>1. /\ req' \in [Requests -> Request]
      /\ req'[r].pc = pc
      /\ req'[r].upload = u
      /\ req'[r].digest = d
      /\ \A q \in Requests \ {r} : req'[q] = req[q]
    BY StartRequest DEF TypeInv, TypeOK
<1>2. TypeOK'
    BY <1>1 DEF TypeInv, TypeOK
<1>3. pc \notin Detached
    BY DEF Serving, Idle, Detached
<1>4. RequestsOK'
    <2> SUFFICES ASSUME NEW q \in Requests
                 PROVE  /\ req'[q].pc \in Serving \cup Detached
                             => req'[q].upload \in issued
                        /\ req'[q].pc \in {"put_hash", "put_rename",
                                            "late_rename", "created"}
                             => req'[q].digest \in Digests
        BY DEF RequestsOK
    <2>1. CASE q = r
        BY <1>1, <1>3, <2>1 DEF Detached
    <2>2. CASE q # r
        BY <1>1, <2>2 DEF TypeInv, RequestsOK
    <2> QED
        BY <2>1, <2>2
<1> QED
    BY <1>2, <1>4 DEF TypeInv

(* A handler that only moves to another await stays well formed.           *)
LEMMA MoveTypeInv ==
    ASSUME TypeInv, NEW r \in Requests,
           NEW pc \in Serving \cup Detached \cup Idle,
           req' = [req EXCEPT ![r].pc = pc],
           UNCHANGED <<issued, partial, blobs, content>>,
           pc \in Serving \cup Detached => req[r].upload \in issued,
           pc \in {"put_hash", "put_rename", "late_rename", "created"}
             => req[r].digest \in Digests
    PROVE  TypeInv'
<1>1. req' \in [Requests -> Request]
    <2>1. req \in [Requests -> Request]
        BY DEF TypeInv, TypeOK
    <2>2. [req[r] EXCEPT !.pc = pc] \in Request
        BY <2>1 DEF Request
    <2> QED
        BY <2>1, <2>2
<1>2. TypeOK'
    BY <1>1 DEF TypeInv, TypeOK
<1>3. RequestsOK'
    BY DEF TypeInv, TypeOK, RequestsOK, Request
<1> QED
    BY <1>2, <1>3 DEF TypeInv

(* The slot of a write that has ended keeps its upload.                    *)
LEMMA WriteDoneRequest ==
    ASSUME NEW r \in Requests, NEW pc \in Serving \cup Idle, WriteDone(r, pc),
           req \in [Requests -> Request]
    PROVE  /\ req' \in [Requests -> Request]
           /\ req'[r].upload = req[r].upload
           /\ req'[r].pc \in {"dropped", pc}
           /\ \A q \in Requests \ {r} : req'[q] = req[q]
<1> DEFINE next == IF req[r].pc = "late_write" THEN "dropped" ELSE pc
<1>1. req' = [req EXCEPT ![r].buf = NoFrame, ![r].pc = next]
    BY DEF WriteDone
<1>2. next \in Serving \cup Idle /\ next \in {"dropped", pc}
    BY DEF Idle
<1> HIDE DEF next
<1> QED
    BY <1>1, <1>2 DEF Request

LEMMA NextTypeInv == TypeInv /\ [Next]_vars => TypeInv'
<1> SUFFICES ASSUME TypeInv, [Next]_vars PROVE TypeInv'
    OBVIOUS
<1>1. ASSUME NEW u \in Uploads, UploadNew(u) PROVE TypeInv'
    BY <1>1 DEF UploadNew, TypeInv, TypeOK, RequestsOK
<1>2. ASSUME NEW r \in Requests, NEW u \in Uploads, PatchStart(r, u)
      PROVE  TypeInv'
    <2>1. CASE Start(r, u, NoDigest, "failed")
        BY <1>2, <2>1, StartTypeInv DEF PatchStart, Serving, Idle
    <2>2. CASE u \in partial /\ Start(r, u, NoDigest, "patch_open")
        BY <1>2, <2>2, StartTypeInv
           DEF PatchStart, Serving, TypeInv, TypeOK
    <2> QED
        BY <1>2, <2>1, <2>2 DEF PatchStart
<1>3. ASSUME NEW r \in Requests, NEW u \in Uploads, NEW d \in Digests,
             PutStart(r, u, d)
      PROVE  TypeInv'
    <2>1. CASE Start(r, u, d, "failed")
        BY <1>3, <2>1, StartTypeInv DEF PutStart, Serving, Idle
    <2>2. CASE u \in partial /\ Start(r, u, d, "put_hash")
        BY <1>3, <2>2, StartTypeInv DEF PutStart, Serving, TypeInv, TypeOK
    <2> QED
        BY <1>3, <2>1, <2>2 DEF PutStart
<1>4. ASSUME NEW r \in Requests, NEW f \in Frames, PatchFrame(r, f)
      PROVE  TypeInv'
    <2>1. /\ req' \in [Requests -> Request]
          /\ \A q \in Requests : /\ req'[q].pc = req[q].pc
                                /\ req'[q].upload = req[q].upload
                                /\ req'[q].digest = req[q].digest
        BY <1>4 DEF PatchFrame, TypeInv, TypeOK, Request
    <2>2. UNCHANGED <<issued, partial, blobs, content>>
        BY <1>4 DEF PatchFrame
    <2>3. TypeOK'
        BY <2>1, <2>2 DEF TypeInv, TypeOK
    <2>4. RequestsOK'
        BY <2>1, <2>2 DEF TypeInv, RequestsOK
    <2> QED
        BY <2>3, <2>4 DEF TypeInv
<1>5. ASSUME NEW r \in Requests, PatchOpen(r) PROVE TypeInv'
    <2>1. req[r].upload \in issued
        BY <1>5 DEF PatchOpen, TypeInv, RequestsOK, Serving
    <2>2. CASE req' = [req EXCEPT ![r].pc = "patch_write"]
        BY <1>5, <2>1, <2>2, MoveTypeInv DEF PatchOpen, Serving
    <2>3. CASE req' = [req EXCEPT ![r].pc = "failed"]
        BY <1>5, <2>1, <2>3, MoveTypeInv DEF PatchOpen, Idle
    <2> QED
        BY <1>5, <2>2, <2>3 DEF PatchOpen
<1>6. ASSUME NEW r \in Requests, PatchWrite(r) PROVE TypeInv'
    <2>1. req[r] \in Request /\ req[r].upload \in issued
        BY <1>6 DEF PatchWrite, WriteDone, TypeInv, TypeOK, RequestsOK,
                    Serving, Detached
    <2>2. content' \in [Uploads -> Seq(Frames)]
        <3>1. req[r].buf \in Frames
            BY <1>6, <2>1 DEF PatchWrite, WriteDone, Request
        <3>2. content[req[r].upload] \in Seq(Frames)
            BY <2>1 DEF TypeInv, TypeOK
        <3>3. Append(content[req[r].upload], req[r].buf) \in Seq(Frames)
            BY <3>1, <3>2
        <3> QED
            BY <1>6, <2>1, <3>3 DEF PatchWrite, TypeInv, TypeOK
    <2>3. /\ req' \in [Requests -> Request]
          /\ req'[r].upload = req[r].upload
          /\ req'[r].pc \in {"dropped", "patch_write"}
          /\ \A q \in Requests \ {r} : req'[q] = req[q]
        BY <1>6, <2>1, WriteDoneRequest DEF PatchWrite, Serving, TypeInv, TypeOK
    <2>4. TypeOK'
        BY <1>6, <2>2, <2>3 DEF PatchWrite, TypeInv, TypeOK
    <2>5. RequestsOK'
        BY <1>6, <2>1, <2>3 DEF PatchWrite, TypeInv, RequestsOK
    <2> QED
        BY <2>4, <2>5 DEF TypeInv
<1>7. ASSUME NEW r \in Requests, PatchWriteError(r) PROVE TypeInv'
    <2>1. /\ req' \in [Requests -> Request]
          /\ req'[r].pc \in {"dropped", "failed"}
          /\ \A q \in Requests \ {r} : req'[q] = req[q]
        BY <1>7, WriteDoneRequest DEF PatchWriteError, Idle, TypeInv, TypeOK
    <2>2. TypeOK'
        BY <1>7, <2>1 DEF PatchWriteError, TypeInv, TypeOK
    <2>3. RequestsOK'
        BY <1>7, <2>1
           DEF PatchWriteError, TypeInv, RequestsOK, Serving, Detached
    <2> QED
        BY <2>2, <2>3 DEF TypeInv
<1>8. ASSUME NEW r \in Requests, PatchFinish(r) PROVE TypeInv'
    BY <1>8, MoveTypeInv DEF PatchFinish, Serving, Detached, Idle
<1>9. ASSUME NEW r \in Requests, PutHash(r) PROVE TypeInv'
    <2>1. req[r].upload \in issued /\ req[r].digest \in Digests
        BY <1>9 DEF PutHash, TypeInv, RequestsOK, Serving
    <2>2. CASE req' = [req EXCEPT ![r].pc = "put_rename"]
        BY <1>9, <2>1, <2>2, MoveTypeInv DEF PutHash, Serving
    <2>3. CASE req' = [req EXCEPT ![r].pc = "failed"]
        BY <1>9, <2>1, <2>3, MoveTypeInv DEF PutHash, Idle
    <2> QED
        BY <1>9, <2>2, <2>3 DEF PutHash
<1>10. ASSUME NEW r \in Requests, PutRename(r) PROVE TypeInv'
    <2> DEFINE pc == IF req[r].pc = "late_rename" THEN "dropped" ELSE "created"
    <2>1. /\ req[r].upload \in issued /\ req[r].upload \in Uploads
          /\ req[r].digest \in Digests
        BY <1>10 DEF PutRename, TypeInv, TypeOK, RequestsOK, Serving, Detached
    <2>2. /\ req' \in [Requests -> Request]
          /\ req'[r].digest = req[r].digest
          /\ req'[r].pc = pc
          /\ \A q \in Requests \ {r} : req'[q] = req[q]
        <3>1. req' = [req EXCEPT ![r].pc = pc] /\ req \in [Requests -> Request]
            BY <1>10 DEF PutRename, TypeInv, TypeOK
        <3>2. pc \in Idle
            BY DEF Idle
        <3> HIDE DEF pc
        <3> QED
            BY <3>1, <3>2 DEF Request
    <2>3. pc \in {"dropped", "created"}
        OBVIOUS
    <2> HIDE DEF pc
    <2>4. TypeOK'
        BY <1>10, <2>1, <2>2 DEF PutRename, TypeInv, TypeOK
    <2>5. RequestsOK'
        BY <1>10, <2>1, <2>2, <2>3
           DEF PutRename, TypeInv, RequestsOK, Serving, Detached
    <2> QED
        BY <2>4, <2>5 DEF TypeInv
<1>11. ASSUME NEW r \in Requests, PutRenameError(r) PROVE TypeInv'
    BY <1>11, MoveTypeInv DEF PutRenameError, Serving, Detached, Idle
<1>12. ASSUME NEW r \in Requests, Disconnect(r) PROVE TypeInv'
    <2>1. req[r].upload \in issued
        BY <1>12 DEF Disconnect, TypeInv, RequestsOK
    <2>2. CASE req' = [req EXCEPT ![r].pc = "dropped"]
        BY <1>12, <2>1, <2>2, MoveTypeInv DEF Disconnect, Idle
    <2>3. CASE req' = [req EXCEPT ![r].pc = "late_write"]
        BY <1>12, <2>1, <2>3, MoveTypeInv DEF Disconnect, Detached
    <2>4. CASE /\ req[r].pc = "put_rename"
               /\ req' = [req EXCEPT ![r].pc = "late_rename"]
        <3>1. req[r].digest \in Digests
            BY <2>4 DEF TypeInv, RequestsOK
        <3> QED
            BY <1>12, <2>1, <2>4, <3>1, MoveTypeInv DEF Disconnect, Detached
    <2> QED
        BY <1>12, <2>2, <2>3, <2>4 DEF Disconnect
<1>13. CASE Restart
    <2>1. NoRequest \in Request
        BY DEF NoRequest, Request, Idle
    <2>2. TypeOK'
        BY <1>13, <2>1 DEF Restart, TypeInv, TypeOK
    <2>3. RequestsOK'
        BY <1>13 DEF Restart, RequestsOK, NoRequest, Serving, Detached
    <2> QED
        BY <2>2, <2>3 DEF TypeInv
<1>14. CASE UNCHANGED vars
    BY <1>14 DEF vars, TypeInv, TypeOK, RequestsOK
<1> QED
    BY <1>1, <1>2, <1>3, <1>4, <1>5, <1>6, <1>7, <1>8, <1>9, <1>10, <1>11,
       <1>12, <1>13, <1>14 DEF Next

LEMMA AlwaysTypeInv == Spec => []TypeInv
    BY InitTypeInv, NextTypeInv, PTL DEF Spec

(* Type correctness of the upload protocol: directory entries name uploads *)
(* that were issued, and every handler is at one of its awaits.            *)
THEOREM TypeCorrect == Spec => []TypeOK
    BY AlwaysTypeInv, PTL DEF TypeInv

-----------------------------------------------------------------------------

(* Directory entries change in two places only.                            *)
LEMMA EntriesChange ==
    ASSUME [Next]_vars
    PROVE  \/ UNCHANGED <<issued, partial, blobs>>
           \/ \E u \in Uploads : UploadNew(u)
           \/ \E r \in Requests : PutRename(r)
BY DEF Next, vars, PatchStart, PatchFrame, PutStart, PatchOpen, PatchWrite,
       PatchWriteError, PatchFinish, PutHash, PutRenameError, Disconnect,
       Restart

(* finalize_upload publishes an upload at most once, for every client: a   *)
(* rename takes the file out of uploads/, and the hash that precedes it    *)
(* does not matter.                                                        *)
THEOREM UploadPublishedOnce == Spec => []PublishedOnce
<1>1. Init => PublishedOnce
    BY DEF Init, PublishedOnce
<1>2. TypeInv /\ PublishedOnce /\ [Next]_vars => PublishedOnce'
    <2> SUFFICES ASSUME TypeInv, PublishedOnce, [Next]_vars
                 PROVE  PublishedOnce'
        OBVIOUS
    <2>1. CASE UNCHANGED <<issued, partial, blobs>>
        BY <2>1 DEF PublishedOnce
    <2>2. ASSUME NEW u \in Uploads, UploadNew(u) PROVE PublishedOnce'
        BY <2>2 DEF UploadNew, PublishedOnce, TypeInv, TypeOK
    <2>3. ASSUME NEW r \in Requests, PutRename(r) PROVE PublishedOnce'
        BY <2>3 DEF PutRename, PublishedOnce, TypeInv, TypeOK, RequestsOK
    <2> QED
        BY <2>1, <2>2, <2>3, EntriesChange
<1> QED
    BY <1>1, <1>2, AlwaysTypeInv, PTL DEF Spec

(* A blob is never removed from blobs/.                                    *)
LEMMA BlobsStay ==
    ASSUME TypeInv, [Next]_vars, NEW d \in Digests, blobs[d] # NoFile
    PROVE  blobs'[d] # NoFile
<1>1. ASSUME NEW u \in Uploads, UploadNew(u) PROVE blobs'[d] # NoFile
    BY <1>1 DEF UploadNew
<1>2. ASSUME NEW r \in Requests, PutRename(r) PROVE blobs'[d] # NoFile
    BY <1>2, BlobAssumption DEF PutRename, TypeInv, TypeOK
<1> QED
    BY <1>1, <1>2, EntriesChange

(* A request that is answered with 201 Created in this step was renamed in *)
(* this step.                                                              *)
LEMMA CreatedByRename ==
    ASSUME TypeInv, [Next]_vars, NEW q \in Requests, req'[q].pc = "created"
    PROVE  \/ req'[q] = req[q]
           \/ PutRename(q) /\ req'[q].digest = req[q].digest
<1>1. ASSUME NEW r \in Requests, NEW u \in Uploads, PatchStart(r, u)
      PROVE  req'[q] = req[q]
    BY <1>1 DEF PatchStart, Start, TypeInv, TypeOK
<1>2. ASSUME NEW r \in Requests, NEW u \in Uploads, NEW d \in Digests,
             PutStart(r, u, d)
      PROVE  req'[q] = req[q]
    BY <1>2 DEF PutStart, Start, TypeInv, TypeOK
<1>3. ASSUME NEW r \in Requests, NEW f \in Frames, PatchFrame(r, f)
      PROVE  req'[q] = req[q]
    BY <1>3 DEF PatchFrame, TypeInv, TypeOK, Request
<1>4. ASSUME NEW r \in Requests, PatchOpen(r) PROVE req'[q] = req[q]
    BY <1>4 DEF PatchOpen, TypeInv, TypeOK, Request
<1>5. ASSUME NEW r \in Requests,
             PatchWrite(r) \/ PatchWriteError(r)
      PROVE  req'[q] = req[q]
    <2>1. WriteDone(r, "patch_write") \/ WriteDone(r, "failed")
        BY <1>5 DEF PatchWrite, PatchWriteError
    <2> QED
        BY <2>1 DEF WriteDone, TypeInv, TypeOK, Request
<1>6. ASSUME NEW r \in Requests, PatchFinish(r) PROVE req'[q] = req[q]
    BY <1>6 DEF PatchFinish, TypeInv, TypeOK, Request
<1>7. ASSUME NEW r \in Requests, PutHash(r) PROVE req'[q] = req[q]
    BY <1>7 DEF PutHash, TypeInv, TypeOK, Request
<1>8. ASSUME NEW r \in Requests, PutRename(r)
      PROVE  \/ req'[q] = req[q]
             \/ PutRename(q) /\ req'[q].digest = req[q].digest
    <2>1. CASE q = r
        BY <1>8, <2>1 DEF PutRename, TypeInv, TypeOK, Request
    <2>2. CASE q # r
        BY <1>8, <2>2 DEF PutRename, TypeInv, TypeOK
    <2> QED
        BY <2>1, <2>2
<1>9. ASSUME NEW r \in Requests, PutRenameError(r) PROVE req'[q] = req[q]
    BY <1>9 DEF PutRenameError, TypeInv, TypeOK, Request
<1>10. ASSUME NEW r \in Requests, Disconnect(r) PROVE req'[q] = req[q]
    BY <1>10 DEF Disconnect, TypeInv, TypeOK, Request
<1>11. CASE Restart
    BY <1>11 DEF Restart, NoRequest
<1>12. ASSUME NEW u \in Uploads, UploadNew(u) PROVE req'[q] = req[q]
    BY <1>12 DEF UploadNew
<1>13. CASE UNCHANGED vars
    BY <1>13 DEF vars
<1> QED
    BY <1>1, <1>2, <1>3, <1>4, <1>5, <1>6, <1>7, <1>8, <1>9, <1>10, <1>11,
       <1>12, <1>13 DEF Next

(* For every client, a PUT that was answered with 201 Created has its blob *)
(* in blobs/, then and ever after.                                         *)
THEOREM CreatedBlobsStay == Spec => []CreatedIsStored
<1>1. Init => CreatedIsStored
    BY DEF Init, CreatedIsStored, NoRequest
<1>2. TypeInv /\ CreatedIsStored /\ [Next]_vars => CreatedIsStored'
    <2> SUFFICES ASSUME TypeInv, CreatedIsStored, [Next]_vars,
                        NEW q \in Requests, req'[q].pc = "created"
                 PROVE  blobs'[req'[q].digest] # NoFile
        BY DEF CreatedIsStored
    <2>1. CASE req'[q] = req[q]
        BY <2>1, BlobsStay DEF CreatedIsStored, TypeInv, RequestsOK
    <2>2. CASE PutRename(q) /\ req'[q].digest = req[q].digest
        BY <2>2, BlobAssumption
           DEF PutRename, TypeInv, TypeOK, RequestsOK
    <2> QED
        BY <2>1, <2>2, CreatedByRename
<1> QED
    BY <1>1, <1>2, AlwaysTypeInv, PTL DEF Spec

-----------------------------------------------------------------------------

(* Only PatchOpen makes a new writer, and it opens an entry of uploads/.   *)
LEMMA NewWriter ==
    ASSUME TypeInv, [Next]_vars, NEW q \in Requests, NEW v \in Uploads,
           Writing(q, v)'
    PROVE  Writing(q, v) \/ v \in partial
<1> DEFINE Goal == Writing(q, v) \/ v \in partial
<1>1. ASSUME NEW r \in Requests, NEW u \in Uploads, PatchStart(r, u)
      PROVE  Goal
    BY <1>1 DEF PatchStart, Start, TypeInv, TypeOK, Writing
<1>2. ASSUME NEW r \in Requests, NEW u \in Uploads, NEW d \in Digests,
             PutStart(r, u, d)
      PROVE  Goal
    <2>1. CASE q = r
        BY <1>2, <2>1 DEF PutStart, Start, TypeInv, TypeOK, Writing
    <2>2. CASE q # r
        BY <1>2, <2>2 DEF PutStart, Start, TypeInv, TypeOK, Writing
    <2> QED
        BY <2>1, <2>2
<1>3. ASSUME NEW r \in Requests, NEW f \in Frames, PatchFrame(r, f)
      PROVE  Goal
    BY <1>3 DEF PatchFrame, TypeInv, TypeOK, Request, Writing
<1>4. ASSUME NEW r \in Requests, PatchOpen(r) PROVE Goal
    BY <1>4 DEF PatchOpen, TypeInv, TypeOK, Request, Writing
<1>5. ASSUME NEW r \in Requests, PatchWrite(r) \/ PatchWriteError(r)
      PROVE  Goal
    <2>1. WriteDone(r, "patch_write") \/ WriteDone(r, "failed")
        BY <1>5 DEF PatchWrite, PatchWriteError
    <2> QED
        BY <2>1 DEF WriteDone, TypeInv, TypeOK, Request, Writing
<1>6. ASSUME NEW r \in Requests, PatchFinish(r) PROVE Goal
    BY <1>6 DEF PatchFinish, TypeInv, TypeOK, Request, Writing
<1>7. ASSUME NEW r \in Requests, PutHash(r) PROVE Goal
    BY <1>7 DEF PutHash, TypeInv, TypeOK, Request, Writing
<1>8. ASSUME NEW r \in Requests, PutRename(r) PROVE Goal
    BY <1>8 DEF PutRename, TypeInv, TypeOK, Request, Writing
<1>9. ASSUME NEW r \in Requests, PutRenameError(r) PROVE Goal
    BY <1>9 DEF PutRenameError, TypeInv, TypeOK, Request, Writing
<1>10. ASSUME NEW r \in Requests, Disconnect(r) PROVE Goal
    <2>1. CASE q = r
        <3>1. req'[q].pc # "patch_write" /\ req'[q].upload = req[q].upload
            BY <1>10, <2>1 DEF Disconnect, TypeInv, TypeOK, Request
        <3>2. req'[q].pc = "late_write" => req[q].pc = "patch_write"
            BY <1>10, <2>1 DEF Disconnect, TypeInv, TypeOK, Request
        <3> QED
            BY <3>1, <3>2 DEF Writing
    <2>2. CASE q # r
        <3>1. req'[q] = req[q]
            BY <1>10, <2>2 DEF Disconnect, TypeInv, TypeOK
        <3> QED
            BY <3>1 DEF Writing
    <2> QED
        BY <2>1, <2>2
<1>11. CASE Restart
    BY <1>11 DEF Restart, NoRequest, Writing
<1>12. ASSUME NEW u \in Uploads, UploadNew(u) PROVE Goal
    BY <1>12 DEF UploadNew, Writing
<1>13. CASE UNCHANGED vars
    BY <1>13 DEF vars, Writing
<1> QED
    BY <1>1, <1>2, <1>3, <1>4, <1>5, <1>6, <1>7, <1>8, <1>9, <1>10, <1>11,
       <1>12, <1>13 DEF Next

(* Contents change in two places only.                                     *)
LEMMA ContentChange ==
    ASSUME [Next]_vars
    PROVE  \/ UNCHANGED content
           \/ \E u \in Uploads : UploadNew(u)
           \/ \E r \in Requests : PatchWrite(r)
BY DEF Next, vars, PatchStart, PatchFrame, PutStart, PatchOpen, PutRename,
       PatchWriteError, PatchFinish, PutHash, PutRenameError, Disconnect,
       Restart

(* For every client, a file that has left uploads/ and has no writer never *)
(* changes again: get_upload_writer reaches files through uploads/ only.   *)
THEOREM BlobsAreSealed == Spec => SealedBlobs
<1>1. ASSUME TypeInv, [Next]_vars, NEW u \in issued \ partial,
             \A r \in Requests : ~Writing(r, u)
      PROVE  /\ content'[u] = content[u]
             /\ \A r \in Requests : ~Writing(r, u)'
    <2>1. u \in Uploads
        BY <1>1 DEF TypeInv, TypeOK
    <2>2. ASSUME NEW v \in Uploads, UploadNew(v)
          PROVE  content'[u] = content[u]
        BY <1>1, <2>1, <2>2 DEF UploadNew, TypeInv, TypeOK
    <2>3. ASSUME NEW r \in Requests, PatchWrite(r)
          PROVE  content'[u] = content[u]
        BY <1>1, <2>1, <2>3
           DEF PatchWrite, WriteDone, Writing, TypeInv, TypeOK
    <2>4. content'[u] = content[u]
        BY <1>1, <2>2, <2>3, ContentChange
    <2>5. \A r \in Requests : ~Writing(r, u)'
        BY <1>1, <2>1, NewWriter
    <2> QED
        BY <2>4, <2>5
<1>2. TypeInv /\ [Next]_vars
      => [\A u \in issued \ partial :
            (\A r \in Requests : ~Writing(r, u))
            => /\ content'[u] = content[u]
               /\ \A r \in Requests : ~Writing(r, u)']_vars
    BY <1>1
<1> QED
    BY <1>2, AlwaysTypeInv, PTL DEF Spec, SealedBlobs

=============================================================================
