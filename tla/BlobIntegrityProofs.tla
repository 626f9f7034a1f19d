------------------------ MODULE BlobIntegrityProofs -------------------------
(***************************************************************************)
(* Integrity of the blobs that clients pull, for every number of uploads,  *)
(* requests, frames and digests, when clients neither overlap requests for *)
(* an upload nor lose a connection while one is served.  TLC refutes it    *)
(* without either assumption.                                              *)
(***************************************************************************)
EXTENDS BlobUploadsProofs

(* At most one handler works on an upload.                                 *)
Exclusive ==
    \A r, q \in Requests :
        /\ req[r].pc \in Serving
        /\ req[q].pc \in Serving
        /\ req[r].upload = req[q].upload
        => r = q

(* No blocking thread works for a dropped handler, and an upload stays in  *)
(* uploads/ while a handler works on it.                                   *)
Attached ==
    \A r \in Requests :
        /\ req[r].pc \notin Detached
        /\ req[r].pc \in Serving => req[r].upload \in partial

(* What was hashed is what the file holds.                                 *)
Hashed ==
    \A r \in Requests :
        req[r].pc = "put_rename"
          => Sha256(content[req[r].upload]) = req[r].digest

SeqInv ==
    /\ TypeInv
    /\ PublishedOnce
    /\ Exclusive
    /\ Attached
    /\ Hashed
    /\ BlobIntegrity

(* A handler that moves on, or ends, while the files stay as they are.     *)
LEMMA MoveSeqInv ==
    ASSUME SeqInv, TypeInv', PublishedOnce', NEW r \in Requests,
           UNCHANGED <<issued, partial, blobs, content>>,
           NEW pc \in Serving \cup Idle,
           req'[r].pc = pc,
           req'[r].upload = req[r].upload,
           req'[r].digest = req[r].digest,
           \A q \in Requests \ {r} : req'[q] = req[q],
           pc \in Serving => req[r].pc \in Serving,
           pc = "put_rename" => Sha256(content[req[r].upload]) = req[r].digest
    PROVE  SeqInv'
<1>1. pc \notin Detached
    BY DEF Serving, Idle, Detached
<1>2. Exclusive'
    BY DEF SeqInv, Exclusive
<1>3. Attached'
    BY <1>1 DEF SeqInv, Attached
<1>4. Hashed'
    BY DEF SeqInv, Hashed
<1>5. BlobIntegrity'
    BY DEF SeqInv, BlobIntegrity, BlobGet
<1> QED
    BY <1>2, <1>3, <1>4, <1>5 DEF SeqInv

(* A handler that starts on an upload that nobody else works on.           *)
LEMMA StartSeqInv ==
    ASSUME SeqInv, TypeInv', PublishedOnce', NEW r \in Requests,
           NEW u \in Uploads, NEW d \in Digests \cup {NoDigest},
           NEW pc \in {"failed", "patch_open", "put_hash"},
           UNCHANGED <<issued, partial, blobs, content>>,
           Start(r, u, d, pc), MayStart(r, u), ~Overlap,
           pc # "failed" => u \in partial
    PROVE  SeqInv'
<1>1. pc \in Serving \cup Idle
    BY DEF Serving, Idle
<1>2. /\ req'[r].pc = pc
      /\ req'[r].upload = u
      /\ \A q \in Requests \ {r} : req'[q] = req[q]
    BY <1>1, StartRequest DEF SeqInv, TypeInv, TypeOK
<1>3. \A q \in Requests : req[q].pc \in Serving => req[q].upload # u
    BY DEF MayStart
<1>4. Exclusive'
    BY <1>2, <1>3 DEF SeqInv, Exclusive
<1>5. Attached'
    BY <1>2 DEF SeqInv, Attached, Serving, Detached
<1>6. Hashed'
    BY <1>2 DEF SeqInv, Hashed
<1>7. BlobIntegrity'
    BY DEF SeqInv, BlobIntegrity, BlobGet
<1> QED
    BY <1>4, <1>5, <1>6, <1>7 DEF SeqInv

(* PublishedOnce is inductive on its own.                                  *)
LEMMA NextPublishedOnce ==
    ASSUME TypeInv, PublishedOnce, [Next]_vars
    PROVE  PublishedOnce'
<1>1. CASE UNCHANGED <<issued, partial, blobs>>
    BY <1>1 DEF PublishedOnce
<1>2. ASSUME NEW u \in Uploads, UploadNew(u) PROVE PublishedOnce'
    BY <1>2 DEF UploadNew, PublishedOnce, TypeInv, TypeOK
<1>3. ASSUME NEW r \in Requests, PutRename(r) PROVE PublishedOnce'
    BY <1>3 DEF PutRename, PublishedOnce, TypeInv, TypeOK, RequestsOK
<1> QED
    BY <1>1, <1>2, <1>3, EntriesChange

LEMMA InitSeqInv == Init => SeqInv
<1> SUFFICES ASSUME Init PROVE SeqInv
    OBVIOUS
<1>1. TypeInv
    BY InitTypeInv
<1>2. PublishedOnce
    BY DEF Init, PublishedOnce
<1>3. \A r \in Requests : req[r].pc = "ready"
    BY DEF Init, NoRequest
<1>4. Exclusive /\ Attached /\ Hashed
    BY <1>3 DEF Exclusive, Attached, Hashed, Serving, Detached
<1>5. BlobIntegrity
    BY DEF Init, BlobIntegrity
<1> QED
    BY <1>1, <1>2, <1>4, <1>5 DEF SeqInv

LEMMA NextSeqInv ==
    ASSUME ~Overlap, ~Disconnects, SeqInv, [Next]_vars
    PROVE  SeqInv'
<1>1. TypeInv' /\ PublishedOnce'
    BY NextTypeInv, NextPublishedOnce DEF SeqInv
<1>2. ASSUME NEW u \in Uploads, UploadNew(u) PROVE SeqInv'
    <2>1. u \notin issued /\ req' = req /\ blobs' = blobs
        BY <1>2 DEF UploadNew
    <2>2. \A v \in Uploads \ {u} : content'[v] = content[v]
        BY <1>2 DEF UploadNew, SeqInv, TypeInv, TypeOK
    <2>3. \A v \in issued : v \in Uploads \ {u}
        BY <2>1 DEF SeqInv, TypeInv, TypeOK
    <2>4. Exclusive'
        BY <2>1 DEF SeqInv, Exclusive
    <2>5. Attached'
        BY <1>2, <2>1 DEF UploadNew, SeqInv, Attached
    <2>6. Hashed'
        BY <2>1, <2>2, <2>3
           DEF SeqInv, Hashed, TypeInv, RequestsOK, Serving
    <2>7. BlobIntegrity'
        BY <2>1, <2>2, <2>3
           DEF SeqInv, BlobIntegrity, BlobGet, TypeInv, TypeOK
    <2> QED
        BY <1>1, <2>4, <2>5, <2>6, <2>7 DEF SeqInv
<1>3. ASSUME NEW r \in Requests, NEW u \in Uploads, PatchStart(r, u)
      PROVE  SeqInv'
    BY <1>1, <1>3, StartSeqInv DEF PatchStart
<1>4. ASSUME NEW r \in Requests, NEW u \in Uploads, NEW d \in Digests,
             PutStart(r, u, d)
      PROVE  SeqInv'
    BY <1>1, <1>4, StartSeqInv DEF PutStart
<1>5. ASSUME NEW r \in Requests, NEW f \in Frames, PatchFrame(r, f)
      PROVE  SeqInv'
    <2>1. /\ req'[r].pc = "patch_write"
          /\ req'[r].upload = req[r].upload
          /\ req'[r].digest = req[r].digest
          /\ \A q \in Requests \ {r} : req'[q] = req[q]
        BY <1>5 DEF PatchFrame, SeqInv, TypeInv, TypeOK, Request
    <2> QED
        BY <1>1, <1>5, <2>1, MoveSeqInv DEF PatchFrame, Serving
<1>6. ASSUME NEW r \in Requests,
             NEW pc \in Serving \cup Idle,
             req' = [req EXCEPT ![r].pc = pc],
             UNCHANGED <<issued, partial, blobs, content>>,
             req[r].pc \in Serving,
             pc = "put_rename"
               => Sha256(content[req[r].upload]) = req[r].digest
      PROVE  SeqInv'
    <2>1. /\ req'[r].pc = pc
          /\ req'[r].upload = req[r].upload
          /\ req'[r].digest = req[r].digest
          /\ \A q \in Requests \ {r} : req'[q] = req[q]
        BY <1>6 DEF SeqInv, TypeInv, TypeOK, Request
    <2> QED
        BY <1>1, <1>6, <2>1, MoveSeqInv
<1>7. ASSUME NEW r \in Requests, PatchOpen(r) PROVE SeqInv'
    BY <1>6, <1>7 DEF PatchOpen, Serving, Idle
<1>8. ASSUME NEW r \in Requests, PatchFinish(r) PROVE SeqInv'
    BY <1>6, <1>8 DEF PatchFinish, Serving, Idle
<1>9. ASSUME NEW r \in Requests, PutHash(r) PROVE SeqInv'
    BY <1>6, <1>9 DEF PutHash, Serving, Idle
<1>10. ASSUME NEW r \in Requests, PutRenameError(r) PROVE SeqInv'
    <2>1. req[r].pc = "put_rename"
        BY <1>10 DEF PutRenameError, SeqInv, Attached, Detached
    <2> QED
        BY <1>6, <1>10, <2>1 DEF PutRenameError, Serving, Idle
<1>11. ASSUME NEW r \in Requests, PatchWriteError(r) PROVE SeqInv'
    <2>1. req[r].pc = "patch_write"
        BY <1>11 DEF PatchWriteError, WriteDone, SeqInv, Attached, Detached
    <2>2. /\ req'[r].pc = "failed"
          /\ req'[r].upload = req[r].upload
          /\ req'[r].digest = req[r].digest
          /\ \A q \in Requests \ {r} : req'[q] = req[q]
        BY <1>11, <2>1
           DEF PatchWriteError, WriteDone, SeqInv, TypeInv, TypeOK, Request
    <2> QED
        BY <1>1, <1>11, <2>2, MoveSeqInv DEF PatchWriteError, Serving, Idle
<1>12. ASSUME NEW r \in Requests, PatchWrite(r) PROVE SeqInv'
    <2>1. req[r].pc = "patch_write"
        BY <1>12 DEF PatchWrite, WriteDone, SeqInv, Attached, Detached
    <2>2. /\ req'[r].pc = "patch_write"
          /\ req'[r].upload = req[r].upload
          /\ \A q \in Requests \ {r} : req'[q] = req[q]
        BY <1>12, <2>1
           DEF PatchWrite, WriteDone, SeqInv, TypeInv, TypeOK, Request
    <2>3. UNCHANGED <<issued, partial, blobs>>
        BY <1>12 DEF PatchWrite
    <2>4. req[r].upload \in partial
        BY <2>1 DEF SeqInv, Attached, Serving
    <2>5. \A v \in Uploads : v # req[r].upload => content'[v] = content[v]
        BY <1>12 DEF PatchWrite, SeqInv, TypeInv, TypeOK
    <2>6. Exclusive'
        BY <2>1, <2>2 DEF SeqInv, Exclusive, Serving
    <2>7. Attached'
        BY <2>1, <2>2, <2>3, <2>4 DEF SeqInv, Attached, Detached
    <2>8. Hashed'
        <3> SUFFICES ASSUME NEW q \in Requests, req'[q].pc = "put_rename"
                     PROVE  Sha256(content'[req'[q].upload])
                              = req'[q].digest
            BY DEF Hashed
        <3>1. q # r /\ req'[q] = req[q]
            BY <2>2
        <3>2. req[q].upload # req[r].upload
            BY <2>1, <3>1 DEF SeqInv, Exclusive, Serving
        <3>3. req[q].upload \in Uploads
            BY <3>1 DEF SeqInv, TypeInv, TypeOK, RequestsOK, Serving
        <3> QED
            BY <2>5, <3>1, <3>2, <3>3 DEF SeqInv, Hashed
    <2>9. BlobIntegrity'
        BY <2>3, <2>4, <2>5
           DEF SeqInv, BlobIntegrity, BlobGet, PublishedOnce, TypeInv, TypeOK
    <2> QED
        BY <1>1, <2>6, <2>7, <2>8, <2>9 DEF SeqInv
<1>13. ASSUME NEW r \in Requests, PutRename(r) PROVE SeqInv'
    <2>1. req[r].pc = "put_rename"
        BY <1>13 DEF PutRename, SeqInv, Attached, Detached
    <2>2. /\ req'[r].pc = "created"
          /\ \A q \in Requests \ {r} : req'[q] = req[q]
        BY <1>13, <2>1 DEF PutRename, SeqInv, TypeInv, TypeOK, Request
    <2>3. Exclusive'
        BY <2>2 DEF SeqInv, Exclusive, Serving
    <2>4. Attached'
        <3> SUFFICES ASSUME NEW q \in Requests
                     PROVE  /\ req'[q].pc \notin Detached
                            /\ req'[q].pc \in Serving
                                 => req'[q].upload \in partial'
            BY DEF Attached
        <3>1. CASE q = r
            BY <2>2, <3>1 DEF Detached, Serving
        <3>2. CASE q # r
            BY <1>13, <2>1, <2>2, <3>2
               DEF PutRename, SeqInv, Attached, Exclusive, Serving
        <3> QED
            BY <3>1, <3>2
    <2>5. Hashed'
        BY <1>13, <2>2 DEF PutRename, SeqInv, Hashed
    <2>6. BlobIntegrity'
        BY <1>13, <2>1
           DEF PutRename, SeqInv, Hashed, BlobIntegrity, BlobGet, TypeInv,
               TypeOK
    <2> QED
        BY <1>1, <2>3, <2>4, <2>5, <2>6 DEF SeqInv
<1>14. CASE Restart
    <2>1. \A r \in Requests : req'[r].pc = "ready"
        BY <1>14 DEF Restart, NoRequest
    <2>2. Exclusive' /\ Attached' /\ Hashed'
        BY <2>1 DEF Exclusive, Attached, Hashed, Serving, Detached
    <2>3. BlobIntegrity'
        BY <1>14 DEF Restart, SeqInv, BlobIntegrity, BlobGet
    <2> QED
        BY <1>1, <2>2, <2>3 DEF SeqInv
<1>15. CASE UNCHANGED vars
    BY <1>1, <1>15 DEF vars, SeqInv, Exclusive, Attached, Hashed,
                       BlobIntegrity, BlobGet
<1>16. ASSUME NEW r \in Requests, Disconnect(r) PROVE SeqInv'
    BY <1>16 DEF Disconnect
<1> QED
    BY <1>2, <1>3, <1>4, <1>5, <1>7, <1>8, <1>9, <1>10, <1>11, <1>12, <1>13,
       <1>14, <1>15, <1>16 DEF Next

LEMMA AlwaysSeqInv ==
    ASSUME ~Overlap, ~Disconnects PROVE Spec => []SeqInv
<1>1. SeqInv /\ [Next]_vars => SeqInv'
    BY NextSeqInv
<1> QED
    BY <1>1, InitSeqInv, PTL DEF Spec

(* A puller receives bytes that hash to the digest in the URL of blob_get, *)
(* after any uploads by clients that wait for their answers.               *)
THEOREM BlobsMatchTheirDigest ==
    ASSUME ~Overlap, ~Disconnects PROVE Spec => []BlobIntegrity
BY AlwaysSeqInv, PTL DEF SeqInv

(* For such clients the comment of finalize_upload is right: the uploaded  *)
(* file matches when it is renamed.                                        *)
THEOREM RenamedFileMatches ==
    ASSUME ~Overlap, ~Disconnects PROVE Spec => []FinalizedFileMatches
<1>1. SeqInv => FinalizedFileMatches
    BY DEF SeqInv, Attached, Hashed, FinalizedFileMatches, Detached
<1> QED
    BY <1>1, AlwaysSeqInv, PTL

-----------------------------------------------------------------------------

(* A file never grows past the bound, and there is room for the frame that *)
(* a handler has handed to its thread: nobody else writes to that file.    *)
RoomOK ==
    /\ \A u \in Uploads : Len(content[u]) <= MaxFrames
    /\ \A r \in Requests :
          /\ req[r].pc = "patch_open" => req[r].buf = NoFrame
          /\ req[r].pc = "patch_write" /\ req[r].buf # NoFrame
               => Len(content[req[r].upload]) < MaxFrames

(* One handler moves on, the files stay, and no frame without room is      *)
(* handed over.                                                            *)
LEMMA MoveRoom ==
    ASSUME RoomOK, NEW r \in Requests, UNCHANGED content,
           \A q \in Requests \ {r} : req'[q] = req[q],
           req'[r].pc = "patch_open" => req'[r].buf = NoFrame,
           req'[r].pc = "patch_write" /\ req'[r].buf # NoFrame
             => Len(content[req'[r].upload]) < MaxFrames
    PROVE  RoomOK'
BY DEF RoomOK

LEMMA NextRoom ==
    ASSUME ~Overlap, ~Disconnects, SeqInv, RoomOK, [Next]_vars
    PROVE  RoomOK'
<1>0. /\ req \in [Requests -> Request]
      /\ content \in [Uploads -> Seq(Frames)]
      /\ MaxFrames \in Nat
    BY BlobAssumption DEF SeqInv, TypeInv, TypeOK
<1>1. ASSUME NEW u \in Uploads, UploadNew(u) PROVE RoomOK'
    <2>1. \A v \in Uploads : content'[v] = IF v = u THEN <<>> ELSE content[v]
        BY <1>0, <1>1 DEF UploadNew
    <2>2. \A r \in Requests : req[r].pc = "patch_write"
                                => req[r].upload \in Uploads \ {u}
        BY <1>1 DEF UploadNew, SeqInv, TypeInv, TypeOK, RequestsOK, Serving
    <2>3. Len(<<>>) <= MaxFrames
        BY <1>0
    <2> QED
        BY <1>1, <2>1, <2>2, <2>3 DEF UploadNew, RoomOK
<1>2. ASSUME NEW r \in Requests, NEW u \in Uploads,
             NEW d \in Digests \cup {NoDigest},
             NEW pc \in {"failed", "patch_open", "put_hash"},
             Start(r, u, d, pc), UNCHANGED content
      PROVE  RoomOK'
    <2>1. /\ req'[r].pc = pc
          /\ req'[r].buf = NoFrame
          /\ \A q \in Requests \ {r} : req'[q] = req[q]
        BY <1>0, <1>2 DEF Start
    <2> QED
        BY <1>2, <2>1, MoveRoom
<1>3. ASSUME NEW r \in Requests, NEW u \in Uploads, PatchStart(r, u)
      PROVE  RoomOK'
    BY <1>2, <1>3 DEF PatchStart
<1>4. ASSUME NEW r \in Requests, NEW u \in Uploads, NEW d \in Digests,
             PutStart(r, u, d)
      PROVE  RoomOK'
    BY <1>2, <1>4 DEF PutStart
<1>5. ASSUME NEW r \in Requests, NEW f \in Frames, PatchFrame(r, f)
      PROVE  RoomOK'
    <2>1. /\ req'[r].pc = "patch_write"
          /\ req'[r].upload = req[r].upload
          /\ \A q \in Requests \ {r} : req'[q] = req[q]
        BY <1>0, <1>5 DEF PatchFrame, Request
    <2> QED
        BY <1>5, <2>1, MoveRoom DEF PatchFrame
<1>6. ASSUME NEW r \in Requests, UNCHANGED content,
             NEW pc \in Idle \cup {"patch_write", "put_rename"},
             req' = [req EXCEPT ![r].pc = pc],
             pc = "patch_write" => req[r].pc = "patch_open"
      PROVE  RoomOK'
    <2>1. /\ req'[r].pc = pc
          /\ req'[r].buf = req[r].buf
          /\ \A q \in Requests \ {r} : req'[q] = req[q]
        BY <1>0, <1>6 DEF Request
    <2>2. pc # "patch_open"
        BY DEF Idle
    <2>3. pc = "patch_write" => req[r].buf = NoFrame
        BY <1>6 DEF RoomOK
    <2> QED
        BY <1>6, <2>1, <2>2, <2>3, MoveRoom
<1>7. ASSUME NEW r \in Requests, PatchOpen(r) PROVE RoomOK'
    BY <1>6, <1>7 DEF PatchOpen, Idle
<1>8. ASSUME NEW r \in Requests, PatchFinish(r) PROVE RoomOK'
    BY <1>6, <1>8 DEF PatchFinish, Idle
<1>9. ASSUME NEW r \in Requests, PutHash(r) PROVE RoomOK'
    BY <1>6, <1>9 DEF PutHash, Idle
<1>10. ASSUME NEW r \in Requests, PutRenameError(r) PROVE RoomOK'
    BY <1>6, <1>10 DEF PutRenameError, Idle
<1>11. ASSUME NEW r \in Requests, PutRename(r) PROVE RoomOK'
    BY <1>6, <1>11 DEF PutRename, Idle
<1>12. ASSUME NEW r \in Requests, NEW pc \in {"patch_write", "failed"},
              WriteDone(r, pc)
       PROVE  /\ req'[r].buf = NoFrame
              /\ req'[r].pc = pc
              /\ req[r].pc = "patch_write"
              /\ \A q \in Requests \ {r} : req'[q] = req[q]
    <2>1. req[r].pc = "patch_write"
        BY <1>12 DEF WriteDone, SeqInv, Attached, Detached
    <2> QED
        BY <1>0, <1>12, <2>1 DEF WriteDone, Request
<1>13. ASSUME NEW r \in Requests, PatchWriteError(r) PROVE RoomOK'
    BY <1>12, <1>13, MoveRoom DEF PatchWriteError
<1>14. ASSUME NEW r \in Requests, PatchWrite(r) PROVE RoomOK'
    <2>1. /\ req'[r].buf = NoFrame
          /\ req'[r].pc = "patch_write"
          /\ req[r].pc = "patch_write"
          /\ \A q \in Requests \ {r} : req'[q] = req[q]
        BY <1>12, <1>14 DEF PatchWrite
    <2> DEFINE u == req[r].upload
    <2>2. u \in Uploads /\ req[r].buf \in Frames
        BY <1>0, <1>14, <2>1
           DEF PatchWrite, WriteDone, SeqInv, TypeInv, TypeOK, RequestsOK,
               Serving, Request
    <2>3. Len(content[u]) < MaxFrames
        BY <1>14, <2>1 DEF PatchWrite, WriteDone, RoomOK
    <2>4. \A v \in Uploads : content'[v] = IF v = u
                                           THEN Append(content[u], req[r].buf)
                                           ELSE content[v]
        BY <1>0, <1>14, <2>2 DEF PatchWrite
    <2>5. Len(Append(content[u], req[r].buf)) <= MaxFrames
        BY <1>0, <2>2, <2>3
    <2>6. ASSUME NEW q \in Requests \ {r}, req[q].pc = "patch_write"
          PROVE  req[q].upload \in Uploads \ {u}
        BY <2>1, <2>6
           DEF SeqInv, TypeInv, TypeOK, RequestsOK, Exclusive, Serving
    <2> HIDE DEF u
    <2>7. \A v \in Uploads : Len(content'[v]) <= MaxFrames
        BY <2>4, <2>5 DEF RoomOK
    <2>8. ASSUME NEW q \in Requests
          PROVE  /\ req'[q].pc = "patch_open" => req'[q].buf = NoFrame
                 /\ req'[q].pc = "patch_write" /\ req'[q].buf # NoFrame
                      => Len(content'[req'[q].upload]) < MaxFrames
        BY <2>1, <2>4, <2>6 DEF RoomOK
    <2> QED
        BY <2>7, <2>8 DEF RoomOK
<1>15. CASE Restart
    BY <1>15 DEF Restart, NoRequest, RoomOK
<1>16. CASE UNCHANGED vars
    BY <1>16 DEF vars, RoomOK
<1>17. ASSUME NEW r \in Requests, Disconnect(r) PROVE RoomOK'
    BY <1>17 DEF Disconnect
<1> QED
    BY <1>1, <1>3, <1>4, <1>5, <1>7, <1>8, <1>9, <1>10, <1>11, <1>13, <1>14,
       <1>15, <1>16, <1>17 DEF Next

(* A bounded sequence of frames is a content.                              *)
LEMMA BoundedIsContent ==
    ASSUME NEW c \in Seq(Frames), Len(c) <= MaxFrames
    PROVE  c \in Contents
<1>1. Len(c) \in 0..MaxFrames
    BY BlobAssumption
<1>2. c \in [1..Len(c) -> Frames]
    OBVIOUS
<1> QED
    BY <1>1, <1>2 DEF Contents

(* A step of the protocol is a Publish of the store that pullers see, when *)
(* a rename puts the first file under its name, and no step of it          *)
(* otherwise: a second file under a name has the content of the first,     *)
(* whose digest it has.                                                    *)
LEMMA StepOfStore ==
    ASSUME ~Overlap, ~Disconnects, SeqInv, RoomOK, [Next]_vars
    PROVE  [Store!Next]_Pulled
<1>0. /\ issued \subseteq Uploads
      /\ blobs \in [Digests -> issued \cup {NoFile}]
      /\ content \in [Uploads -> Seq(Frames)]
    BY DEF SeqInv, TypeInv, TypeOK
<1>1. ASSUME blobs' = blobs,
             \A u \in issued \ partial : content'[u] = content[u]
      PROVE  UNCHANGED Pulled
    <2>1. \A d \in Digests : blobs[d] # NoFile
            => content'[blobs[d]] = content[blobs[d]]
        BY <1>0, <1>1 DEF SeqInv, PublishedOnce
    <2> QED
        BY <1>1, <2>1 DEF Pulled, BlobGet
<1>2. ASSUME NEW u \in Uploads, UploadNew(u) PROVE UNCHANGED Pulled
    BY <1>0, <1>1, <1>2 DEF UploadNew
<1>3. ASSUME NEW r \in Requests, PatchWrite(r) PROVE UNCHANGED Pulled
    <2>1. req[r].upload \in partial
        BY <1>3 DEF PatchWrite, WriteDone, SeqInv, Attached, Serving, Detached
    <2> QED
        BY <1>0, <1>1, <1>3, <2>1 DEF PatchWrite
<1>4. ASSUME NEW r \in Requests, PutRename(r)
      PROVE  Store!Next \/ UNCHANGED Pulled
    <2> DEFINE u == req[r].upload
               d == req[r].digest
    <2>1. req[r].pc = "put_rename"
        BY <1>4 DEF PutRename, SeqInv, Attached, Detached
    <2>2. u \in issued /\ u \in Uploads /\ u # NoFile /\ d \in Digests
        BY <1>0, <2>1, BlobAssumption DEF SeqInv, TypeInv, RequestsOK, Serving
    <2>3. Sha256(content[u]) = d
        BY <2>1 DEF SeqInv, Hashed
    <2>4. \A v \in Uploads : content[v] \in Contents
        BY <1>0, BoundedIsContent DEF RoomOK
    <2>5. blobs' = [blobs EXCEPT ![d] = u] /\ content' = content
        BY <1>4 DEF PutRename
    <2> HIDE DEF u, d
    <2>6. Pulled' = [Pulled EXCEPT ![d] = content[u]]
        <3>1. Pulled' = [e \in Digests |-> IF e = d THEN content[u]
                                           ELSE Pulled[e]]
            BY <1>0, <2>2, <2>5 DEF Pulled, BlobGet
        <3> QED
            BY <3>1 DEF Pulled
    <2>7. CASE blobs[d] = NoFile
        <3>1. Pulled[d] = NoFile
            BY <2>2, <2>7 DEF Pulled
        <3>2. Store!Publish(d, content[u])
            BY <2>3, <2>6, <3>1 DEF Store!Publish
        <3> QED
            BY <2>2, <2>4, <3>2 DEF Store!Next
    <2>8. CASE blobs[d] # NoFile
        <3>1. blobs[d] \in Uploads /\ Pulled[d] = content[blobs[d]]
            BY <1>0, <2>2, <2>8 DEF Pulled, BlobGet
        <3>2. Sha256(content[blobs[d]]) = d
            BY <2>2, <2>8 DEF SeqInv, BlobIntegrity, BlobGet
        <3>3. content[blobs[d]] = content[u]
            BY <2>2, <2>3, <2>4, <3>1, <3>2, Sha256Injective
        <3>4. Pulled' = Pulled
            BY <2>6, <3>1, <3>3 DEF Pulled
        <3> QED
            BY <3>4
    <2> QED
        BY <2>7, <2>8
<1>5. CASE UNCHANGED <<blobs, content>>
    BY <1>1, <1>5
<1>6. \/ UNCHANGED <<blobs, content>>
      \/ \E u \in Uploads : UploadNew(u)
      \/ \E r \in Requests : PatchWrite(r) \/ PutRename(r)
    BY EntriesChange, ContentChange
       DEF Next, vars, PatchStart, PatchFrame, PutStart, PatchOpen,
           PatchWriteError, PatchFinish, PutHash, PutRenameError, Disconnect,
           Restart
<1> QED
    BY <1>2, <1>3, <1>4, <1>5, <1>6

(* For clients that wait for their answers, the handlers and directories   *)
(* are a content addressed store: finalize_upload publishes a blob in one  *)
(* step, under its own hash, and no later request removes, replaces or     *)
(* alters what blob_get streams.                                           *)
THEOREM Refinement ==
    ASSUME ~Overlap, ~Disconnects PROVE Spec => ImplementsContentStore
<1>1. Init => RoomOK
    <2> SUFFICES ASSUME Init PROVE RoomOK
        OBVIOUS
    <2>1. Len(<<>>) <= MaxFrames
        BY BlobAssumption
    <2> QED
        BY <2>1 DEF Init, NoRequest, RoomOK
<1>2. Init => Store!Init
    BY DEF Init, Store!Init, Pulled
<1>3. SeqInv /\ RoomOK /\ [Next]_vars => RoomOK'
    BY NextRoom
<1>4. SeqInv /\ RoomOK /\ [Next]_vars => [Store!Next]_Pulled
    BY StepOfStore
<1> QED
    BY <1>1, <1>2, <1>3, <1>4, AlwaysSeqInv, PTL
       DEF Spec, ImplementsContentStore, Store!Spec

=============================================================================
