------------------------ MODULE ManifestStoreProofs -------------------------
(***************************************************************************)
(* Proofs about ManifestStore, for every number of manifests, tags, links  *)
(* and concurrent requests: what TLC checks in the run manifests on two of *)
(* each holds for all of them.                                             *)
(***************************************************************************)
EXTENDS ManifestStore, TLAPS

Pcs == Putting \cup Getting \cup Idle

Request == [pc       : Pcs,
            tag      : Tags \cup {NoTag},
            manifest : Manifests \cup {NoManifest},
            link     : Uuids \cup {NoUuid},
            body     : {"absent", "torn", "whole"}]

(* A PUT knows its manifest, which is recorded as pushed for its tag, and  *)
(* once it has truncated the file there is one.                            *)
PutsOK ==
    \A r \in Requests :
        /\ req[r].pc \in Putting =>
             /\ req[r].manifest \in Manifests
             /\ req[r].tag # NoTag => req[r].manifest \in pushed[req[r].tag]
        /\ req[r].pc \in Putting \ {"truncate"} =>
             file[req[r].manifest] # "absent"

(* The write that truncated a file last is still under way, and a file is  *)
(* torn only under such a write or for good.                               *)
WritersOK ==
    \A m \in Manifests :
        /\ writer[m] # NoRequest => /\ req[writer[m]].pc = "write"
                                    /\ req[writer[m]].manifest = m
        /\ file[m] = "torn" /\ m \notin hurt => writer[m] # NoRequest

(* A handler that is about to rename has a temporary link of its own, and  *)
(* it still names the manifest that the handler stored.                    *)
LinksOK ==
    \A r \in Requests : req[r].pc = "rename" =>
        /\ req[r].link \in used
        /\ temp[req[r].link] = req[r].manifest
        /\ \A q \in Requests \ {r} :
              req[q].pc = "rename" => req[q].link # req[r].link

(* A tag names a manifest that was pushed for it and whose file exists.    *)
TagsOK ==
    \A t \in Tags : tags[t] # NoManifest =>
        /\ tags[t] \in pushed[t]
        /\ file[tags[t]] # "absent"

(* A GET that has opened a file through a tag reads a manifest that was    *)
(* pushed for the tag, and answers only with what parsed.                  *)
GetsOK ==
    \A r \in Requests :
        /\ req[r].pc \in {"read", "found"} =>
             /\ req[r].manifest \in Manifests
             /\ req[r].tag # NoTag => req[r].manifest \in pushed[req[r].tag]
        /\ req[r].pc = "found" => req[r].body = "whole"

(* The inductive invariant.                                                *)
Inv ==
    /\ TypeOK
    /\ PutsOK
    /\ WritersOK
    /\ LinksOK
    /\ TagsOK
    /\ GetsOK

-----------------------------------------------------------------------------

(* What a handler that resumes leaves of the slots.                        *)
LEMMA ResumeRequest ==
    ASSUME NEW r \in Requests, NEW pc \in Pcs, Resume(r, pc),
           req \in [Requests -> Request], gone \subseteq Requests
    PROVE  /\ req' \in [Requests -> Request]
           /\ gone' \subseteq Requests
           /\ req'[r].pc \in {pc, "dropped"}
           /\ req'[r].tag = req[r].tag
           /\ req'[r].manifest = req[r].manifest
           /\ req'[r].link = req[r].link
           /\ req'[r].body = req[r].body
           /\ \A q \in Requests \ {r} : req'[q] = req[q]
<1>1. "dropped" \in Pcs
    BY DEF Pcs, Idle
<1> QED
    BY <1>1 DEF Resume, Request

(* The record of a request that has just come in.                          *)
LEMMA StartRequest ==
    ASSUME NEW r \in Requests, NEW t \in Tags \cup {NoTag},
           NEW m \in Manifests \cup {NoManifest}, NEW pc \in Pcs,
           req \in [Requests -> Request],
           req' = [req EXCEPT ![r] = [Free EXCEPT !.pc       = pc,
                                                  !.tag      = t,
                                                  !.manifest = m]]
    PROVE  /\ req' \in [Requests -> Request]
           /\ req'[r].pc = pc
           /\ req'[r].tag = t
           /\ req'[r].manifest = m
           /\ \A q \in Requests \ {r} : req'[q] = req[q]
<1> DEFINE R == [Free EXCEPT !.pc = pc, !.tag = t, !.manifest = m]
<1>1. R \in Request /\ R.pc = pc /\ R.tag = t /\ R.manifest = m
    BY DEF Free, Request
<1>2. req' = [req EXCEPT ![r] = R]
    OBVIOUS
<1> HIDE DEF R
<1> QED
    BY <1>1, <1>2

LEMMA TypeRequest == TypeOK => req \in [Requests -> Request]
    BY DEF TypeOK, Request, Pcs

LEMMA InitInv == Init => Inv
<1> SUFFICES ASSUME Init PROVE Inv
    OBVIOUS
<1>1. Free \in Request /\ Free.pc = "ready"
    BY DEF Free, Request, Pcs, Idle
<1>2. TypeOK
    BY <1>1 DEF Init, TypeOK, Request, Pcs
<1>3. PutsOK /\ LinksOK /\ GetsOK
    BY <1>1 DEF Init, PutsOK, LinksOK, GetsOK, Putting
<1>4. WritersOK /\ TagsOK
    BY DEF Init, WritersOK, TagsOK
<1> QED
    BY <1>2, <1>3, <1>4 DEF Inv

LEMMA NextInv == Inv /\ [Next]_vars => Inv'
<1> USE ManifestAssumption
<1> SUFFICES ASSUME Inv, [Next]_vars PROVE Inv'
    OBVIOUS
<1>0. req \in [Requests -> Request] /\ gone \subseteq Requests
    BY TypeRequest DEF Inv, TypeOK
<1>1. ASSUME NEW r \in Requests, NEW t \in Tags \cup {NoTag},
             NEW m \in Manifests, PutStart(r, t, m)
      PROVE  Inv'
    <2>1. /\ req' \in [Requests -> Request]
          /\ req'[r].pc = "truncate"
          /\ req'[r].tag = t
          /\ req'[r].manifest = m
          /\ \A q \in Requests \ {r} : req'[q] = req[q]
        BY <1>0, <1>1, StartRequest DEF PutStart, Pcs, Putting
    <2>2. /\ pushed' \in [Tags -> SUBSET Manifests]
          /\ \A s \in Tags : pushed[s] \subseteq pushed'[s]
          /\ t # NoTag => m \in pushed'[t]
        BY <1>1 DEF PutStart, Inv, TypeOK
    <2>3. TypeOK'
        BY <1>1, <2>1, <2>2 DEF PutStart, Inv, TypeOK, Request, Pcs
    <2>4. PutsOK'
        BY <1>0, <1>1, <2>1, <2>2 DEF PutStart, Inv, PutsOK, Putting, Request
    <2>5. WritersOK'
        BY <1>1, <2>1 DEF PutStart, Inv, TypeOK, WritersOK, Idle
    <2>6. LinksOK'
        BY <1>1, <2>1 DEF PutStart, Inv, LinksOK
    <2>7. TagsOK'
        BY <1>1, <2>2 DEF PutStart, Inv, TagsOK
    <2>8. GetsOK'
        BY <1>0, <1>1, <2>1, <2>2 DEF PutStart, Inv, GetsOK, Request
    <2> QED
        BY <2>3, <2>4, <2>5, <2>6, <2>7, <2>8 DEF Inv
<1>2. ASSUME NEW r \in Requests, NEW t \in Tags \cup {NoTag},
             NEW m \in Manifests \cup {NoManifest}, GetStart(r, t, m)
      PROVE  Inv'
    <2>1. /\ req' \in [Requests -> Request]
          /\ req'[r].pc = "open"
          /\ req'[r].tag = t
          /\ req'[r].manifest = m
          /\ \A q \in Requests \ {r} : req'[q] = req[q]
        BY <1>0, <1>2, StartRequest DEF GetStart, Pcs, Getting
    <2>2. TypeOK'
        BY <1>2, <2>1 DEF GetStart, Inv, TypeOK, Request, Pcs
    <2>3. WritersOK'
        BY <1>2, <2>1 DEF GetStart, Inv, TypeOK, WritersOK, Idle
    <2>4. PutsOK' /\ LinksOK' /\ TagsOK' /\ GetsOK'
        BY <1>2, <2>1 DEF GetStart, Inv, PutsOK, LinksOK, TagsOK, GetsOK,
                          Putting
    <2> QED
        BY <2>2, <2>3, <2>4 DEF Inv
<1>3. ASSUME NEW r \in Requests, NEW x \in Uuids, MakeLink(r, x)
      PROVE  Inv'
    <2> DEFINE pc == IF r \in gone THEN "dropped" ELSE "rename"
    <2>1. /\ req' \in [Requests -> Request]
          /\ req'[r].pc \in {"dropped", "rename"}
          /\ req'[r].tag = req[r].tag
          /\ req'[r].manifest = req[r].manifest
          /\ req'[r].link = x
          /\ req[r].pc = "link"
          /\ \A q \in Requests \ {r} : req'[q] = req[q]
        <3>1. {"dropped", "rename"} \subseteq Pcs
            BY DEF Pcs, Idle, Putting
        <3> QED
            BY <1>0, <1>3, <3>1 DEF MakeLink, Request
    <2>2. req[r].manifest \in Manifests
        BY <2>1 DEF Inv, PutsOK, Putting
    <2>3. TypeOK'
        BY <1>3, <2>1, <2>2 DEF MakeLink, Inv, TypeOK, Request, Pcs
    <2>4. PutsOK'
        BY <1>3, <2>1 DEF MakeLink, Inv, PutsOK, Putting
    <2>5. WritersOK'
        BY <1>3, <2>1 DEF MakeLink, Inv, TypeOK, WritersOK
    <2>6. LinksOK'
        BY <1>3, <2>1, <2>2 DEF MakeLink, Inv, TypeOK, LinksOK
    <2>7. TagsOK' /\ GetsOK'
        BY <1>3, <2>1 DEF MakeLink, Inv, TagsOK, GetsOK
    <2> QED
        BY <2>3, <2>4, <2>5, <2>6, <2>7 DEF Inv
<1>4. ASSUME NEW r \in Requests, Truncate(r) PROVE Inv'
    <2> DEFINE m == req[r].manifest
    <2>1. /\ req' \in [Requests -> Request]
          /\ req'[r].pc = "write"
          /\ req'[r].tag = req[r].tag
          /\ req'[r].manifest = m
          /\ req[r].pc = "truncate"
          /\ \A q \in Requests \ {r} : req'[q] = req[q]
        BY <1>0, <1>4 DEF Truncate, Request, Pcs, Putting
    <2>2. m \in Manifests
        BY <2>1 DEF Inv, PutsOK, Putting
    <2>3. TypeOK'
        BY <1>4, <2>1, <2>2 DEF Truncate, Inv, TypeOK, Request, Pcs
    <2>4. \A n \in Manifests : /\ file'[n] = IF n = m THEN "torn" ELSE file[n]
                               /\ writer'[n] = IF n = m THEN r ELSE writer[n]
        BY <1>4, <2>2 DEF Truncate, Inv, TypeOK
    <2>5. PutsOK'
        BY <1>4, <2>1, <2>2, <2>4 DEF Truncate, Inv, PutsOK, Putting
    <2>6. WritersOK'
        BY <1>4, <2>1, <2>2, <2>4 DEF Truncate, Inv, TypeOK, WritersOK
    <2>7. LinksOK' /\ GetsOK'
        BY <1>4, <2>1 DEF Truncate, Inv, LinksOK, GetsOK
    <2>8. TagsOK'
        BY <1>4, <2>4 DEF Truncate, Inv, TypeOK, TagsOK
    <2> QED
        BY <2>3, <2>5, <2>6, <2>7, <2>8 DEF Inv
<1>5. ASSUME NEW r \in Requests, Write(r) PROVE Inv'
    <2> DEFINE m  == req[r].manifest
               pc == IF req[r].tag = NoTag THEN "failed" ELSE "mkdir"
    <2>0. pc \in Pcs /\ (pc = "mkdir" => req[r].tag # NoTag)
        BY DEF Pcs, Idle, Putting
    <2>1. /\ req' \in [Requests -> Request]
          /\ gone' \subseteq Requests
          /\ req'[r].pc \in {pc, "dropped"}
          /\ req'[r].tag = req[r].tag
          /\ req'[r].manifest = m
          /\ req[r].pc = "write"
          /\ \A q \in Requests \ {r} : req'[q] = req[q]
        <3> HIDE DEF pc
        <3>1. Resume(r, pc)
            BY <1>5 DEF Write, pc
        <3> QED
            BY <1>0, <1>5, <2>0, <3>1, ResumeRequest DEF Write
    <2>2. m \in Manifests /\ file[m] # "absent"
        BY <2>1 DEF Inv, PutsOK, Putting
    <2>3. /\ file' \in [Manifests -> {"absent", "torn", "whole"}]
          /\ \A n \in Manifests : file'[n] \in {file[n], "whole"}
          /\ writer[m] = r => file'[m] = "whole"
        BY <1>5, <2>2 DEF Write, Inv, TypeOK
    <2>4. /\ writer' \in [Manifests -> Requests \cup {NoRequest}]
          /\ \A n \in Manifests : writer'[n] = IF n = m /\ writer[m] = r
                                               THEN NoRequest ELSE writer[n]
        BY <1>5, <2>2 DEF Write, Inv, TypeOK
    <2>5. TypeOK'
        BY <1>5, <2>1, <2>3, <2>4 DEF Write, Inv, TypeOK, Request, Pcs
    <2>6. PutsOK'
        BY <1>5, <2>1, <2>2, <2>3 DEF Write, Inv, PutsOK, Putting
    <2>7. WritersOK'
        <3>1. UNCHANGED hurt
            BY <1>5 DEF Write
        <3>2. \A n \in Manifests : writer'[n] # NoRequest =>
                 /\ req'[writer'[n]].pc = "write"
                 /\ req'[writer'[n]].manifest = n
            BY <2>1, <2>2, <2>4 DEF Inv, TypeOK, WritersOK
        <3>3. \A n \in Manifests :
                 file'[n] = "torn" /\ n \notin hurt => writer'[n] # NoRequest
            BY <2>2, <2>3, <2>4 DEF Inv, WritersOK
        <3> QED
            BY <3>1, <3>2, <3>3 DEF WritersOK
    <2>8. LinksOK' /\ GetsOK'
        BY <1>5, <2>1 DEF Write, Inv, LinksOK, GetsOK
    <2>9. TagsOK'
        BY <1>5, <2>3 DEF Write, Inv, TypeOK, TagsOK
    <2> QED
        BY <2>5, <2>6, <2>7, <2>8, <2>9 DEF Inv
<1>6. ASSUME NEW r \in Requests, WriteError(r) PROVE Inv'
    <2> DEFINE m == req[r].manifest
    <2>1. /\ req' \in [Requests -> Request]
          /\ gone' \subseteq Requests
          /\ req'[r].pc \in {"failed", "dropped"}
          /\ req[r].pc = "write"
          /\ \A q \in Requests \ {r} : req'[q] = req[q]
        BY <1>0, <1>6, ResumeRequest DEF WriteError, Fail, Pcs, Idle
    <2>2. m \in Manifests
        BY <2>1 DEF Inv, PutsOK, Putting
    <2>3. /\ writer' \in [Manifests -> Requests \cup {NoRequest}]
          /\ \A n \in Manifests : writer'[n] = IF n = m /\ writer[m] = r
                                               THEN NoRequest ELSE writer[n]
        BY <1>6, <2>2 DEF WriteError, Inv, TypeOK
    <2>4. TypeOK'
        BY <1>6, <2>1, <2>2, <2>3 DEF WriteError, Inv, TypeOK, Request, Pcs
    <2>5. WritersOK'
        BY <1>6, <2>1, <2>2, <2>3 DEF WriteError, Inv, TypeOK, WritersOK
    <2>6. PutsOK' /\ LinksOK' /\ TagsOK' /\ GetsOK'
        BY <1>6, <2>1 DEF WriteError, Inv, PutsOK, LinksOK, TagsOK, GetsOK,
                          Putting
    <2> QED
        BY <2>4, <2>5, <2>6 DEF Inv
<1>7. ASSUME NEW r \in Requests, MakeParent(r) PROVE Inv'
    <2>1. /\ req' \in [Requests -> Request]
          /\ gone' \subseteq Requests
          /\ req'[r].pc \in {"link", "dropped"}
          /\ req'[r].tag = req[r].tag
          /\ req'[r].manifest = req[r].manifest
          /\ req[r].pc = "mkdir"
          /\ \A q \in Requests \ {r} : req'[q] = req[q]
        BY <1>0, <1>7, ResumeRequest DEF MakeParent, Pcs, Putting
    <2>2. TypeOK'
        BY <1>7, <2>1 DEF MakeParent, Inv, TypeOK, Request, Pcs
    <2>3. WritersOK'
        BY <1>7, <2>1 DEF MakeParent, Inv, TypeOK, WritersOK
    <2>4. PutsOK' /\ LinksOK' /\ TagsOK' /\ GetsOK'
        BY <1>7, <2>1 DEF MakeParent, Inv, PutsOK, LinksOK, TagsOK, GetsOK,
                          Putting
    <2> QED
        BY <2>2, <2>3, <2>4 DEF Inv
<1>8. ASSUME NEW r \in Requests, RenameLink(r) PROVE Inv'
    <2> DEFINE t == req[r].tag
               x == req[r].link
    <2>1. /\ req' \in [Requests -> Request]
          /\ gone' \subseteq Requests
          /\ req'[r].pc \in {"created", "dropped"}
          /\ req[r].pc = "rename"
          /\ \A q \in Requests \ {r} : req'[q] = req[q]
        BY <1>0, <1>8, ResumeRequest DEF RenameLink, Pcs, Idle
    <2>2. /\ t \in Tags
          /\ temp[x] = req[r].manifest
          /\ temp[x] \in Manifests
          /\ temp[x] \in pushed[t]
          /\ file[temp[x]] # "absent"
          /\ x \in Uuids
        BY <1>0, <2>1 DEF Inv, TypeOK, PutsOK, LinksOK, Putting, Request
    <2>3. /\ tags' \in [Tags -> Manifests \cup {NoManifest}]
          /\ \A s \in Tags : tags'[s] = IF s = t THEN temp[x] ELSE tags[s]
          /\ temp' \in [Uuids -> Manifests \cup {NoManifest}]
          /\ \A y \in Uuids \ {x} : temp'[y] = temp[y]
        BY <1>8, <2>2 DEF RenameLink, Inv, TypeOK
    <2>4. TypeOK'
        BY <1>8, <2>1, <2>3 DEF RenameLink, Inv, TypeOK, Request, Pcs
    <2>5. PutsOK' /\ GetsOK'
        BY <1>8, <2>1 DEF RenameLink, Inv, PutsOK, GetsOK, Putting
    <2>6. WritersOK'
        <3>1. UNCHANGED <<file, writer, hurt>>
            BY <1>8 DEF RenameLink
        <3> QED
            BY <2>1, <3>1 DEF Inv, TypeOK, WritersOK
    <2>7. LinksOK'
        <3> SUFFICES ASSUME NEW q \in Requests, req'[q].pc = "rename"
                     PROVE  /\ req'[q].link \in used'
                            /\ temp'[req'[q].link] = req'[q].manifest
                            /\ \A p \in Requests \ {q} :
                                  req'[p].pc = "rename"
                                    => req'[p].link # req'[q].link
            BY DEF LinksOK
        <3>1. q # r /\ req'[q] = req[q]
            BY <2>1
        <3>2. req[q].link \in Uuids \ {x}
            BY <2>1, <3>1 DEF Inv, TypeOK, LinksOK
        <3> QED
            BY <1>8, <2>1, <2>3, <3>1, <3>2 DEF RenameLink, Inv, LinksOK
    <2>8. TagsOK'
        BY <1>8, <2>2, <2>3 DEF RenameLink, Inv, TagsOK
    <2> QED
        BY <2>4, <2>5, <2>6, <2>7, <2>8 DEF Inv
<1>9. ASSUME NEW r \in Requests, PutError(r) PROVE Inv'
    <2>1. /\ req' \in [Requests -> Request]
          /\ gone' \subseteq Requests
          /\ req'[r].pc \in {"failed", "dropped"}
          /\ req[r].pc \in Putting \ {"write"}
          /\ \A q \in Requests \ {r} : req'[q] = req[q]
        BY <1>0, <1>9, ResumeRequest DEF PutError, Fail, Pcs, Idle
    <2>2. TypeOK'
        BY <1>9, <2>1 DEF PutError, Inv, TypeOK, Request, Pcs
    <2>3. WritersOK'
        BY <1>9, <2>1 DEF PutError, Inv, TypeOK, WritersOK
    <2>4. PutsOK' /\ LinksOK' /\ TagsOK' /\ GetsOK'
        BY <1>9, <2>1 DEF PutError, Inv, PutsOK, LinksOK, TagsOK, GetsOK,
                          Putting
    <2> QED
        BY <2>2, <2>3, <2>4 DEF Inv
<1>10. ASSUME NEW r \in Requests, GetOpen(r) PROVE Inv'
    <2> DEFINE m == IF req[r].tag = NoTag THEN req[r].manifest
                                          ELSE tags[req[r].tag]
    <2>1. m \in Manifests \cup {NoManifest}
        BY <1>0 DEF Inv, TypeOK, Request
    <2>2. /\ req' \in [Requests -> Request]
          /\ gone' \subseteq Requests
          /\ req'[r].pc \in {"read", "dropped", "missing"}
          /\ req'[r].pc = "read" => m \in Manifests
          /\ req'[r].tag = req[r].tag
          /\ req'[r].manifest = m
          /\ req[r].pc = "open"
          /\ \A q \in Requests \ {r} : req'[q] = req[q]
        <3>1. {"read", "dropped", "missing"} \subseteq Pcs
            BY DEF Pcs, Idle, Getting
        <3> DEFINE found == m \in Manifests /\ file[m] # "absent"
                   pc == CASE found      -> "read"
                           [] r \in gone -> "dropped"
                           [] OTHER      -> "missing"
        <3>2. pc \in {"read", "dropped", "missing"}
              /\ (pc = "read" => m \in Manifests)
            OBVIOUS
        <3>3. req' = [req EXCEPT ![r].manifest = m, ![r].pc = pc]
            BY <1>10 DEF GetOpen
        <3>4. gone' \subseteq Requests /\ req[r].pc = "open"
            BY <1>0, <1>10 DEF GetOpen
        <3> HIDE DEF m, pc
        <3> QED
            BY <1>0, <2>1, <3>1, <3>2, <3>3, <3>4 DEF Request
    <2>3. UNCHANGED <<file, writer, tags, temp, used, pushed, hurt>>
        BY <1>10 DEF GetOpen
    <2>4. req'[r].pc = "read" /\ req[r].tag # NoTag => m \in pushed[req[r].tag]
        <3> SUFFICES ASSUME req'[r].pc = "read", req[r].tag # NoTag
                     PROVE  m \in pushed[req[r].tag]
            OBVIOUS
        <3>1. req[r].tag \in Tags
            BY <1>0 DEF Request
        <3>2. m = tags[req[r].tag] /\ m # NoManifest
            BY <2>2
        <3> HIDE DEF m
        <3> QED
            BY <3>1, <3>2 DEF Inv, TagsOK
    <2> HIDE DEF m
    <2>5. TypeOK'
        BY <2>2, <2>3 DEF Inv, TypeOK, Request, Pcs
    <2>6. GetsOK'
        BY <2>2, <2>3, <2>4 DEF Inv, GetsOK
    <2>7. WritersOK'
        BY <2>2, <2>3 DEF Inv, TypeOK, WritersOK
    <2>8. PutsOK'
        BY <2>2, <2>3 DEF Inv, PutsOK, Putting
    <2>9. LinksOK' /\ TagsOK'
        BY <2>2, <2>3 DEF Inv, LinksOK, TagsOK
    <2> QED
        BY <2>5, <2>6, <2>7, <2>8, <2>9 DEF Inv
<1>11. ASSUME NEW r \in Requests, GetRead(r) PROVE Inv'
    <2>1. /\ req' \in [Requests -> Request]
          /\ gone' \subseteq Requests
          /\ req'[r].pc \in {"dropped", "found", "failed"}
          /\ req'[r].pc = "found" => req'[r].body = "whole"
          /\ req'[r].tag = req[r].tag
          /\ req'[r].manifest = req[r].manifest
          /\ req[r].pc = "read"
          /\ \A q \in Requests \ {r} : req'[q] = req[q]
        <3> DEFINE body == file[req[r].manifest]
                   pc == CASE r \in gone     -> "dropped"
                           [] body = "whole" -> "found"
                           [] OTHER          -> "failed"
        <3>1. {"dropped", "found", "failed"} \subseteq Pcs
            BY DEF Pcs, Idle
        <3>2. pc \in {"dropped", "found", "failed"}
              /\ (pc = "found" => body = "whole")
            OBVIOUS
        <3>3. req' = [req EXCEPT ![r].body = body, ![r].pc = pc]
            BY <1>11 DEF GetRead
        <3>4. gone' \subseteq Requests /\ req[r].pc = "read"
            BY <1>0, <1>11 DEF GetRead
        <3>5. body \in {"absent", "torn", "whole"}
            BY <3>4 DEF Inv, TypeOK, GetsOK
        <3> HIDE DEF body, pc
        <3> QED
            BY <1>0, <3>1, <3>2, <3>3, <3>4, <3>5 DEF Request
    <2>2. UNCHANGED <<file, writer, tags, temp, used, pushed, hurt>>
        BY <1>11 DEF GetRead
    <2>3. TypeOK'
        BY <2>1, <2>2 DEF Inv, TypeOK, Request, Pcs
    <2>4. GetsOK'
        BY <2>1, <2>2 DEF Inv, GetsOK
    <2>5. WritersOK'
        BY <2>1, <2>2 DEF Inv, TypeOK, WritersOK
    <2>6. PutsOK'
        BY <2>1, <2>2 DEF Inv, PutsOK, Putting
    <2>7. LinksOK' /\ TagsOK'
        BY <2>1, <2>2 DEF Inv, LinksOK, TagsOK
    <2> QED
        BY <2>3, <2>4, <2>5, <2>6, <2>7 DEF Inv
<1>12. ASSUME NEW r \in Requests, Disconnect(r) PROVE Inv'
    <2>1. CASE gone' = gone \cup {r} /\ UNCHANGED req
        BY <1>12, <2>1 DEF Disconnect, Inv, TypeOK, PutsOK, WritersOK,
                           LinksOK, TagsOK, GetsOK
    <2>2. CASE /\ req[r].pc \notin {"write", "read"}
               /\ req' = [req EXCEPT ![r].pc = "dropped"]
               /\ UNCHANGED gone
        <3>1. /\ req' \in [Requests -> Request]
              /\ req'[r].pc = "dropped"
              /\ \A q \in Requests \ {r} : req'[q] = req[q]
            BY <1>0, <2>2 DEF Request, Pcs, Idle
        <3>2. TypeOK'
            BY <1>12, <2>2, <3>1 DEF Disconnect, Inv, TypeOK, Request, Pcs
        <3>3. WritersOK'
            BY <1>12, <2>2, <3>1 DEF Disconnect, Inv, TypeOK, WritersOK
        <3>4. PutsOK' /\ LinksOK' /\ TagsOK' /\ GetsOK'
            BY <1>12, <3>1 DEF Disconnect, Inv, PutsOK, LinksOK, TagsOK,
                               GetsOK, Putting
        <3> QED
            BY <3>2, <3>3, <3>4 DEF Inv
    <2> QED
        BY <1>12, <2>1, <2>2 DEF Disconnect
<1>13. CASE Restart
    <2>1. /\ req' \in [Requests -> Request]
          /\ \A r \in Requests : req'[r].pc = "ready"
        <3>1. Free \in Request /\ Free.pc = "ready"
            BY DEF Free, Request, Pcs, Idle
        <3> QED
            BY <1>13, <3>1 DEF Restart
    <2>2. hurt' \subseteq Manifests /\ hurt \subseteq hurt'
        BY <1>13 DEF Restart, Inv, TypeOK, PutsOK, Putting
    <2>3. TypeOK'
        BY <1>13, <2>1, <2>2 DEF Restart, Inv, TypeOK, Request, Pcs
    <2>4. WritersOK'
        <3> SUFFICES ASSUME NEW m \in Manifests, file[m] = "torn",
                            m \notin hurt'
                     PROVE  FALSE
            BY <1>13 DEF Restart, WritersOK
        <3>1. /\ writer[m] \in Requests
              /\ req[writer[m]].pc = "write"
              /\ req[writer[m]].manifest = m
            BY <2>2 DEF Inv, TypeOK, WritersOK
        <3> QED
            BY <1>13, <3>1 DEF Restart
    <2>5. PutsOK' /\ LinksOK' /\ TagsOK' /\ GetsOK'
        BY <1>13, <2>1 DEF Restart, Inv, PutsOK, LinksOK, TagsOK, GetsOK,
                           Putting
    <2> QED
        BY <2>3, <2>4, <2>5 DEF Inv
<1>14. CASE UNCHANGED vars
    BY <1>14 DEF vars, Inv, TypeOK, PutsOK, WritersOK, LinksOK, TagsOK, GetsOK
<1> QED
    BY <1>1, <1>2, <1>3, <1>4, <1>5, <1>6, <1>7, <1>8, <1>9, <1>10, <1>11,
       <1>12, <1>13, <1>14 DEF Next

LEMMA Invariance == Spec => []Inv
    BY InitInv, NextInv, PTL DEF Spec

-----------------------------------------------------------------------------

(* The variables stay in their types, and only a reference that as_tag     *)
(* accepts gets as far as the link: put_manifest makes no link for a       *)
(* digest.                                                                 *)
THEOREM TypeCorrect == Spec => []TypeOK
<1>1. Inv => TypeOK
    BY DEF Inv
<1> QED
    BY <1>1, Invariance, PTL

(* No tag dangles, whatever is pushed, dropped, interrupted or retried:    *)
(* the file of a manifest exists before put_manifest links to it.          *)
THEOREM TagsResolve == Spec => []TagResolves
<1>1. Inv => TagResolves
    BY DEF Inv, TagsOK, TagResolves
<1> QED
    BY <1>1, Invariance, PTL

(* Concurrent PUTs of one manifest truncate each other's file, and still   *)
(* the last of them leaves it whole: only an error or a crash during a     *)
(* write breaks a manifest that is tagged.                                 *)
THEOREM TaggedManifestsAreWhole == Spec => []TaggedIsWhole
<1>1. Inv => TaggedIsWhole
    <2> SUFFICES ASSUME Inv, NEW t \in Tags,
                        tags[t] \in Manifests \ hurt,
                        \A r \in Requests :
                            req[r].pc = "write" => req[r].manifest # tags[t]
                 PROVE  file[tags[t]] = "whole"
        BY DEF TaggedIsWhole
    <2>1. file[tags[t]] # "absent"
        BY ManifestAssumption DEF Inv, TagsOK
    <2>2. file[tags[t]] # "torn"
        BY DEF Inv, TypeOK, WritersOK
    <2> QED
        BY <2>1, <2>2 DEF Inv, TypeOK
<1> QED
    BY <1>1, Invariance, PTL

(* What a GET of a tag answers is a complete manifest that was PUT for     *)
(* that tag.                                                               *)
THEOREM PullsArePushes == Spec => []PulledWasPushed
<1>1. Inv => PulledWasPushed
    BY DEF Inv, GetsOK, PulledWasPushed
<1> QED
    BY <1>1, Invariance, PTL

(* A tag changes only by the rename of a request for that tag, to the      *)
(* manifest of that request, and never to nothing: no two requests use one *)
(* temporary link.                                                         *)
THEOREM TagsReplacedInOneStep == Spec => TagsReplaced
<1> DEFINE Step ==
        \A t \in Tags : tags'[t] # tags[t] =>
            /\ tags'[t] # NoManifest
            /\ \E r \in Requests : /\ req[r].pc = "rename"
                                   /\ req[r].tag = t
                                   /\ req[r].manifest = tags'[t]
<1>1. Inv /\ [Next]_vars => [Step]_vars
    <2> SUFFICES ASSUME Inv, Next, NEW t \in Tags, tags'[t] # tags[t]
                 PROVE  /\ tags'[t] # NoManifest
                        /\ \E r \in Requests : /\ req[r].pc = "rename"
                                               /\ req[r].tag = t
                                               /\ req[r].manifest = tags'[t]
        OBVIOUS
    <2>1. PICK r \in Requests : RenameLink(r)
        BY DEF Next, PutStart, GetStart, MakeLink, Truncate, Write,
               WriteError, MakeParent, PutError, GetOpen, GetRead,
               Disconnect, Restart
    <2>2. /\ req[r].pc = "rename"
          /\ temp[req[r].link] = req[r].manifest
          /\ req[r].manifest \in Manifests
        BY <2>1 DEF RenameLink, Inv, LinksOK, PutsOK, Putting
    <2>3. req[r].tag = t /\ tags'[t] = req[r].manifest
        BY <2>1, <2>2 DEF RenameLink, Inv, TypeOK
    <2> QED
        BY <2>2, <2>3, ManifestAssumption
<1> QED
    BY <1>1, Invariance, PTL DEF Spec, TagsReplaced

=============================================================================
