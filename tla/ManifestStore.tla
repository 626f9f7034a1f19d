---------------------------- MODULE ManifestStore ---------------------------
(***************************************************************************)
(* The manifest half of the container registry: manifest_put and           *)
(* manifest_get of registry.rs on top of the manifests/ and tags/          *)
(* directories of registry/storage.rs.                                     *)
(*                                                                         *)
(* A manifest is identified with its digest, which names its file.  A tag  *)
(* is a symbolic link to such a file, made under a temporary name and      *)
(* renamed.  Every file operation runs on a blocking thread, to its end    *)
(* even if the handler that awaits it is dropped.  Each action is one such *)
(* operation together with the code of the handler that follows it.        *)
(***************************************************************************)
EXTENDS Naturals, FiniteSets

CONSTANTS
    Manifests,    \* manifests that parse, named by their digests
    Tags,         \* repository/image/tag
    Uuids,        \* names of temporary links; bounds the links ever made
    Requests,     \* slots for requests that are served concurrently
    NoManifest, NoTag, NoUuid, NoRequest

ASSUME ManifestAssumption ==
    /\ NoManifest \notin Manifests
    /\ NoTag \notin Tags
    /\ NoUuid \notin Uuids
    /\ NoRequest \notin Requests

VARIABLES
    file,      \* file[m]: the file of m is "absent", "torn" or "whole"
    writer,    \* writer[m]: the unfinished write that truncated it last
    tags,      \* tags[t]: the manifest that the link of tag t names
    temp,      \* temp[x]: the manifest that the temporary link x names
    used,      \* names that temporary links have had
    req,       \* req[r]: the request served in slot r
    gone,      \* slots whose handler was dropped during a file operation
    pushed,    \* history: pushed[t] holds the manifests that were PUT for t
    hurt       \* history: manifests with a write that was cut short

vars == <<file, writer, tags, temp, used, req, gone, pushed, hurt>>

-----------------------------------------------------------------------------

Putting == {"truncate", "write", "mkdir", "link", "rename"}
Getting == {"open", "read"}
Idle    == {"ready", "created", "found", "missing", "failed", "dropped"}

Free == [pc       |-> "ready",
         tag      |-> NoTag,
         manifest |-> NoManifest,
         link     |-> NoUuid,
         body     |-> "absent"]

Init ==
    /\ file   = [m \in Manifests |-> "absent"]
    /\ writer = [m \in Manifests |-> NoRequest]
    /\ tags   = [t \in Tags |-> NoManifest]
    /\ temp   = [x \in Uuids |-> NoManifest]
    /\ used   = {}
    /\ req    = [r \in Requests |-> Free]
    /\ gone   = {}
    /\ pushed = [t \in Tags |-> {}]
    /\ hurt   = {}

(* The handler of r goes on at pc, unless it was dropped.                  *)
Resume(r, pc) ==
    /\ req'  = [req EXCEPT ![r].pc = IF r \in gone THEN "dropped" ELSE pc]
    /\ gone' = gone \ {r}

(* The file operation of r fails, and so does the request.                 *)
Fail(r) == Resume(r, "failed")

-----------------------------------------------------------------------------

(* Mutant of PutStart: the tag is linked before the file is written.       *)
PutStartLinkFirst(r, t, m) ==
    /\ req[r].pc \in Idle
    /\ t # NoTag
    /\ req' = [req EXCEPT ![r] = [Free EXCEPT !.pc       = "mkdir",
                                              !.tag      = t,
                                              !.manifest = m]]
    /\ pushed' = [pushed EXCEPT ![t] = @ \cup {m}]
    /\ UNCHANGED <<file, writer, tags, temp, used, gone, hurt>>

(* PUT of m for a tag, or for a digest when t is NoTag; a manifest that    *)
(* does not parse changes nothing.                                         *)
PutStart(r, t, m) ==
    /\ req[r].pc \in Idle
    /\ req' = [req EXCEPT ![r] = [Free EXCEPT !.pc       = "truncate",
                                              !.tag      = t,
                                              !.manifest = m]]
    /\ pushed' = [s \in Tags |-> IF s = t THEN pushed[s] \cup {m}
                                          ELSE pushed[s]]
    /\ UNCHANGED <<file, writer, tags, temp, used, gone, hurt>>

(* Mutant of Truncate: nobody waits for the bytes.                         *)
TruncateOnly(r) ==
    LET m == req[r].manifest IN
    /\ req[r].pc = "truncate"
    /\ file'   = [file EXCEPT ![m] = "torn"]
    /\ writer' = [writer EXCEPT ![m] = r]
    /\ Resume(r, IF req[r].tag = NoTag THEN "failed" ELSE "mkdir")
    /\ UNCHANGED <<tags, temp, used, pushed, hurt>>

(* tokio::fs::write, first half: the file is created or truncated.         *)
Truncate(r) ==
    LET m == req[r].manifest IN
    /\ req[r].pc = "truncate"
    /\ file'   = [file EXCEPT ![m] = "torn"]
    /\ writer' = [writer EXCEPT ![m] = r]
    /\ req'    = [req EXCEPT ![r].pc = "write"]
    /\ UNCHANGED <<tags, temp, used, gone, pushed, hurt>>

(* Mutant of Write: a digest is taken for a tag.                           *)
WriteAnyReference(r) ==
    LET m == req[r].manifest IN
    /\ req[r].pc = "write"
    /\ \/ file' = [file EXCEPT ![m] = "whole"]
       \/ writer[m] # r /\ UNCHANGED file
    /\ writer' = [writer EXCEPT ![m] = IF @ = r THEN NoRequest ELSE @]
    /\ Resume(r, "mkdir")
    /\ UNCHANGED <<tags, temp, used, pushed, hurt>>

(* tokio::fs::write, second half.  All writers of a file write the same    *)
(* bytes, so the one that truncated last completes it; one before may have *)
(* put its bytes behind a hole.  Afterwards a digest is no tag: an error,  *)
(* with the manifest stored.                                               *)
Write(r) ==
    LET m == req[r].manifest IN
    /\ req[r].pc = "write"
    /\ \/ file' = [file EXCEPT ![m] = "whole"]
       \/ writer[m] # r /\ UNCHANGED file
    /\ writer' = [writer EXCEPT ![m] = IF @ = r THEN NoRequest ELSE @]
    /\ Resume(r, IF req[r].tag = NoTag THEN "failed" ELSE "mkdir")
    /\ UNCHANGED <<tags, temp, used, pushed, hurt>>

(* The write fails half way.                                               *)
WriteError(r) ==
    LET m == req[r].manifest IN
    /\ req[r].pc = "write"
    /\ hurt'   = hurt \cup {m}
    /\ writer' = [writer EXCEPT ![m] = IF @ = r THEN NoRequest ELSE @]
    /\ Fail(r)
    /\ UNCHANGED <<file, tags, temp, used, pushed>>

(* create_dir_all of the tag's parent, which nothing ever removes.         *)
MakeParent(r) ==
    /\ req[r].pc = "mkdir"
    /\ Resume(r, "link")
    /\ UNCHANGED <<file, writer, tags, temp, used, pushed, hurt>>

(* Mutant of MakeLink: every request uses the same name.                   *)
MakeLinkShared(r, x) ==
    /\ req[r].pc = "link"
    /\ used' = used \cup {x}
    /\ temp' = [temp EXCEPT ![x] = req[r].manifest]
    /\ req'  = [req EXCEPT ![r].link = x,
                           ![r].pc = IF r \in gone THEN "dropped"
                                                   ELSE "rename"]
    /\ gone' = gone \ {r}
    /\ UNCHANGED <<file, writer, tags, pushed, hurt>>

(* The link is made under a fresh name.                                    *)
MakeLink(r, x) ==
    /\ req[r].pc = "link"
    /\ x \notin used
    /\ used' = used \cup {x}
    /\ temp' = [temp EXCEPT ![x] = req[r].manifest]
    /\ req'  = [req EXCEPT ![r].link = x,
                           ![r].pc = IF r \in gone THEN "dropped"
                                                   ELSE "rename"]
    /\ gone' = gone \ {r}
    /\ UNCHANGED <<file, writer, tags, pushed, hurt>>

(* The link replaces the one that the tag had; the answer is 201 Created.  *)
RenameLink(r) ==
    LET x == req[r].link IN
    /\ req[r].pc = "rename"
    /\ tags' = [tags EXCEPT ![req[r].tag] = temp[x]]
    /\ temp' = [temp EXCEPT ![x] = NoManifest]
    /\ Resume(r, "created")
    /\ UNCHANGED <<file, writer, used, pushed, hurt>>

(* Opening the file, or one of the later steps, is an error.               *)
PutError(r) ==
    /\ req[r].pc \in Putting \ {"write"}
    /\ Fail(r)
    /\ UNCHANGED <<file, writer, tags, temp, used, pushed, hurt>>

-----------------------------------------------------------------------------

(* GET of a tag, or of a digest when t is NoTag.                           *)
GetStart(r, t, m) ==
    /\ req[r].pc \in Idle
    /\ t = NoTag <=> m # NoManifest
    /\ req' = [req EXCEPT ![r] = [Free EXCEPT !.pc       = "open",
                                              !.tag      = t,
                                              !.manifest = m]]
    /\ UNCHANGED <<file, writer, tags, temp, used, gone, pushed, hurt>>

(* tokio::fs::read, first half: the path is resolved, through the link of  *)
(* a tag, and the file opened.                                             *)
GetOpen(r) ==
    LET m == IF req[r].tag = NoTag THEN req[r].manifest ELSE tags[req[r].tag]
        found == m \in Manifests /\ file[m] # "absent" IN
    /\ req[r].pc = "open"
    /\ req'  = [req EXCEPT ![r].manifest = m,
                           ![r].pc = CASE found         -> "read"
                                       [] r \in gone    -> "dropped"
                                       [] OTHER         -> "missing"]
    /\ gone' = IF found THEN gone ELSE gone \ {r}
    /\ UNCHANGED <<file, writer, tags, temp, used, pushed, hurt>>

(* Mutant of GetRead: what was read is answered unparsed.                  *)
GetReadUnparsed(r) ==
    /\ req[r].pc = "read"
    /\ req'  = [req EXCEPT ![r].body = file[req[r].manifest],
                           ![r].pc = IF r \in gone THEN "dropped"
                                                   ELSE "found"]
    /\ gone' = gone \ {r}
    /\ UNCHANGED <<file, writer, tags, temp, used, pushed, hurt>>

(* tokio::fs::read, second half: whatever the file holds now.  What does   *)
(* not parse as a manifest is an error and not the body of an answer.      *)
GetRead(r) ==
    LET body == file[req[r].manifest] IN
    /\ req[r].pc = "read"
    /\ req'  = [req EXCEPT ![r].body = body,
                           ![r].pc = CASE r \in gone     -> "dropped"
                                       [] body = "whole" -> "found"
                                       [] OTHER          -> "failed"]
    /\ gone' = gone \ {r}
    /\ UNCHANGED <<file, writer, tags, temp, used, pushed, hurt>>

-----------------------------------------------------------------------------

(* The connection breaks and the handler is dropped: before its next file  *)
(* operation, or while a blocking thread works on one.                     *)
Disconnect(r) ==
    /\ req[r].pc \in Putting \cup Getting
    /\ r \notin gone
    /\ \/ /\ gone' = gone \cup {r}
          /\ UNCHANGED req
       \/ /\ req[r].pc \notin {"write", "read"}
          /\ req' = [req EXCEPT ![r].pc = "dropped"]
          /\ UNCHANGED gone
    /\ UNCHANGED <<file, writer, tags, temp, used, pushed, hurt>>

(* The process dies and starts again: the directories stay as they are.    *)
Restart ==
    /\ req'    = [r \in Requests |-> Free]
    /\ gone'   = {}
    /\ writer' = [m \in Manifests |-> NoRequest]
    /\ hurt'   = hurt \cup {req[r].manifest :
                              r \in {q \in Requests : req[q].pc = "write"}}
    /\ UNCHANGED <<file, tags, temp, used, pushed>>

Next ==
    \/ \E r \in Requests, t \in Tags \cup {NoTag}, m \in Manifests :
          PutStart(r, t, m)
    \/ \E r \in Requests, t \in Tags \cup {NoTag},
          m \in Manifests \cup {NoManifest} : GetStart(r, t, m)
    \/ \E r \in Requests, x \in Uuids : MakeLink(r, x)
    \/ \E r \in Requests :
          \/ Truncate(r)
          \/ Write(r)
          \/ WriteError(r)
          \/ MakeParent(r)
          \/ RenameLink(r)
          \/ PutError(r)
          \/ GetOpen(r)
          \/ GetRead(r)
          \/ Disconnect(r)
    \/ Restart

Spec == Init /\ [][Next]_vars

-----------------------------------------------------------------------------

(* Every variable stays in its type, and a handler that makes a link has   *)
(* got past as_tag: its reference is a tag.                                *)
TypeOK ==
    /\ file \in [Manifests -> {"absent", "torn", "whole"}]
    /\ writer \in [Manifests -> Requests \cup {NoRequest}]
    /\ tags \in [Tags -> Manifests \cup {NoManifest}]
    /\ temp \in [Uuids -> Manifests \cup {NoManifest}]
    /\ used \subseteq Uuids
    /\ req \in [Requests -> [pc       : Putting \cup Getting \cup Idle,
                             tag      : Tags \cup {NoTag},
                             manifest : Manifests \cup {NoManifest},
                             link     : Uuids \cup {NoUuid},
                             body     : {"absent", "torn", "whole"}]]
    /\ \A r \in Requests :
          req[r].pc \in {"mkdir", "link", "rename"} => req[r].tag # NoTag
    /\ gone \subseteq Requests
    /\ pushed \in [Tags -> SUBSET Manifests]
    /\ hurt \subseteq Manifests

(* A tag never dangles: put_manifest links to a manifest only after its    *)
(* file exists, and nothing removes one.                                   *)
TagResolves ==
    \A t \in Tags : tags[t] # NoManifest => file[tags[t]] # "absent"

(* A tagged manifest can be pulled whenever nobody is writing it, however  *)
(* many PUTs of it ran at once and truncated each other's file, unless a   *)
(* write of it was cut short by an error or a crash.                       *)
TaggedIsWhole ==
    \A t \in Tags :
        /\ tags[t] \in Manifests \ hurt
        /\ \A r \in Requests :
              req[r].pc = "write" => req[r].manifest # tags[t]
        => file[tags[t]] = "whole"

(* A GET of a tag that is answered 200 carries a complete manifest that    *)
(* some client has PUT for that tag, though put_manifest truncates files   *)
(* that are being read and moves tags between the open and the read.       *)
PulledWasPushed ==
    \A r \in Requests :
        req[r].pc = "found" /\ req[r].tag # NoTag =>
            /\ req[r].body = "whole"
            /\ req[r].manifest \in pushed[req[r].tag]

(* A tag that exists is replaced in one step: it neither disappears, so    *)
(* that a GET would miss it, nor gets a manifest that the request that is  *)
(* being answered did not carry.                                           *)
TagsReplaced ==
    [][\A t \in Tags : tags'[t] # tags[t] =>
          /\ tags'[t] # NoManifest
          /\ \E r \in Requests : /\ req[r].pc = "rename"
                                 /\ req[r].tag = t
                                 /\ req[r].manifest = tags'[t]]_vars

=============================================================================
