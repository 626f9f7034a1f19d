-------------------------- MODULE DeploymentProofs --------------------------
(***************************************************************************)
(* Proofs about Deployment: a push from end to end, with podman as a       *)
(* client of the same server, for every number of locations, images,       *)
(* layers and tasks, every set of configuration files and every client.    *)
(***************************************************************************)
EXTENDS Deployment, OrchestratorProofs, SubsequenceProofs

Asks == {"none", "login", "manifest", "layers", "denied", "missing"}

(* podman asks only while its handler waits for the pull.                  *)
ConvOK ==
    /\ cfg \in {ServerConfig(f) : f \in Files}
    /\ conv \in [Tasks -> [ask : Asks, want : SUBSET Layers]]
    /\ \A t \in Tasks :
          /\ conv[t].ask \in {"login", "manifest"} => task[t].pc = "pull"
          /\ conv[t].ask = "layers" => task[t].pc = "store"
          /\ conv[t].ask \in {"denied", "missing"}
               => task[t].pc \in {"pull", "store"}

(* podman holds the layers of its images, and those that it still wants    *)
(* are all that a pull lacks; there is an image at every stage of a        *)
(* deployment.                                                             *)
LayersOK ==
    /\ \A l \in Locations :
          /\ local[l] # NoImage => LayersOf[local[l]] \subseteq blobs
          /\ l \in Running => /\ containers[l].image # NoImage
                              /\ LayersOf[containers[l].image] \subseteq blobs
    /\ \A t \in Tasks :
          /\ task[t].pc \in {"rm", "pull"} => prod[task[t].loc] # NoImage
          /\ task[t].pc = "store" => task[t].image # NoImage
          /\ task[t].pc = "run" => local[task[t].loc] # NoImage
          /\ conv[t].ask = "layers" =>
               LayersOf[task[t].image] \subseteq blobs \cup conv[t].want

(* A request is served only where the key is not locked, and past the      *)
(* login podman has saved credentials of this key.                         *)
LoginOK ==
    \A t \in Tasks :
        /\ task[t].pc # "idle" => cfg.master_key # {}
        /\ conv[t].ask \in {"manifest", "layers"} => auth = OwnLogin
        /\ conv[t].ask # "denied"

DInv == TypeInv /\ ConvOK /\ LayersOK /\ LoginOK

-----------------------------------------------------------------------------

(* UnverifiedCredentials makes of a client's header the user name and the  *)
(* password that the client put in: a name without a colon, and whatever   *)
(* colons are in the password.                                             *)
THEOREM CredentialsReadBack ==
    ASSUME NEW S, ":" \in S, NEW u \in Seq(S), NEW k \in Seq(S),
           \A i \in 1..Len(u) : u[i] # ":"
    PROVE  UnverifiedCredentials(BasicHeader(u, k))
             = {[username |-> u, password |-> k]}
<1> DEFINE n    == Len(u)
           c    == <<":">>
           head == u \o c
           data == head \o k
<1>1. c \in Seq(S) /\ Len(c) = 1 /\ c[1] = ":"
    OBVIOUS
<1> HIDE DEF c
<1>2. n \in Nat /\ Len(k) \in Nat
    BY LenProperties
<1>3. /\ head \in Seq(S)
      /\ Len(head) = n + 1
      /\ \A i \in 1..(n + 1) : head[i] = IF i <= n THEN u[i] ELSE c[i - n]
    <2>1. /\ head \in Seq(S)
          /\ Len(head) = Len(u) + Len(c)
          /\ \A i \in 1..(Len(u) + Len(c)) :
                head[i] = IF i <= Len(u) THEN u[i] ELSE c[i - Len(u)]
        BY <1>1, ConcatProperties
    <2> HIDE DEF head
    <2> QED
        BY <1>1, <2>1
<1> HIDE DEF head
<1>4. /\ \A i \in 1..n : head[i] = u[i]
      /\ head[n + 1] = ":"
    BY <1>1, <1>2, <1>3
<1>5. /\ data \in Seq(S)
      /\ Len(data) = (n + 1) + Len(k)
      /\ \A i \in 1..((n + 1) + Len(k)) :
            data[i] = IF i <= n + 1 THEN head[i] ELSE k[i - (n + 1)]
    <2>1. /\ data \in Seq(S)
          /\ Len(data) = Len(head) + Len(k)
          /\ \A i \in 1..(Len(head) + Len(k)) :
                data[i] = IF i <= Len(head) THEN head[i]
                                            ELSE k[i - Len(head)]
        BY <1>3, ConcatProperties
    <2> HIDE DEF data, n
    <2> QED
        BY <1>3, <2>1
<1> HIDE DEF data, n
<1>6. /\ DOMAIN data = 1..((n + 1) + Len(k))
      /\ \A i \in 1..n : data[i] = u[i] /\ data[i] # ":"
      /\ data[n + 1] = ":"
      /\ \A i \in 1..Len(k) : data[(n + 1) + i] = k[i]
    <2>1. DOMAIN data = 1..((n + 1) + Len(k))
        BY <1>5, LenProperties
    <2>2. \A i \in 1..n : u[i] # ":"
        BY DEF n
    <2>3. \A i \in 1..n : data[i] = u[i]
        BY <1>2, <1>4, <1>5
    <2>4. data[n + 1] = ":"
        BY <1>2, <1>4, <1>5
    <2>5. ASSUME NEW i \in 1..Len(k) PROVE data[(n + 1) + i] = k[i]
        <3>1. /\ (n + 1) + i \in 1..((n + 1) + Len(k))
              /\ ~((n + 1) + i <= n + 1)
              /\ ((n + 1) + i) - (n + 1) = i
            BY <1>2
        <3> QED
            BY <1>5, <3>1
    <2> QED
        BY <2>1, <2>2, <2>3, <2>4, <2>5
<1>7. Colons(data) # {} /\ Min(Colons(data)) = n + 1
    <2>1. /\ Colons(data) \subseteq Nat
          /\ n + 1 \in Colons(data)
          /\ \A i \in Colons(data) : n + 1 <= i
        BY <1>2, <1>6 DEF Colons
    <2>2. \A x \in Colons(data) :
             (\A y \in Colons(data) : x <= y) => x = n + 1
        BY <1>2, <2>1
    <2> QED
        BY <2>1, <2>2 DEF Min
<1>8. SubSeq(data, 1, n) = u
    <2> DEFINE p == SubSeq(data, 1, n)
    <2>1. \A i \in 1..n : data[i] \in S
        BY <1>2, <1>5, <1>6, ElementOfSeq
    <2>2. /\ p \in Seq(S)
          /\ Len(p) = n
          /\ \A i \in 1..n : p[i] = data[i]
        BY <1>2, <2>1
    <2> HIDE DEF p
    <2>3. Len(p) = Len(u) /\ \A i \in 1..Len(p) : p[i] = u[i]
        BY <1>6, <2>2 DEF n
    <2> QED
        BY <2>2, <2>3, SeqEqual DEF p
<1>9. SubSeq(data, (n + 1) + 1, Len(data)) = k
    <2> DEFINE b == (n + 1) + 1
               p == SubSeq(data, b, Len(data))
    <2>0. b \in Nat /\ Len(data) \in Nat /\ Len(data) - b + 1 = Len(k)
        BY <1>2, <1>5
    <2>1. \A i \in b..Len(data) : data[i] \in S
        BY <1>2, <1>5, <1>6, ElementOfSeq
    <2>2. /\ p \in Seq(S)
          /\ Len(p) = Len(k)
          /\ \A i \in 1..Len(k) : p[i] = data[b + i - 1]
        <3> HIDE DEF b
        <3> QED
            BY <1>2, <2>0, <2>1, SubSeqProperties
    <2>3. \A i \in 1..Len(k) : b + i - 1 = (n + 1) + i
        BY <1>2
    <2> HIDE DEF b, p
    <2>4. \A i \in 1..Len(k) : p[i] = k[i]
        BY <1>6, <2>2, <2>3
    <2> QED
        BY <2>2, <2>4, SeqEqual DEF p, b
<1>10. BasicAuthResponse(data) = [username |-> u, password |-> k]
    <2>1. (n + 1) - 1 = n
        BY <1>2
    <2>2. BasicAuthResponse(data)
            = [username |-> SubSeq(data, 1, (n + 1) - 1),
               password |-> SubSeq(data, (n + 1) + 1, Len(data))]
        BY <1>7 DEF BasicAuthResponse
    <2> QED
        BY <1>8, <1>9, <2>1, <2>2
<1>11. BasicHeader(u, k) = {[scheme |-> "basic", data |-> data]}
    BY DEF BasicHeader, data, head, c
<1> QED
    <2> DEFINE h == [scheme |-> "basic", data |-> data]
    <2>1. h.scheme = "basic" /\ h.data = data
        OBVIOUS
    <2> HIDE DEF h
    <2>2. {g \in BasicHeader(u, k) : g.scheme = "basic"} = {h}
        BY <1>11, <2>1 DEF h
    <2> QED
        BY <1>10, <2>1, <2>2 DEF UnverifiedCredentials

(* So an access map lets in exactly the logins that are in it, under the   *)
(* name that they have there, and a master key whoever knows it.           *)
THEOREM LoginsAreExact ==
    ASSUME NEW S, ":" \in S, NEW u \in Seq(S), NEW k \in Seq(S),
           \A i \in 1..Len(u) : u[i] # ":", NEW map, NEW key
    PROVE  LET creds == UnverifiedCredentials(BasicHeader(u, k))
           IN  /\ AccessChecks(map, creds)
                    <=> [username |-> u, password |-> k] \in map
               /\ MasterKeyChecks(key, creds) <=> k \in key
<1> DEFINE c == [username |-> u, password |-> k]
<1>1. UnverifiedCredentials(BasicHeader(u, k)) = {c}
    BY CredentialsReadBack
<1>2. c.password = k
    OBVIOUS
<1> HIDE DEF c
<1>3. AccessChecks(map, {c}) <=> c \in map
    BY DEF AccessChecks
<1>4. MasterKeyChecks(key, {c}) <=> k \in key
    BY <1>2 DEF MasterKeyChecks
<1> QED
    BY <1>1, <1>3, <1>4 DEF c

(* The server accepts the login of its own orchestrator, whatever its key. *)
LEMMA OwnLoginIsValid ==
    ASSUME ConvOK, cfg.master_key # {}
    PROVE  ValidUser(OwnLogin)
<1> DEFINE key == cfg.master_key
           k   == AsSecretString(key)
           S   == STRING \cup {":", "rockslide-podman"}
<1>1. key \subseteq Seq(STRING)
    BY DeploymentAssumption DEF ConvOK, ServerConfig
<1>2. k \in key
    BY DEF AsSecretString
<1>3. k \in Seq(S)
    <2> HIDE DEF k, key
    <2>1. STRING \subseteq S
        OBVIOUS
    <2> HIDE DEF S
    <2> QED
        BY <1>1, <1>2, <2>1, SeqMonotonic
<1>4. MasterKeyChecks(key, UnverifiedCredentials(OwnLogin))
    <2> HIDE DEF k, key
    <2> DEFINE u == <<"rockslide-podman">>
    <2>1. ":" \in S /\ u \in Seq(S) /\ \A i \in 1..Len(u) : u[i] # ":"
        OBVIOUS
    <2>2. OwnLogin = BasicHeader(u, k)
        BY DEF OwnLogin, k, key
    <2> HIDE DEF S, u
    <2> QED
        BY <1>2, <1>3, <2>1, <2>2, LoginsAreExact
<1> QED
    BY <1>4 DEF ValidUser

-----------------------------------------------------------------------------

(* Every step of a deployment is one of the orchestrator, or hidden from   *)
(* it, except a pull that podman gives up by itself.                       *)
LEMMA StepOfOrchestrator ==
    ASSUME [DeployNext]_dvars
    PROVE  [Next]_vars \/ \E t \in Tasks : PullError(t)
<1>1. CASE UNCHANGED dvars
    BY <1>1 DEF dvars, svars
<1>2. CASE Die
    BY <1>2 DEF Die, Next
<1>3. ASSUME NEW l \in Locations, Exit(l) PROVE Next
    BY <1>3 DEF Exit, Next
<1>4. ASSUME NEW t \in Tasks, Failure(t) \/ Drop(t) PROVE Next
    BY <1>4 DEF Failure, Drop, Next
<1>5. CASE Undisturbed
    <2>1. ASSUME NEW f \in Files, Start(f) PROVE Next
        BY <2>1 DEF Start, Next
    <2>2. CASE StartupRefresh
        BY <2>2 DEF Next
    <2>3. ASSUME NEW b \in Layers, BlobPut(b) PROVE UNCHANGED vars
        BY <2>3 DEF BlobPut
    <2>4. ASSUME NEW t \in Tasks, NEW l \in Locations, NEW ref \in Tags,
                 NEW i \in Images, ManifestPut(t, l, ref, i)
          PROVE  Next
        BY <2>4 DEF ManifestPut, Next
    <2>5. ASSUME NEW t \in Tasks, NEW l \in Locations, NEW c \in Configs,
                 ConfigPut(t, l, c)
          PROVE  Next
        BY <2>5 DEF ConfigPut, Next
    <2>6. ASSUME NEW t \in Tasks, Step(t)
          PROVE  [Next]_vars \/ PullError(t)
        <3>1. CASE RemoveOld(t)
            BY <3>1 DEF RemoveOld, Next
        <3>2. CASE IndexV2(t)
            BY <3>2 DEF IndexV2
        <3>3. CASE ManifestGet(t)
            BY <3>3 DEF ManifestGet, Next
        <3>4. CASE \E b \in Layers : BlobGet(t, b)
            BY <3>4 DEF BlobGet
        <3>5. CASE PullDone(t)
            BY <3>5 DEF PullDone, Next
        <3>6. CASE Run(t)
            BY <3>6 DEF Run, Next
        <3>7. CASE Refresh(t)
            BY <3>7 DEF Refresh, Next
        <3>8. CASE WriteConfig(t)
            BY <3>8 DEF WriteConfig, Next
        <3> QED
            BY <2>6, <3>1, <3>2, <3>3, <3>4, <3>5, <3>6, <3>7, <3>8 DEF Step
    <2> QED
        BY <1>5, <2>1, <2>2, <2>3, <2>4, <2>5, <2>6 DEF Undisturbed
<1> QED
    BY <1>1, <1>2, <1>3, <1>4, <1>5 DEF DeployNext

LEMMA DeployTypeInv == TypeInv /\ ConvOK /\ [DeployNext]_dvars => TypeInv'
<1> SUFFICES ASSUME TypeInv, ConvOK, [DeployNext]_dvars PROVE TypeInv'
    OBVIOUS
<1>1. CASE [Next]_vars
    BY <1>1, NextTypeInv
<1>2. ASSUME NEW t \in Tasks, PullError(t) PROVE TypeInv'
    <2>1. task[t].pc \in {"pull", "store"}
        BY <1>2 DEF PullError, PullFails, ConvOK
    <2>2. task' \in [Tasks -> TaskSet] /\ TasksOK'
        BY <1>2, <2>1, MoveTypeInv DEF PullError, PodmanFails, Serving, Late
    <2> QED
        BY <1>2, <2>2
           DEF PullError, PodmanFails, TypeInv, TypeOK, TaskSet
<1> QED
    BY <1>1, <1>2, StepOfOrchestrator

(* What podman's next question leaves of the conversations.                *)
LEMMA AskConv ==
    ASSUME ConvOK, NEW t \in Tasks, NEW what \in Asks, Ask(t, what)
    PROVE  /\ conv' \in [Tasks -> [ask : Asks, want : SUBSET Layers]]
           /\ conv'[t].ask = what
           /\ \A s \in Tasks \ {t} : conv'[s] = conv[s]
    BY DEF Ask, ConvOK

(* A step of a handler that neither deploys nor pulls keeps the invariant. *)
LEMMA EaseDInv ==
    ASSUME DInv, TypeInv', NEW t \in Tasks,
           UNCHANGED <<prod, local, containers, cfg, auth, blobs>>,
           \A s \in Tasks \ {t} : task'[s] = task[s] /\ conv'[s] = conv[s],
           conv' \in [Tasks -> [ask : Asks, want : SUBSET Layers]],
           conv'[t].ask = "none",
           task'[t].pc \notin Deploying,
           task[t].pc # "idle"
    PROVE  DInv'
<1>1. ConvOK'
    BY DEF DInv, ConvOK, ServerConfig, DefaultHttpBind
<1>2. LayersOK'
    <2>1. \A s \in Tasks :
             /\ task'[s].pc \in {"rm", "pull"} => prod'[task'[s].loc] # NoImage
             /\ task'[s].pc = "store" => task'[s].image # NoImage
             /\ task'[s].pc = "run" => local'[task'[s].loc] # NoImage
             /\ conv'[s].ask = "layers" =>
                  LayersOf[task'[s].image] \subseteq blobs' \cup conv'[s].want
        BY DEF DInv, LayersOK, Deploying
    <2>2. \A l \in Locations :
             /\ local'[l] # NoImage => LayersOf[local'[l]] \subseteq blobs'
             /\ l \in Running' =>
                  /\ containers'[l].image # NoImage
                  /\ LayersOf[containers'[l].image] \subseteq blobs'
        BY DEF DInv, LayersOK, Running
    <2> QED
        BY <2>1, <2>2 DEF LayersOK
<1>3. LoginOK'
    BY DEF DInv, LoginOK, OwnLogin
<1> QED
    BY <1>1, <1>2, <1>3 DEF DInv

LEMMA InitDInv == DeployInit => DInv
<1> SUFFICES ASSUME DeployInit PROVE DInv
    OBVIOUS
<1>1. TypeInv
    BY InitTypeInv DEF DeployInit
<1>2. /\ \A t \in Tasks : task[t].pc = "idle" /\ conv[t].ask = "none"
      /\ conv \in [Tasks -> [ask : Asks, want : SUBSET Layers]]
    BY NoTaskType DEF DeployInit, Init, NoConv, Asks
<1>3. ConvOK
    BY <1>2 DEF DeployInit, ConvOK
<1>4. LayersOK
    BY <1>2 DEF DeployInit, Init, LayersOK, Running
<1>5. LoginOK
    BY <1>2 DEF LoginOK
<1> QED
    BY <1>1, <1>3, <1>4, <1>5 DEF DInv

(* A server that accepts a request has a key.                              *)
LEMMA ValidUserKey ==
    ASSUME \E h \in Headers : ValidUser(h) PROVE cfg.master_key # {}
    BY DEF ValidUser, MasterKeyChecks

LEMMA NextDInv == DInv /\ [DeployNext]_dvars => DInv'
<1> USE OrchestratorAssumption, DeploymentAssumption
<1> SUFFICES ASSUME DInv, [DeployNext]_dvars PROVE DInv'
    OBVIOUS
<1>0. /\ TypeInv /\ TypeOK /\ TasksOK /\ task \in [Tasks -> TaskSet]
      /\ ConvOK /\ LayersOK /\ LoginOK
      /\ TypeInv'
    BY TypeTask, DeployTypeInv DEF DInv, TypeInv
<1>1. ASSUME NEW f \in Files, Start(f) PROVE DInv'
    <2>1. \A t \in Tasks : task[t].pc = "idle"
        BY <1>0, <1>1 DEF Start, StartupSync, TasksOK
    <2>2. \A t \in Tasks : conv[t].ask = "none"
        BY <1>0, <2>1 DEF ConvOK, Asks
    <2>3. UNCHANGED <<containers, prod, local, task, conv, blobs>>
        BY <1>0, <1>1, TagNames DEF Start, StartupSync, TypeOK
    <2>4. ConvOK' /\ LoginOK'
        BY <1>0, <1>1, <2>1, <2>2, <2>3 DEF Start, ConvOK, LoginOK
    <2>5. LayersOK'
        BY <1>0, <2>3 DEF LayersOK, Running
    <2> QED
        BY <1>0, <2>4, <2>5 DEF DInv
<1>2. CASE StartupRefresh /\ UNCHANGED registry
    <2>1. UNCHANGED <<containers, prod, local, task, conv, blobs, cfg, auth>>
        BY <1>2 DEF StartupRefresh, registry
    <2> QED
        BY <1>0, <2>1 DEF DInv, ConvOK, LayersOK, LoginOK, Running, OwnLogin
<1>3. ASSUME NEW b \in Layers, BlobPut(b) PROVE DInv'
    <2>1. /\ UNCHANGED <<containers, prod, local, task, conv, cfg, auth>>
          /\ blobs \subseteq blobs'
        BY <1>3 DEF BlobPut, vars
    <2>2. ConvOK' /\ LoginOK'
        BY <1>0, <2>1 DEF ConvOK, LoginOK, OwnLogin
    <2>3. LayersOK'
        BY <1>0, <2>1 DEF LayersOK, Running
    <2> QED
        BY <1>0, <2>2, <2>3 DEF DInv
<1>4. ASSUME NEW t \in Tasks, NEW l \in Locations, NEW ref \in Tags,
             NEW i \in Images, ManifestPut(t, l, ref, i)
      PROVE  DInv'
    <2>1. /\ Push(t, l, ref, i)
          /\ cfg.master_key # {}
          /\ UNCHANGED <<local, containers, cfg, auth, blobs, conv>>
        BY <1>4, ValidUserKey DEF ManifestPut, Push
    <2>2. /\ task[t].pc = "idle"
          /\ task'[t].pc = IF ref = Prod THEN "rm" ELSE "ps"
          /\ task'[t].loc = l
          /\ \A s \in Tasks \ {t} : task'[s] = task[s]
        BY <1>0, <2>1, PushTask
    <2>3. conv[t].ask = "none"
        BY <1>0, <2>2 DEF ConvOK, Asks
    <2>4. /\ \A m \in Locations : prod[m] # NoImage => prod'[m] # NoImage
          /\ ref = Prod => prod'[l] # NoImage
        BY <1>0, <2>1 DEF Push, TypeOK
    <2>5. ConvOK'
        BY <1>0, <2>1, <2>2, <2>3 DEF ConvOK
    <2>6. LayersOK'
        <3>1. \A s \in Tasks :
                 task'[s].pc \in {"rm", "pull"} => prod'[task'[s].loc] # NoImage
            BY <1>0, <2>2, <2>4 DEF LayersOK, TasksOK
        <3> QED
            BY <1>0, <2>1, <2>2, <2>3, <3>1 DEF LayersOK, Running
    <2>7. LoginOK'
        BY <1>0, <2>1, <2>2, <2>3 DEF LoginOK, OwnLogin
    <2> QED
        BY <1>0, <2>5, <2>6, <2>7 DEF DInv
<1>5. ASSUME NEW t \in Tasks, NEW l \in Locations, NEW c \in Configs,
             ConfigPut(t, l, c)
      PROVE  DInv'
    <2>1. /\ PutConfig(t, l, c)
          /\ cfg.master_key # {}
          /\ UNCHANGED <<prod, local, containers, cfg, auth, blobs, conv>>
        BY <1>5, ValidUserKey DEF ConfigPut, PutConfig, registry
    <2>2. /\ task[t].pc = "idle"
          /\ task'[t].pc = "truncate"
          /\ \A s \in Tasks \ {t} : task'[s] = task[s]
        BY <1>0, <2>1, PutConfigTask
    <2>3. conv[t].ask = "none"
        BY <1>0, <2>2 DEF ConvOK, Asks
    <2>4. ConvOK' /\ LoginOK'
        BY <1>0, <2>1, <2>2, <2>3 DEF ConvOK, LoginOK, OwnLogin
    <2>5. LayersOK'
        BY <1>0, <2>1, <2>2, <2>3 DEF LayersOK, Running
    <2> QED
        BY <1>0, <2>4, <2>5 DEF DInv
<1>6. ASSUME NEW t \in Tasks, RemoveOld(t) PROVE DInv'
    <2>1. /\ task[t].pc = "rm"
          /\ task'[t].pc = "pull"
          /\ task'[t].loc = task[t].loc
          /\ task[t].loc \in Locations
          /\ \A s \in Tasks \ {t} : task'[s] = task[s]
        BY <1>0, <1>6, MoveTask
           DEF RemoveOld, PodmanRm, Serving, Deploying, TasksOK
    <2>2. /\ conv' \in [Tasks -> [ask : Asks, want : SUBSET Layers]]
          /\ conv'[t].ask = "login"
          /\ \A s \in Tasks \ {t} : conv'[s] = conv[s]
        BY <1>0, <1>6, AskConv DEF RemoveOld, Asks
    <2>3. /\ UNCHANGED <<prod, local, cfg, auth, blobs>>
          /\ \A l \in Locations : containers'[l] \in {containers[l], NoContainer}
        BY <1>0, <1>6 DEF RemoveOld, PodmanRm, TypeOK
    <2>4. ConvOK' /\ LoginOK'
        BY <1>0, <2>1, <2>2, <2>3 DEF ConvOK, LoginOK, OwnLogin
    <2>5. LayersOK'
        BY <1>0, <2>1, <2>2, <2>3 DEF LayersOK, Running
    <2> QED
        BY <1>0, <2>4, <2>5 DEF DInv
<1>7. ASSUME NEW t \in Tasks, IndexV2(t) PROVE DInv'
    <2>1. /\ conv[t].ask = "login"
          /\ task[t].pc = "pull"
          /\ cfg.master_key # {}
          /\ UNCHANGED <<task, prod, local, containers, cfg, blobs>>
        BY <1>0, <1>7 DEF IndexV2, ConvOK, LoginOK, vars
    <2>2. Ask(t, "manifest") /\ auth' = OwnLogin
        BY <1>0, <1>7, <2>1, OwnLoginIsValid DEF IndexV2
    <2>3. /\ conv' \in [Tasks -> [ask : Asks, want : SUBSET Layers]]
          /\ conv'[t].ask = "manifest"
          /\ \A s \in Tasks \ {t} : conv'[s] = conv[s]
        BY <1>0, <2>2, AskConv DEF Asks
    <2>4. OwnLogin' = OwnLogin
        BY <2>1 DEF OwnLogin
    <2>5. ConvOK'
        BY <1>0, <2>1, <2>3 DEF ConvOK
    <2>6. LoginOK'
        BY <1>0, <2>1, <2>2, <2>3, <2>4 DEF LoginOK
    <2>7. LayersOK'
        BY <1>0, <2>1, <2>3 DEF LayersOK, Running
    <2> QED
        BY <1>0, <2>5, <2>6, <2>7 DEF DInv
<1>8. ASSUME NEW t \in Tasks, ManifestGet(t) PROVE DInv'
    <2> DEFINE i    == prod[task[t].loc]
               held == UNION {LayersOf[j] : j \in {local[l] : l \in Locations}
                                                    \ {NoImage}}
               C    == [ask |-> "layers", want |-> LayersOf[i] \ held]
    <2>1. /\ conv[t].ask = "manifest"
          /\ task[t].pc = "pull"
          /\ cfg.master_key # {}
          /\ ValidUser(auth)
        <3>1. conv[t].ask = "manifest" /\ task[t].pc = "pull"
            BY <1>0, <1>8 DEF ManifestGet, ConvOK
        <3>2. cfg.master_key # {} /\ auth = OwnLogin
            BY <1>0, <3>1 DEF LoginOK
        <3> QED
            BY <1>0, <3>1, <3>2, OwnLoginIsValid
    <2>2. PodmanPull(t) /\ conv' = [conv EXCEPT ![t] = C]
        BY <1>8, <2>1 DEF ManifestGet
    <2>3. UNCHANGED <<prod, local, containers, cfg, auth, blobs>>
        BY <1>8, <2>2 DEF ManifestGet, PodmanPull
    <2>4. /\ i \in Images
          /\ task'[t].pc = "store"
          /\ task'[t].image = i
          /\ \A s \in Tasks \ {t} : task'[s] = task[s]
        BY <1>0, <2>1, <2>2, PullTask DEF LayersOK, TasksOK, TypeOK
    <2>5. held \subseteq blobs
        BY <1>0 DEF LayersOK
    <2>6. /\ C.ask = "layers"
          /\ C.want = LayersOf[i] \ held
          /\ C \in [ask : Asks, want : SUBSET Layers]
        BY <2>4 DEF Asks
    <2> HIDE DEF C, i, held
    <2>7. /\ conv' \in [Tasks -> [ask : Asks, want : SUBSET Layers]]
          /\ conv'[t] = C
          /\ \A s \in Tasks \ {t} : conv'[s] = conv[s]
        BY <1>0, <2>2, <2>6 DEF ConvOK
    <2>8. ConvOK'
        BY <1>0, <2>3, <2>4, <2>6, <2>7 DEF ConvOK
    <2>9. LoginOK'
        BY <1>0, <2>1, <2>3, <2>4, <2>6, <2>7 DEF LoginOK, OwnLogin
    <2>10. LayersOK'
        <3>1. /\ LayersOf[task'[t].image] \subseteq blobs' \cup conv'[t].want
              /\ task'[t].image # NoImage
            BY <2>3, <2>4, <2>5, <2>6, <2>7
        <3> QED
            BY <1>0, <2>3, <2>4, <2>7, <3>1 DEF LayersOK, Running
    <2> QED
        BY <1>0, <2>8, <2>9, <2>10 DEF DInv
<1>9. ASSUME NEW t \in Tasks, NEW b \in Layers, BlobGet(t, b) PROVE DInv'
    <2>1. /\ conv[t].ask = "layers"
          /\ task[t].pc = "store"
          /\ cfg.master_key # {}
          /\ auth = OwnLogin
          /\ UNCHANGED <<task, prod, local, containers, cfg, auth, blobs>>
        BY <1>0, <1>9 DEF BlobGet, ConvOK, LoginOK, vars
    <2>2. ValidUser(auth)
        BY <1>0, <2>1, OwnLoginIsValid
    <2>3. CASE b \in blobs
        <3>1. conv' = [conv EXCEPT ![t].want = @ \ {b}]
            BY <1>9, <2>2, <2>3 DEF BlobGet
        <3>2. /\ conv' \in [Tasks -> [ask : Asks, want : SUBSET Layers]]
              /\ conv'[t].ask = "layers"
              /\ conv'[t].want = conv[t].want \ {b}
              /\ \A s \in Tasks \ {t} : conv'[s] = conv[s]
            BY <1>0, <2>1, <3>1 DEF ConvOK
        <3>3. ConvOK' /\ LoginOK'
            BY <1>0, <2>1, <3>2 DEF ConvOK, LoginOK, OwnLogin
        <3>4. LayersOK'
            <4>1. LayersOf[task[t].image] \subseteq blobs \cup conv'[t].want
                BY <1>0, <2>1, <2>3, <3>2 DEF LayersOK
            <4> QED
                BY <1>0, <2>1, <3>2, <4>1 DEF LayersOK, Running
        <3> QED
            BY <1>0, <3>3, <3>4 DEF DInv
    <2>4. CASE b \notin blobs
        <3>1. Ask(t, "missing")
            BY <1>9, <2>2, <2>4 DEF BlobGet
        <3>2. /\ conv' \in [Tasks -> [ask : Asks, want : SUBSET Layers]]
              /\ conv'[t].ask = "missing"
              /\ \A s \in Tasks \ {t} : conv'[s] = conv[s]
            BY <1>0, <3>1, AskConv DEF Asks
        <3>3. ConvOK' /\ LoginOK'
            BY <1>0, <2>1, <3>2 DEF ConvOK, LoginOK, OwnLogin
        <3>4. LayersOK'
            BY <1>0, <2>1, <3>2 DEF LayersOK, Running
        <3> QED
            BY <1>0, <3>3, <3>4 DEF DInv
    <2> QED
        BY <2>3, <2>4
<1>10. ASSUME NEW t \in Tasks, PullDone(t) PROVE DInv'
    <2>1. /\ task[t].pc = "store"
          /\ task'[t].pc = "run"
          /\ task'[t].loc = task[t].loc
          /\ task[t].loc \in Locations
          /\ \A s \in Tasks \ {t} : task'[s] = task[s]
        BY <1>0, <1>10, MoveTask
           DEF PullDone, PodmanStore, Serving, Deploying, TasksOK
    <2>2. /\ conv' \in [Tasks -> [ask : Asks, want : SUBSET Layers]]
          /\ conv'[t].ask = "none"
          /\ \A s \in Tasks \ {t} : conv'[s] = conv[s]
        BY <1>0, <1>10, AskConv DEF PullDone, Asks
    <2>3. /\ task[t].image # NoImage
          /\ LayersOf[task[t].image] \subseteq blobs
        BY <1>0, <1>10, <2>1 DEF PullDone, LayersOK
    <2>4. /\ UNCHANGED <<prod, containers, cfg, auth, blobs>>
          /\ \A l \in Locations : local'[l] = IF l = task[t].loc
                                              THEN task[t].image ELSE local[l]
        BY <1>0, <1>10, <2>1 DEF PullDone, PodmanStore, TypeOK
    <2>5. ConvOK' /\ LoginOK'
        <3>1. ConvOK'
            BY <1>0, <2>1, <2>2, <2>4 DEF ConvOK
        <3>2. LoginOK'
            BY <1>0, <2>1, <2>2, <2>4 DEF LoginOK, OwnLogin
        <3> QED
            BY <3>1, <3>2
    <2>6. LayersOK'
        <3>1. \A s \in Tasks : task'[s].pc = "run" =>
                                 local'[task'[s].loc] # NoImage
            BY <1>0, <2>1, <2>3, <2>4 DEF LayersOK, TasksOK
        <3>2. \A l \in Locations :
                 local'[l] # NoImage => LayersOf[local'[l]] \subseteq blobs'
            BY <1>0, <2>3, <2>4 DEF LayersOK
        <3> QED
            BY <1>0, <2>1, <2>2, <2>4, <3>1, <3>2 DEF LayersOK, Running
    <2> QED
        BY <1>0, <2>5, <2>6 DEF DInv
<1>11. ASSUME NEW t \in Tasks, PullError(t) PROVE DInv'
    <2>1. task[t].pc \in {"pull", "store"}
        BY <1>0, <1>11 DEF PullError, PullFails, ConvOK
    <2>2. /\ task'[t].pc = "ps"
          /\ \A s \in Tasks \ {t} : task'[s] = task[s]
        BY <1>0, <1>11, MoveTask DEF PullError, PodmanFails, Serving
    <2>3. /\ conv' \in [Tasks -> [ask : Asks, want : SUBSET Layers]]
          /\ conv'[t].ask = "none"
          /\ \A s \in Tasks \ {t} : conv'[s] = conv[s]
        BY <1>0, <1>11, AskConv DEF PullError, Asks
    <2>4. UNCHANGED <<prod, local, containers, cfg, auth, blobs>>
        BY <1>11 DEF PullError, PodmanFails
    <2> QED
        BY <1>0, <2>1, <2>2, <2>3, <2>4, EaseDInv DEF Deploying
<1>12. ASSUME NEW t \in Tasks, Run(t) PROVE DInv'
    <2> DEFINE l == task[t].loc
    <2>1. /\ task[t].pc = "run"
          /\ task'[t].pc = "ps"
          /\ l \in Locations
          /\ local[l] # NoImage
          /\ \A s \in Tasks \ {t} : task'[s] = task[s]
        BY <1>0, <1>12, MoveTask DEF Run, PodmanRun, Serving, TasksOK, LayersOK
    <2>2. /\ UNCHANGED <<prod, local, cfg, auth, blobs, conv>>
          /\ containers'[l].image = local[l]
          /\ \A m \in Locations \ {l} : containers'[m] = containers[m]
        BY <1>0, <1>12, <2>1 DEF Run, PodmanRun, TypeOK
    <2>3. conv[t].ask = "none"
        BY <1>0, <2>1 DEF ConvOK, Asks
    <2>4. ConvOK' /\ LoginOK'
        BY <1>0, <2>1, <2>2, <2>3 DEF ConvOK, LoginOK, OwnLogin
    <2>5. LayersOK'
        <3>1. \A m \in Locations : m \in Running' =>
                 /\ containers'[m].image # NoImage
                 /\ LayersOf[containers'[m].image] \subseteq blobs
            BY <1>0, <2>1, <2>2 DEF LayersOK, Running
        <3> QED
            BY <1>0, <2>1, <2>2, <2>3, <3>1 DEF LayersOK
    <2> QED
        BY <1>0, <2>4, <2>5 DEF DInv
<1>13. ASSUME NEW t \in Tasks, Refresh(t) PROVE DInv'
    <2>1. /\ task[t].pc \in {"ps", "load", "swap"}
          /\ UNCHANGED <<prod, local, containers, cfg, auth, blobs, conv>>
        BY <1>13 DEF Refresh, RefreshList, RefreshLoad, RefreshSwap, registry
    <2>2. /\ task'[t].pc \in {"load", "swap", "idle"}
          /\ \A s \in Tasks \ {t} : task'[s] = task[s]
        <3>1. CASE RefreshList(t)
            BY <1>0, <3>1, ListTask
        <3>2. ASSUME NEW l \in Locations, RefreshLoad(t, l)
              PROVE  /\ task'[t].pc \in {"load", "swap", "idle"}
                     /\ \A s \in Tasks \ {t} : task'[s] = task[s]
            BY <1>0, <3>2, LoadTask
        <3>3. CASE RefreshSwap(t)
            BY <1>0, <3>3, EndTask DEF RefreshSwap
        <3> QED
            BY <1>13, <3>1, <3>2, <3>3 DEF Refresh
    <2>3. conv[t].ask = "none"
        BY <1>0, <2>1 DEF ConvOK, Asks
    <2>4. conv' \in [Tasks -> [ask : Asks, want : SUBSET Layers]]
        BY <1>0, <2>1 DEF ConvOK
    <2> QED
        BY <1>0, <2>1, <2>2, <2>3, <2>4, EaseDInv DEF Deploying
<1>14. ASSUME NEW t \in Tasks, WriteConfig(t) PROVE DInv'
    <2>1. /\ task[t].pc \in {"truncate", "write", "verify"} \cup Late
          /\ UNCHANGED <<prod, local, containers, cfg, auth, blobs, conv>>
        BY <1>14
           DEF WriteConfig, ConfigTruncate, ConfigWrite, ConfigVerify,
               registry, Late
    <2>2. /\ task'[t].pc \notin Deploying
          /\ \A s \in Tasks \ {t} : task'[s] = task[s]
        <3>1. \/ End(t)
              \/ \E pc \in {"write", "late_write", "verify", "ps"} : Move(t, pc)
            BY <1>14 DEF WriteConfig, ConfigTruncate, ConfigWrite, ConfigVerify
        <3> QED
            BY <1>0, <3>1, MoveTask, EndTask DEF Serving, Late, Deploying
    <2>3. task[t].pc # "idle" /\ conv[t].ask = "none"
        BY <1>0, <2>1 DEF ConvOK, Asks, Late
    <2>4. conv' \in [Tasks -> [ask : Asks, want : SUBSET Layers]]
        BY <1>0, <2>1 DEF ConvOK
    <2> QED
        BY <1>0, <2>1, <2>2, <2>3, <2>4, EaseDInv
<1>15. CASE Die
    <2>1. /\ \A t \in Tasks : task'[t].pc = "idle" /\ conv'[t].ask = "none"
          /\ conv' \in [Tasks -> [ask : Asks, want : SUBSET Layers]]
          /\ UNCHANGED <<prod, local, containers, cfg, auth, blobs>>
        BY <1>15, NoTaskType DEF Die, Crash, NoConv, Asks
    <2>2. ConvOK' /\ LoginOK'
        BY <1>0, <2>1 DEF ConvOK, LoginOK
    <2>3. LayersOK'
        BY <1>0, <2>1 DEF LayersOK, Running
    <2> QED
        BY <1>0, <2>2, <2>3 DEF DInv
<1>16. ASSUME NEW l \in Locations, Exit(l) PROVE DInv'
    <2>1. /\ UNCHANGED <<task, prod, local, cfg, auth, blobs, conv>>
          /\ \A m \in Locations : containers'[m] \in {containers[m], NoContainer}
        BY <1>0, <1>16 DEF Exit, ContainerExit, TypeOK
    <2>2. ConvOK' /\ LoginOK'
        BY <1>0, <2>1 DEF ConvOK, LoginOK, OwnLogin
    <2>3. LayersOK'
        BY <1>0, <2>1 DEF LayersOK, Running
    <2> QED
        BY <1>0, <2>2, <2>3 DEF DInv
<1>17. ASSUME NEW t \in Tasks, Failure(t) PROVE DInv'
    <2>1. /\ task[t].pc # "idle"
          /\ Move(t, "ps") \/ End(t)
          /\ UNCHANGED <<prod, local, containers, cfg, auth, blobs>>
        BY <1>17 DEF Failure, PodmanError, PodmanFails, RefreshError, Deploying
    <2>2. /\ task'[t].pc \in {"ps", "idle"}
          /\ \A s \in Tasks \ {t} : task'[s] = task[s]
        BY <1>0, <2>1, MoveTask, EndTask DEF Serving
    <2>3. /\ conv' \in [Tasks -> [ask : Asks, want : SUBSET Layers]]
          /\ conv'[t].ask = "none"
          /\ \A s \in Tasks \ {t} : conv'[s] = conv[s]
        BY <1>0, <1>17, AskConv DEF Failure, Asks
    <2> QED
        BY <1>0, <2>1, <2>2, <2>3, EaseDInv DEF Deploying
<1>18. ASSUME NEW t \in Tasks, Drop(t) PROVE DInv'
    <2>1. /\ task[t].pc # "idle"
          /\ Move(t, "late_truncate") \/ Move(t, "late_write") \/ End(t)
          /\ UNCHANGED <<prod, local, containers, cfg, auth, blobs>>
        BY <1>18 DEF Drop, Disconnect, Serving, Deploying
    <2>2. /\ task'[t].pc \in {"late_truncate", "late_write", "idle"}
          /\ \A s \in Tasks \ {t} : task'[s] = task[s]
        BY <1>0, <2>1, MoveTask, EndTask DEF Late
    <2>3. /\ conv' \in [Tasks -> [ask : Asks, want : SUBSET Layers]]
          /\ conv'[t].ask = "none"
          /\ \A s \in Tasks \ {t} : conv'[s] = conv[s]
        BY <1>0, <1>18, AskConv DEF Drop, Asks
    <2> QED
        BY <1>0, <2>1, <2>2, <2>3, EaseDInv DEF Deploying
<1>19. CASE UNCHANGED dvars
    <2>1. UNCHANGED <<containers, prod, local, task, conv, blobs, cfg, auth>>
        BY <1>19 DEF dvars, svars, vars, registry
    <2> QED
        BY <1>0, <2>1 DEF DInv, ConvOK, LayersOK, LoginOK, Running, OwnLogin
<1> QED
    BY <1>1, <1>2, <1>3, <1>4, <1>5, <1>6, <1>7, <1>8, <1>9, <1>10, <1>11,
       <1>12, <1>13, <1>14, <1>15, <1>16, <1>17, <1>18, <1>19
       DEF DeployNext, Undisturbed, Step

LEMMA DInvariance == DeploySpec => []DInv
    BY InitDInv, NextDInv, PTL DEF DeploySpec

-----------------------------------------------------------------------------

(* Whatever manifests are pushed, no image that podman holds and no        *)
(* container that it runs lacks a layer.                                   *)
THEOREM ImagesAreComplete == DeploySpec => []CompleteImages
<1>1. DInv => CompleteImages
    BY DEF DInv, LayersOK, CompleteImages
<1> QED
    BY <1>1, DInvariance, PTL

(* podman is never turned away: whatever the master key is, colons in it   *)
(* included, and however it changes between two starts, the password that  *)
(* main hands to the orchestrator is the one that the registry asks for.   *)
THEOREM OwnLoginIsAccepted == DeploySpec => []OwnLoginAccepted
<1>1. DInv => OwnLoginAccepted
    BY DEF DInv, LoginOK, OwnLoginAccepted
<1> QED
    BY <1>1, DInvariance, PTL

-----------------------------------------------------------------------------

(* The segments of the paths of such directories.                          *)
Segs == Locations \cup STRING \cup {"prod"}

(* A directory for l is below the one of l, and no part of its path is a   *)
(* parent directory.                                                       *)
DirOK(l, dir) ==
    /\ dir \in Seq(Segs)
    /\ Len(dir) >= 2
    /\ dir[1] = l
    /\ dir[2] = "prod"
    /\ \A i \in 1..Len(dir) : dir[i] # ".."

VolumesOK ==
    /\ DOMAIN volumes = Locations
    /\ \A l \in Locations : \A dir \in volumes[l] : DirOK(l, dir)

(* VolumeDesc::from_path lets only paths of names through.                 *)
LEMMA VolumesAreNames ==
    ASSUME NEW i \in Images, NEW v \in VolumeIter(VolumesOf[i])
    PROVE  v \in Seq(STRING) /\ \A k \in 1..Len(v) : v[k] # ".."
<1>1. PICK path \in VolumesOf[i] : v \in FromPath(path)
    BY DEF VolumeIter
<1> DEFINE s == path.segments
<1>2. s \in Seq(STRING) /\ DOMAIN s = 1..Len(s)
    BY DeploymentAssumption, LenProperties
<1>3. v = Components(path) /\ \A k \in DOMAIN v : v[k] # ".."
    BY <1>1 DEF FromPath
<1>4. PICK I \in SUBSET (1..Len(s)) : v = Pick(s, I)
    BY <1>2, <1>3 DEF Components
<1> HIDE DEF s
<1>5. v \in Seq({s[k] : k \in I})
    BY <1>2, <1>4, PickAt
<1>6. {s[k] : k \in I} \subseteq STRING
    BY <1>2, ElementOfSeq
<1>7. v \in Seq(STRING)
    BY <1>5, <1>6, SeqMonotonic
<1> QED
    BY <1>3, <1>7, LenProperties

LEMMA VolumeBaseIs ==
    ASSUME NEW l \in Locations
    PROVE  /\ VolumeBase(l) \in Seq(Segs)
           /\ Len(VolumeBase(l)) = 2
           /\ VolumeBase(l)[1] = l
           /\ VolumeBase(l)[2] = "prod"
<1>1. NamespacedDir(Prod) = <<"prod">>
    BY DEF NamespacedDir, Prod
<1> DEFINE a == <<l>>
           p == <<"prod">>
<1>2. a \in Seq(Segs) /\ Len(a) = 1 /\ a[1] = l
    BY DEF Segs
<1>3. p \in Seq(Segs) /\ Len(p) = 1 /\ p[1] = "prod"
    <2>1. "prod" \in Segs
        BY Zenon DEF Segs
    <2> QED
        BY <2>1
<1>4. VolumeBase(l) = a \o p
    BY <1>1 DEF VolumeBase
<1> HIDE DEF a, p
<1>5. /\ a \o p \in Seq(Segs)
      /\ Len(a \o p) = 2
      /\ (a \o p)[1] = a[1]
      /\ (a \o p)[2] = p[1]
    BY <1>2, <1>3, ConcatProperties
<1> QED
    BY <1>2, <1>3, <1>4, <1>5

LEMMA DirsAreBelow ==
    ASSUME NEW l \in Locations, NEW i \in Images, NEW dir \in VolumeDirs(l, i)
    PROVE  DirOK(l, dir)
<1> DEFINE b == VolumeBase(l)
<1>1. PICK v \in VolumeIter(VolumesOf[i]) : dir = b \o v
    BY DEF VolumeDirs
<1>2. v \in Seq(STRING) /\ \A k \in 1..Len(v) : v[k] # ".."
    BY VolumesAreNames
<1>3. v \in Seq(Segs) /\ Len(v) \in Nat
    BY <1>2, SeqMonotonic, LenProperties DEF Segs
<1>4. b \in Seq(Segs) /\ Len(b) = 2 /\ b[1] = l /\ b[2] = "prod"
    BY VolumeBaseIs
<1> HIDE DEF b
<1>5. /\ dir \in Seq(Segs)
      /\ Len(dir) = 2 + Len(v)
      /\ \A k \in 1..(2 + Len(v)) :
            dir[k] = IF k <= 2 THEN b[k] ELSE v[k - 2]
    <2>1. /\ dir \in Seq(Segs)
          /\ Len(dir) = Len(b) + Len(v)
          /\ \A k \in 1..(Len(b) + Len(v)) :
                dir[k] = IF k <= Len(b) THEN b[k] ELSE v[k - Len(b)]
        BY <1>1, <1>3, <1>4, ConcatProperties
    <2> QED
        BY <1>4, <2>1
<1>6. l # ".."
    BY DeploymentAssumption
<1>7. ASSUME NEW k \in 1..Len(dir) PROVE dir[k] # ".."
    <2>1. CASE k \in {1, 2}
        BY <1>3, <1>4, <1>5, <1>6, <2>1
    <2>2. CASE k \notin {1, 2}
        <3>1. k - 2 \in 1..Len(v) /\ dir[k] = v[k - 2]
            BY <1>3, <1>5, <2>2
        <3> QED
            BY <1>2, <3>1
    <2> QED
        BY <2>1, <2>2
<1>8. Len(dir) >= 2 /\ dir[1] = l /\ dir[2] = "prod"
    BY <1>3, <1>4, <1>5
<1> QED
    BY <1>5, <1>7, <1>8 DEF DirOK

(* A path without parent directories is where it says.                     *)
LEMMA ResolvedAsNamed ==
    ASSUME NEW S, NEW path \in Seq(S), \A i \in 1..Len(path) : path[i] # ".."
    PROVE  Resolve(path) = path
<1> DEFINE names(i, j)   == Cardinality({k \in i..j : path[k] # ".."})
           parents(i, j) == Cardinality({k \in i..j : path[k] = ".."})
           n == Len(path)
<1>1. n \in Nat /\ DOMAIN path = 1..n
    BY LenProperties
<1>2. ASSUME NEW i \in 1..n, NEW j \in 1..n
      PROVE  parents(i + 1, j) <= names(i + 1, j)
    <2>1. {k \in (i + 1)..j : path[k] = ".."} = {}
        <3>1. (i + 1)..j \subseteq 1..n
            BY <1>1
        <3> QED
            BY <3>1
    <2>2. parents(i + 1, j) = 0
        BY <2>1, FS_EmptySet
    <2>3. names(i + 1, j) \in Nat
        <3>1. IsFiniteSet((i + 1)..j)
            BY <1>1, FS_Interval
        <3> QED
            BY <3>1, FS_Subset, FS_CardinalityType
    <2> HIDE DEF parents, names
    <2> QED
        BY <2>2, <2>3
<1>3. {i \in DOMAIN path : /\ path[i] # ".."
                           /\ \A j \in DOMAIN path :
                                 parents(i + 1, j) <= names(i + 1, j)} = 1..n
    BY <1>1, <1>2
<1>4. Resolve(path) = Pick(path, 1..n)
    BY <1>3 DEF Resolve
<1> QED
    BY <1>4, PickAll

(* What IsPrefix says of first elements.                                   *)
LEMMA PrefixesStartAlike ==
    ASSUME NEW S, NEW s \in Seq(S), NEW t \in Seq(S), Len(s) >= 1,
           IsPrefix(s, t)
    PROVE  s[1] = t[1]
<1>1. /\ Len(s) \in Nat
      /\ Len(t) \in Nat
      /\ Len(s) <= Len(t)
      /\ SubSeq(s, 1, Len(s)) = SubSeq(t, 1, Len(s))
    BY LenProperties DEF IsPrefix
<1>2. SubSeq(s, 1, Len(s))[1] = s[1]
    BY <1>1, SubSeqProperties, ElementOfSeq
<1>3. SubSeq(t, 1, Len(s))[1] = t[1]
    BY <1>1, SubSeqProperties, ElementOfSeq
<1> QED
    BY <1>1, <1>2, <1>3

LEMMA NextVolumes ==
    ASSUME DInv, VolumesOK, [DeployNext]_dvars
    PROVE  VolumesOK'
<1>1. ASSUME NEW t \in Tasks, Run(t) PROVE VolumesOK'
    <2> DEFINE l == task[t].loc
    <2>1. l \in Locations /\ local[l] \in Images
        BY <1>1 DEF Run, PodmanRun, DInv, TypeInv, TasksOK, LayersOK, TypeOK,
                    Deploying
    <2>2. volumes' = [volumes EXCEPT ![l] = @ \cup VolumeDirs(l, local[l])]
        BY <1>1 DEF Run
    <2> HIDE DEF l
    <2>3. \A dir \in VolumeDirs(l, local[l]) : DirOK(l, dir)
        BY <2>1, DirsAreBelow
    <2> QED
        BY <2>1, <2>2, <2>3 DEF VolumesOK, DirOK
<1>2. ASSUME \A t \in Tasks : ~Run(t) PROVE UNCHANGED volumes
    BY <1>2
       DEF DeployNext, Undisturbed, Step, Start, BlobPut, ManifestPut,
           ConfigPut, RemoveOld, IndexV2, ManifestGet, BlobGet, PullDone,
           PullError, Refresh, WriteConfig, Die, Exit, Failure, Drop, registry,
           dvars, svars
<1>3. CASE UNCHANGED volumes
    BY <1>3 DEF VolumesOK, DirOK
<1> QED
    BY <1>1, <1>2, <1>3

(* Whatever paths the volumes in an image have, the directories that are   *)
(* bound into the containers of two locations never lie in one another,    *)
(* for VolumeDesc::from_path lets no parent directory through.             *)
THEOREM VolumesAreSeparate == DeploySpec => []VolumesSeparate
<1>1. DeployInit => VolumesOK
    BY DEF DeployInit, VolumesOK
<1>2. VolumesOK => VolumesSeparate
    <2> SUFFICES ASSUME VolumesOK, NEW l \in Locations, NEW v \in volumes[l]
                 PROVE  /\ IsPrefix(VolumeBase(l), Resolve(v))
                        /\ \A m \in Locations \ {l} : \A w \in volumes[m] :
                              /\ ~IsPrefix(Resolve(v), Resolve(w))
                              /\ ~IsPrefix(Resolve(w), Resolve(v))
        BY DEF VolumesSeparate
    <2>1. DirOK(l, v) /\ Resolve(v) = v
        BY ResolvedAsNamed DEF VolumesOK, DirOK
    <2>2. IsPrefix(VolumeBase(l), v)
        <3> DEFINE b == VolumeBase(l)
                   p == SubSeq(b, 1, 2)
                   q == SubSeq(v, 1, 2)
        <3>1. b \in Seq(Segs) /\ Len(b) = 2 /\ b[1] = v[1] /\ b[2] = v[2]
            BY <2>1, VolumeBaseIs DEF DirOK
        <3>2. /\ Len(v) \in Nat
              /\ Len(v) >= 2
              /\ b[1] \in Segs
              /\ b[2] \in Segs
            BY <2>1, <3>1, LenProperties, ElementOfSeq DEF DirOK
        <3> HIDE DEF b
        <3>3. /\ p \in Seq(Segs) /\ q \in Seq(Segs)
              /\ Len(p) = 2 /\ Len(q) = 2
              /\ \A i \in 1..2 : p[i] = b[i] /\ q[i] = v[i]
            <4>1. \A i \in 1..2 : b[i] \in Segs /\ v[i] \in Segs /\ b[i] = v[i]
                BY <3>1, <3>2
            <4> QED
                BY <4>1, SubSeqProperties
        <3> HIDE DEF p, q
        <3>4. p = q
            <4>1. \A i \in 1..2 : p[i] = q[i]
                BY <3>1, <3>3
            <4> QED
                BY <3>3, <4>1, SeqEqual
        <3> QED
            BY <3>1, <3>2, <3>4 DEF IsPrefix, p, q, b
    <2>3. ASSUME NEW m \in Locations \ {l}, NEW w \in volumes[m]
          PROVE  /\ ~IsPrefix(Resolve(v), Resolve(w))
                 /\ ~IsPrefix(Resolve(w), Resolve(v))
        <3>1. DirOK(m, w) /\ Resolve(w) = w
            BY ResolvedAsNamed DEF VolumesOK, DirOK
        <3>2. v[1] = l /\ w[1] = m /\ Len(v) >= 2 /\ Len(w) >= 2
            BY <2>1, <3>1 DEF DirOK
        <3>3. Len(v) >= 1 /\ Len(w) >= 1
            BY <2>1, <3>1, <3>2, LenProperties DEF DirOK
        <3> QED
            BY <2>1, <3>1, <3>2, <3>3, PrefixesStartAlike DEF DirOK
    <2> QED
        BY <2>1, <2>2, <2>3
<1> QED
    BY <1>1, <1>2, DInvariance, NextVolumes, PTL DEF DeploySpec

-----------------------------------------------------------------------------

(* The composed system implements the orchestrator: the requests of podman *)
(* are hidden, and a pull that is turned away is a podman that fails, for  *)
(* which the orchestrator must allow.                                      *)
THEOREM Refinement ==
    ASSUME Faults
    PROVE  DeploySpec => ImplementsOrchestrator
<1>1. DeployInit => Init
    BY DEF DeployInit
<1>2. DInv /\ [DeployNext]_dvars => [Next]_vars
    <2> SUFFICES ASSUME DInv, NEW t \in Tasks, PullError(t) PROVE Next
        BY StepOfOrchestrator
    <2>1. task[t].pc \in Deploying
        BY DEF PullError, PullFails, DInv, ConvOK, Deploying
    <2> QED
        BY <2>1 DEF PullError, PodmanError, Next
<1> QED
    BY <1>1, <1>2, DInvariance, PTL DEF DeploySpec, Spec, ImplementsOrchestrator

(* So what is proved of the orchestrator holds with podman as a client of  *)
(* the same server: the newest push runs, and a start stops no container.  *)
THEOREM DeploymentKeepsPromises ==
    ASSUME Faults, Overlap # "any"
    PROVE  DeploySpec => []LatestDeployed /\ StartupKeepsContainers
<1>1. DeploySpec => Spec
    BY Refinement DEF ImplementsOrchestrator
<1> QED
    BY <1>1, NewestPushRuns, StartupIsHarmless, PTL

(* And when requests come one at a time, the requests of podman that they  *)
(* cause in the same server do not make the routing table stale: between   *)
(* them it has the containers that run and the configurations as stored.   *)
THEOREM DeploymentRoutesAreCurrent ==
    ASSUME Faults, Overlap = "none"
    PROVE  DeploySpec => [](RoutesCurrent /\ ConfigsCurrent)
<1>1. DeploySpec => Spec
    BY Refinement DEF ImplementsOrchestrator
<1> QED
    BY <1>1, RoutesAreCurrent, ConfigsAreCurrent, PTL

=============================================================================
