----------------------------- MODULE Deployment -----------------------------
(***************************************************************************)
(* A push from end to end.  The hook of manifest_put waits for podman, and *)
(* podman logs in at the same server and pulls the manifest and its layers *)
(* from the registry, as any other client.  Orchestrator has the handlers, *)
(* its pull is refined here into the requests that podman makes.           *)
(***************************************************************************)
EXTENDS Orchestrator, Auth, Volumes

CONSTANTS
    Layers,      \* blobs that clients upload
    LayersOf,    \* LayersOf[i]: the blobs that the manifest i names
    VolumesOf,   \* VolumesOf[i]: the volumes in the configuration of i
    Files,       \* configuration files of the server; a value that is not
                 \* set is {}
    Headers,     \* Authorization headers of clients
    Remote       \* podman_is_remote()

ASSUME DeploymentAssumption ==
    /\ \A i \in Images : LayersOf[i] \subseteq Layers
    /\ \A f \in Files : f.master_key \subseteq Seq(STRING)
    /\ \A i \in Images : \A path \in VolumesOf[i] :
          path.segments \in Seq(STRING)
    /\ ".." \notin Locations   \* podman does not pull such a name
    /\ Remote \in BOOLEAN
    /\ Disconnects => ~Remote  \* kill_on_drop

VARIABLES
    cfg,      \* the configuration that main has loaded
    auth,     \* podman's saved login for our address, an Authorization header
    blobs,    \* the blobs in the registry
    conv,     \* conv[t]: what the podman of task t asks the registry for, and
              \* the layers that it still wants
    volumes,  \* volumes[l]: the directories that were made for l
    fault     \* history: the locations that the last step was a fault for

registry == <<cfg, auth, blobs, conv, volumes>>

svars == <<vars, registry>>

dvars == <<svars, fault>>

-----------------------------------------------------------------------------

(* default_http_bind.                                                      *)
DefaultHttpBind == IF Remote THEN "any" ELSE "loopback"

(* load_config of the server's file; MasterKey::Locked is {}.              *)
ServerConfig(file) ==
    [master_key |-> file.master_key,
     http_bind  |-> IF file.http_bind = {} THEN DefaultHttpBind
                    ELSE CHOOSE b \in file.http_bind : TRUE]

(* The address that podman is told to pull from.                           *)
LocalIp == IF Remote THEN "external" ELSE "loopback"

(* A listener gets what is sent to the address that it is bound to.        *)
ListensLocally == cfg.http_bind \in {"any", LocalIp}

(* ValidUser::from_request_parts.                                          *)
ValidUser(header) ==
    MasterKeyChecks(cfg.master_key, UnverifiedCredentials(header))

(* The credentials of the orchestrator.                                    *)
OwnLogin == BasicHeader(<<"rockslide-podman">>, AsSecretString(cfg.master_key))

(* namespaced_dir of the production tag below volumes/.                    *)
VolumeBase(l) == <<l>> \o NamespacedDir(Prod)

(* The directories that are bound into a container of image i at l.        *)
VolumeDirs(l, i) == {VolumeBase(l) \o v : v \in VolumeIter(VolumesOf[i])}

-----------------------------------------------------------------------------

NoConv == [ask |-> "none", want |-> {}]

Ask(t, what) == conv' = [conv EXCEPT ![t] = [ask |-> what, want |-> {}]]

DeployInit ==
    /\ Init
    /\ cfg     \in {ServerConfig(f) : f \in Files}
    /\ auth    = {}
    /\ blobs   = {}
    /\ conv    = [t \in Tasks |-> NoConv]
    /\ volumes = [l \in Locations |-> {}]
    /\ fault   = {}

(* main reads the configuration file, which may have changed, and          *)
(* synchronizes.                                                           *)
Start(f) ==
    /\ StartupSync
    /\ cfg' = ServerConfig(f)
    /\ UNCHANGED <<auth, blobs, conv, volumes>>

Die ==
    /\ Crash
    /\ conv'    = [t \in Tasks |-> NoConv]
    /\ fault'   = Locations
    /\ UNCHANGED <<cfg, auth, blobs, volumes>>

Exit(l) ==
    /\ ContainerExit(l)
    /\ fault' = {l}
    /\ UNCHANGED <<cfg, auth, blobs, conv, volumes>>

-----------------------------------------------------------------------------

(* A client uploads a layer, see BlobUploads, after blob_check has not     *)
(* found it.                                                               *)
BlobPut(b) ==
    /\ phase = "up"
    /\ \E h \in Headers : ValidUser(h)
    /\ b \notin blobs
    /\ blobs' = blobs \cup {b}
    /\ UNCHANGED <<vars, cfg, auth, conv, volumes>>

(* manifest_put: nobody looks whether the layers are there.                *)
ManifestPut(t, l, ref, i) ==
    /\ \E h \in Headers : ValidUser(h)
    /\ Push(t, l, ref, i)
    /\ UNCHANGED <<cfg, auth, blobs, conv, volumes>>

ConfigPut(t, l, c) ==
    /\ \E h \in Headers : ValidUser(h)
    /\ PutConfig(t, l, c)
    /\ UNCHANGED registry

(* Mutant of RemoveOld: a login that podman has saved is used.                *)
RemoveOldKeepLogin(t) ==
    /\ PodmanRm(t)
    /\ Ask(t, IF auth = {} THEN "login" ELSE "manifest")
    /\ UNCHANGED <<cfg, auth, blobs, volumes>>

(* The container is gone; the login is next, before every pull.            *)
RemoveOld(t) ==
    /\ PodmanRm(t)
    /\ Ask(t, "login")
    /\ UNCHANGED <<cfg, auth, blobs, volumes>>

(* Mutant of Serves: requests are served one after the other.              *)
ServesOneByOne ==
    /\ phase = "up" /\ ListensLocally
    /\ \A t \in Tasks : task[t].pc \notin Serving

(* The server answers while handlers, the one that waits among them, are   *)
(* suspended.                                                              *)
Serves == phase = "up" /\ ListensLocally

(* index_v2, which podman login asks; it saves credentials that are good.  *)
IndexV2(t) ==
    /\ Serves
    /\ conv[t].ask = "login"
    /\ IF ValidUser(OwnLogin)
       THEN Ask(t, "manifest") /\ auth' = OwnLogin
       ELSE Ask(t, "denied") /\ UNCHANGED auth
    /\ UNCHANGED <<vars, cfg, blobs, volumes>>

(* manifest_get, for the tag :prod.  podman then wants the layers that no  *)
(* image of its own has.                                                   *)
ManifestGet(t) ==
    LET held == UNION {LayersOf[i] : i \in {local[l] : l \in Locations}
                                             \ {NoImage}} IN
    /\ Serves
    /\ conv[t].ask = "manifest"
    /\ IF ValidUser(auth)
       THEN /\ PodmanPull(t)
            /\ conv' = [conv EXCEPT ![t] =
                          [ask  |-> "layers",
                           want |-> LayersOf[prod[task[t].loc]] \ held]]
       ELSE Ask(t, "denied") /\ UNCHANGED vars
    /\ UNCHANGED <<cfg, auth, blobs, volumes>>

(* Mutant of BlobGet: a missing blob is served as an empty one.            *)
BlobGetEmpty(t, b) ==
    /\ Serves
    /\ conv[t].ask = "layers"
    /\ b \in conv[t].want
    /\ conv' = [conv EXCEPT ![t].want = @ \ {b}]
    /\ UNCHANGED <<vars, cfg, auth, blobs, volumes>>

(* blob_get.                                                               *)
BlobGet(t, b) ==
    /\ Serves
    /\ conv[t].ask = "layers"
    /\ b \in conv[t].want
    /\ IF ~ValidUser(auth) THEN Ask(t, "denied")
       ELSE IF b \in blobs THEN conv' = [conv EXCEPT ![t].want = @ \ {b}]
       ELSE Ask(t, "missing")
    /\ UNCHANGED <<vars, cfg, auth, blobs, volumes>>

(* podman pull has all the layers.                                         *)
PullDone(t) ==
    /\ conv[t] = [ask |-> "layers", want |-> {}]
    /\ PodmanStore(t)
    /\ Ask(t, "none")
    /\ UNCHANGED <<cfg, auth, blobs, volumes>>

(* podman login or pull fails: it was turned away, or nobody listens.      *)
PullFails(t) ==
    \/ conv[t].ask \in {"denied", "missing"}
    \/ conv[t].ask \in {"login", "manifest"} /\ ~ListensLocally

(* Mutant of PullError: the container is started all the same.             *)
PullErrorIgnored(t) ==
    /\ PullFails(t)
    /\ Move(t, "run")
    /\ UNCHANGED <<phase, prod, local, containers, configs, table,
                   undeployed, refresh>>
    /\ Ask(t, "none")
    /\ UNCHANGED <<cfg, auth, blobs, volumes>>

PullError(t) ==
    /\ PullFails(t)
    /\ PodmanFails(t)
    /\ Ask(t, "none")
    /\ UNCHANGED <<cfg, auth, blobs, volumes>>

(* The volumes of the image are made where they are missing, bound and the *)
(* container started.                                                      *)
Run(t) ==
    LET l == task[t].loc IN
    /\ PodmanRun(t)
    /\ volumes' = [volumes EXCEPT ![l] = @ \cup VolumeDirs(l, local[l])]
    /\ UNCHANGED <<cfg, auth, blobs, conv>>

(* podman fails otherwise, or the refresh does.                            *)
Failure(t) ==
    /\ PodmanError(t) \/ RefreshError(t)
    /\ Ask(t, "none")
    /\ fault' = {task[t].loc}
    /\ UNCHANGED <<cfg, auth, blobs, volumes>>

Drop(t) ==
    /\ Disconnect(t)
    /\ Ask(t, "none")
    /\ fault' = {task[t].loc}
    /\ UNCHANGED <<cfg, auth, blobs, volumes>>

Refresh(t) ==
    /\ \/ RefreshList(t)
       \/ \E l \in Locations : RefreshLoad(t, l)
       \/ RefreshSwap(t)
    /\ UNCHANGED registry

WriteConfig(t) ==
    /\ ConfigTruncate(t) \/ ConfigWrite(t) \/ ConfigVerify(t)
    /\ UNCHANGED registry

(* What the task of a request does unless it is disturbed.                 *)
Step(t) ==
    \/ RemoveOld(t)
    \/ IndexV2(t)
    \/ ManifestGet(t)
    \/ \E b \in Layers : BlobGet(t, b)
    \/ PullDone(t)
    \/ PullError(t)
    \/ Run(t)
    \/ Refresh(t)
    \/ WriteConfig(t)

(* The failures that are no accident: a file that does not parse, a name   *)
(* that is taken.                                                          *)
CannotStep(t) ==
    \/ task[t].pc = "load"
    \/ task[t].pc = "run" /\ task[t].loc \in Running

Undisturbed ==
    \/ \E f \in Files : Start(f)
    \/ StartupRefresh /\ UNCHANGED registry
    \/ \E b \in Layers : BlobPut(b)
    \/ \E t \in Tasks, l \in Locations, ref \in Tags, i \in Images :
          ManifestPut(t, l, ref, i)
    \/ \E t \in Tasks, l \in Locations, c \in Configs : ConfigPut(t, l, c)
    \/ \E t \in Tasks : Step(t)

DeployNext ==
    \/ Undisturbed /\ fault' = {}
    \/ Die
    \/ \E l \in Locations : Exit(l)
    \/ \E t \in Tasks : Failure(t) \/ Drop(t)

DeploySpec == DeployInit /\ [][DeployNext]_dvars

(* Every await of a handler ends: podman terminates, the disk answers, and *)
(* tokio polls whoever is ready.  The service is started again as in       *)
(* FairSpec of Orchestrator.                                               *)
FairDeploySpec ==
    /\ DeploySpec
    /\ \A t \in Tasks : WF_svars(Step(t) \/ (Failure(t) /\ CannotStep(t)))
    /\ WF_svars(\E f \in Files : Start(f))
    /\ SF_svars(StartupRefresh /\ UNCHANGED registry)

-----------------------------------------------------------------------------

(* README.md:35: an image that was uploaded "will be made available": no   *)
(* image that podman has, and no container that it runs, lacks a layer,    *)
(* though manifest_put accepts manifests whose blobs nobody has uploaded.  *)
CompleteImages ==
    \A l \in Locations :
        /\ local[l] # NoImage => LayersOf[local[l]] \subseteq blobs
        /\ l \in Running => LayersOf[containers[l].image] \subseteq blobs

(* Whatever volumes their images ask for, no directory that is bound into  *)
(* a container of one location is, or is above or below, one of another    *)
(* location, and every one is below the directory of its own location.     *)
VolumesSeparate ==
    \A l \in Locations : \A v \in volumes[l] :
        /\ IsPrefix(VolumeBase(l), Resolve(v))
        /\ \A m \in Locations \ {l} : \A w \in volumes[m] :
              /\ ~IsPrefix(Resolve(v), Resolve(w))
              /\ ~IsPrefix(Resolve(w), Resolve(v))

(* main hands the orchestrator the password that the registry asks for:    *)
(* podman is never turned away from a server that has accepted a push,     *)
(* with any key and also after the key has changed between two starts.     *)
OwnLoginAccepted == \A t \in Tasks : conv[t].ask # "denied"

(* The requests that podman makes in a pull are steps of the orchestrator  *)
(* that nobody else sees: all that a push does, and every way in which it  *)
(* fails, is one of Orchestrator.                                          *)
ImplementsOrchestrator == Spec

(* Every push and every PUT of a configuration is answered, unless its     *)
(* connection breaks or the process dies: podman, which the handler of a   *)
(* push waits for, is served by the same process meanwhile.                *)
PushAnswered ==
    \A t \in Tasks : task[t].pc \in Serving ~> task[t].pc \notin Serving

Served(l, i) ==
    /\ l \in Running /\ containers[l].image = i
    /\ table[l] # NoRoute /\ table[l].port = containers[l].port

(* README.md:35: "any docker image uploaded with the reference :prod will  *)
(* be made available".  The image of a push whose layers are uploaded gets *)
(* to run and to be routed, unless a fault hits its location, provided the *)
(* server listens where it sends podman to.                                *)
Deploys ==
    \A l \in Locations, i \in Images :
        /\ \E t \in Tasks : task[t].pc = "rm" /\ task[t].loc = l
        /\ prod[l] = i /\ LayersOf[i] \subseteq blobs
        /\ ListensLocally
        ~> Served(l, i) \/ l \in fault

=============================================================================
