---------------------------- MODULE Orchestrator ----------------------------
(***************************************************************************)
(* The container orchestrator: what happens between a manifest that was    *)
(* stored and a route that serves it.  A push of a :prod manifest removes  *)
(* the location's container, pulls the image and runs it; that and a PUT   *)
(* of a container configuration end with a refresh of the reverse proxy's  *)
(* routing table from `podman ps` and the configuration files.             *)
(*                                                                         *)
(* Handlers are async functions that share no lock, so each action is the  *)
(* code between two awaits.  podman is external: its containers and images *)
(* are modelled from the commands that podman.rs issues.                   *)
(***************************************************************************)
EXTENDS Names, FiniteSets

CONSTANTS
    Locations,   \* repository/image
    Images,      \* manifests that clients push
    Configs,     \* runtime configurations that clients PUT
    Ports,       \* host ports that podman assigns
    Tags,        \* references that clients push, sequences of tokens
    Tasks,       \* slots for handlers that run concurrently
    NoImage, NoContainer, NoRoute, NoConfig, NoLocation,
    Default,     \* the configuration of an absent or an empty file
    Torn,        \* a file that does not parse
    Overlap,     \* "none": one request at a time; "others": one request per
                 \* location at a time; "any"
    Faults,      \* may podman fail, a container exit and the process die
    Disconnects, \* may a connection break while a request is served
    WriteErrors  \* may a configuration be written in part (a full disk)

Container == [image : Images \cup {NoImage}, port : Ports]
RouteSet  == [port : Ports, config : Configs \cup {Default, NoConfig}]

ASSUME OrchestratorAssumption ==
    /\ NoImage \notin Images
    /\ NoContainer \notin Container
    /\ NoRoute \notin RouteSet
    /\ NoConfig \notin Configs \cup {Default, Torn}
    /\ NoLocation \notin Locations
    /\ Default # Torn /\ {Default, Torn} \cap Configs = {}
    /\ Overlap \in {"none", "others", "any"}
    /\ Faults \in BOOLEAN
    /\ Disconnects \in BOOLEAN
    /\ WriteErrors \in BOOLEAN

VARIABLES
    phase,       \* "down", "starting" or "up": what main has reached
    prod,        \* prod[l]: the manifest that the tag :prod of l names
    local,       \* local[l]: podman's image of that name
    containers,  \* containers[l]: podman's container rockslide---l
    configs,     \* configs[l]: the file configs/l/prod
    table,       \* table[l]: the route of the reverse proxy
    task,        \* task[t]: the handler that runs in slot t
    undeployed,  \* history: locations where no container was started, or it
                 \* stopped, since the newest :prod push
    refresh      \* history: "current" unless a refresh failed or was dropped,
                 \* a dropped handler wrote or a container stopped since the
                 \* last `podman ps`

vars == <<phase, prod, local, containers, configs, table, task, undeployed,
          refresh>>

-----------------------------------------------------------------------------

(* synchronize_container_state acts on the production tag only.            *)
IsProduction(ref) == ref = Prod

(* load_config of the configuration of location l under reference ref.     *)
LoadConfig(l, ref) == IF NamespacedDir(ref) = Prod THEN configs[l] ELSE Default

Running == {l \in Locations : containers[l] # NoContainer}

UsedPorts == {containers[l].port : l \in Running}

(* The routing table that from_containers makes of the running containers, *)
(* when conf[l] is the configuration that was loaded for l.                *)
FromContainers(conf) ==
    [l \in Locations |-> IF l \in Running
                         THEN [port   |-> containers[l].port,
                               config |-> conf[l]]
                         ELSE NoRoute]

(* Where a handler is: suspended at an await; dropped, while a blocking    *)
(* thread still writes for it; or not running.                             *)
Deploying == {"rm", "pull", "store", "run"}
Serving   == Deploying \cup {"truncate", "write", "verify", "ps", "load", "swap"}
Late      == {"late_truncate", "late_write"}
NoTask == [pc     |-> "idle",
           loc    |-> NoLocation,
           image  |-> NoImage,
           config |-> NoConfig,
           listed |-> {},
           routes |-> [l \in Locations |-> NoRoute]]

(* Clients that do not overlap their requests, all of them or those for a  *)
(* location, wait for the answer or for the connection to break.           *)
MayStart(t, l) ==
    /\ phase = "up"
    /\ task[t].pc = "idle"
    /\ \/ Overlap = "any"
       \/ \A s \in Tasks :
             task[s].pc \in Serving => Overlap = "others" /\ task[s].loc # l

Move(t, pc) == task' = [task EXCEPT ![t].pc = pc]

(* The request is answered, or its handler dropped: the slot is free.      *)
End(t) == task' = [task EXCEPT ![t] = NoTask]

Init ==
    /\ phase      = "down"
    /\ prod       = [l \in Locations |-> NoImage]
    /\ local      = [l \in Locations |-> NoImage]
    /\ containers = [l \in Locations |-> NoContainer]
    /\ configs    = [l \in Locations |-> Default]
    /\ table      = [l \in Locations |-> NoRoute]
    /\ task       = [t \in Tasks |-> NoTask]
    /\ undeployed = {}
    /\ refresh    = "lost"

-----------------------------------------------------------------------------

(* synchronize_all: every container that podman lists has its              *)
(* configuration loaded, and one that does not parse ends main; systemd    *)
(* starts it again, as after a podman command that fails.  A container     *)
(* whose reference were the production tag would be removed, and not come  *)
(* back: the registry that its image is pulled from does not listen yet.   *)
StartupSync ==
    /\ phase = "down"
    /\ \A l \in Running : LoadConfig(l, ImageTag) # Torn
    /\ phase' = "starting"
    /\ containers' = [l \in Locations |-> IF IsProduction(ImageTag)
                                          THEN NoContainer
                                          ELSE containers[l]]
    /\ UNCHANGED <<prod, local, configs, table, task, undeployed, refresh>>

(* updated_published_set at startup; the table stays empty when it fails.  *)
StartupRefresh ==
    /\ phase = "starting"
    /\ phase' = "up"
    /\ \/ /\ \A l \in Running : LoadConfig(l, ImageTag) # Torn
          /\ table' = FromContainers([l \in Locations |->
                                     LoadConfig(l, ImageTag)])
          /\ refresh' = "current"
       \/ Faults /\ UNCHANGED <<table, refresh>>
    /\ UNCHANGED <<prod, local, containers, configs, task, undeployed>>

(* The process dies.  Files, images and containers remain.                 *)
Crash ==
    /\ Faults
    /\ phase' = "down"
    /\ table' = [l \in Locations |-> NoRoute]
    /\ task'  = [t \in Tasks |-> NoTask]
    /\ refresh' = "lost"
    /\ UNCHANGED <<prod, local, containers, configs, undeployed>>

(* A container stops by itself; --rm removes it.  Nobody tells rockslide.  *)
ContainerExit(l) ==
    /\ Faults
    /\ containers[l] # NoContainer
    /\ containers' = [containers EXCEPT ![l] = NoContainer]
    /\ undeployed' = undeployed \cup {l}
    /\ refresh' = "lost"
    /\ UNCHANGED <<phase, prod, local, configs, table, task>>

-----------------------------------------------------------------------------

(* manifest_put has stored the manifest and calls on_manifest_uploaded.    *)
Push(t, l, ref, i) ==
    /\ MayStart(t, l)
    /\ task' = [task EXCEPT
                  ![t] = [NoTask EXCEPT
                            !.loc = l,
                            !.pc  = IF IsProduction(ref) THEN "rm" ELSE "ps"]]
    /\ IF ref = Prod
       THEN /\ prod' = [prod EXCEPT ![l] = i]
            /\ undeployed' = undeployed \cup {l}
       ELSE UNCHANGED <<prod, undeployed>>
    /\ UNCHANGED <<phase, local, containers, configs, table, refresh>>

(* podman rm --force: the old container is gone before the new image is    *)
(* known to be good.  Removing nothing is no error.                        *)
PodmanRm(t) ==
    /\ task[t].pc = "rm"
    /\ containers' = [containers EXCEPT ![task[t].loc] = NoContainer]
    /\ Move(t, "pull")
    /\ UNCHANGED <<phase, prod, local, configs, table, undeployed, refresh>>

(* Mutant of PodmanPull: an image that podman has is not pulled.           *)
PodmanPullMissing(t) ==
    LET l == task[t].loc IN
    /\ task[t].pc = "pull"
    /\ task' = [task EXCEPT ![t].pc    = "store",
                            ![t].image = IF local[l] = NoImage
                                         THEN prod[l] ELSE local[l]]
    /\ UNCHANGED <<phase, prod, local, containers, configs, table,
                   undeployed, refresh>>

(* podman login, and podman pull up to where it has read the manifest of   *)
(* the tag :prod from our registry.                                        *)
PodmanPull(t) ==
    /\ task[t].pc = "pull"
    /\ task' = [task EXCEPT ![t].pc    = "store",
                            ![t].image = prod[task[t].loc]]
    /\ UNCHANGED <<phase, prod, local, containers, configs, table,
                   undeployed, refresh>>

(* podman pull stores what it has read under the image's name.             *)
PodmanStore(t) ==
    /\ task[t].pc = "store"
    /\ local' = [local EXCEPT ![task[t].loc] = task[t].image]
    /\ Move(t, "run")
    /\ UNCHANGED <<phase, prod, containers, configs, table, undeployed,
                   refresh>>

(* podman inspect, the volume directories and podman run: the container    *)
(* runs what the image's name stands for by then.                          *)
PodmanRun(t) ==
    LET l == task[t].loc IN
    /\ task[t].pc = "run"
    /\ containers[l] = NoContainer
    /\ \E p \in Ports \ UsedPorts :
          containers' = [containers EXCEPT
                           ![l] = [image |-> local[l], port |-> p]]
    /\ undeployed' = undeployed \ {l}
    /\ Move(t, "ps")
    /\ UNCHANGED <<phase, prod, local, configs, table, refresh>>

(* Mutant of PodmanFails: the hook returns the error.                      *)
PodmanFailsReturned(t) ==
    /\ End(t)
    /\ UNCHANGED <<phase, prod, local, containers, configs, table,
                   undeployed, refresh>>

(* synchronize_container_state returns an error: the hook logs it and      *)
(* refreshes the routing table.                                            *)
PodmanFails(t) ==
    /\ Move(t, "ps")
    /\ UNCHANGED <<phase, prod, local, containers, configs, table,
                   undeployed, refresh>>

(* Any podman command may fail, and podman run does when its name is taken.*)
PodmanError(t) ==
    /\ \/ Faults /\ task[t].pc \in Deploying
       \/ task[t].pc = "run" /\ task[t].loc \in Running
    /\ PodmanFails(t)

-----------------------------------------------------------------------------

(* PUT of a configuration, up to the first await of save_config.           *)
PutConfig(t, l, c) ==
    /\ MayStart(t, l)
    /\ task' = [task EXCEPT ![t] = [NoTask EXCEPT !.pc     = "truncate",
                                                  !.loc    = l,
                                                  !.config = c]]
    /\ UNCHANGED <<phase, prod, local, containers, configs, table,
                   undeployed, refresh>>

(* No refresh follows what is written for a handler that was dropped.      *)
Detached(t) == refresh' = IF task[t].pc \in Late THEN "lost" ELSE refresh

(* tokio::fs::write, first half: an empty file is a default configuration. *)
ConfigTruncate(t) ==
    /\ task[t].pc \in {"truncate", "late_truncate"}
    /\ configs' = [configs EXCEPT ![task[t].loc] = Default]
    /\ Move(t, IF task[t].pc = "truncate" THEN "write" ELSE "late_write")
    /\ Detached(t)
    /\ UNCHANGED <<phase, prod, local, containers, table, undeployed>>

(* tokio::fs::write, second half.  Where another PUT has written since the *)
(* truncation, the tail of a longer text remains behind a shorter one.     *)
ConfigWrite(t) ==
    LET l == task[t].loc IN
    /\ task[t].pc \in {"write", "late_write"}
    /\ \/ configs' = [configs EXCEPT ![l] = task[t].config]
       \/ /\ configs[l] \notin {Default, task[t].config}
          /\ configs' = [configs EXCEPT ![l] = Torn]
    /\ IF task[t].pc = "write" THEN Move(t, "verify") ELSE End(t)
    /\ Detached(t)
    /\ UNCHANGED <<phase, prod, local, containers, table, undeployed>>

(* The write fails, possibly half way: an error without a refresh.         *)
ConfigWriteError(t) ==
    /\ WriteErrors
    /\ task[t].pc \in {"write", "late_write"}
    /\ \/ configs' = [configs EXCEPT ![task[t].loc] = Torn]
       \/ UNCHANGED configs
    /\ End(t)
    /\ refresh' = "lost"
    /\ UNCHANGED <<phase, prod, local, containers, table, undeployed>>

(* "Read back to verify": the answer is an error without a refresh when    *)
(* the file does not parse.                                                *)
ConfigVerify(t) ==
    /\ task[t].pc = "verify"
    /\ \/ /\ LoadConfig(task[t].loc, Prod) # Torn
          /\ Move(t, "ps")
          /\ UNCHANGED refresh
       \/ /\ LoadConfig(task[t].loc, Prod) = Torn
          /\ End(t)
          /\ refresh' = "lost"
    /\ UNCHANGED <<phase, prod, local, containers, configs, table, undeployed>>

-----------------------------------------------------------------------------

(* podman ps: the running containers and their ports at one moment.        *)
RefreshList(t) ==
    /\ task[t].pc = "ps"
    /\ task' = [task EXCEPT
                  ![t].pc     = IF Running = {} THEN "swap" ELSE "load",
                  ![t].listed = Running,
                  ![t].routes = FromContainers([l \in Locations |-> NoConfig])]
    /\ refresh' = "current"
    /\ UNCHANGED <<phase, prod, local, containers, configs, table, undeployed>>

(* Mutant of RefreshLoad: the configuration is published unparsed.         *)
RefreshLoadUnparsed(t, l) ==
    LET rest == task[t].listed \ {l} IN
    /\ task[t].pc = "load"
    /\ l \in task[t].listed
    /\ task' = [task EXCEPT
                  ![t].pc     = IF rest = {} THEN "swap" ELSE "load",
                  ![t].listed = rest,
                  ![t].routes[l].config = LoadConfig(l, ImageTag)]
    /\ UNCHANGED <<phase, prod, local, containers, configs, table,
                   undeployed, refresh>>

(* load_managed_container: the configuration of one listed container is    *)
(* read, after the list was made.                                          *)
RefreshLoad(t, l) ==
    LET rest == task[t].listed \ {l} IN
    /\ task[t].pc = "load"
    /\ l \in task[t].listed
    /\ LoadConfig(l, ImageTag) # Torn
    /\ task' = [task EXCEPT
                  ![t].pc     = IF rest = {} THEN "swap" ELSE "load",
                  ![t].listed = rest,
                  ![t].routes[l].config = LoadConfig(l, ImageTag)]
    /\ UNCHANGED <<phase, prod, local, containers, configs, table,
                   undeployed, refresh>>

(* podman ps fails or a configuration does not parse: the table stays as   *)
(* it is, and the request is answered as if nothing had happened.          *)
RefreshError(t) ==
    /\ \/ Faults /\ task[t].pc = "ps"
       \/ /\ task[t].pc = "load"
          /\ \E l \in task[t].listed : LoadConfig(l, ImageTag) = Torn
    /\ End(t)
    /\ refresh' = "lost"
    /\ UNCHANGED <<phase, prod, local, containers, configs, table, undeployed>>

(* update_containers swaps the table, and the request is answered.         *)
RefreshSwap(t) ==
    /\ task[t].pc = "swap"
    /\ table' = task[t].routes
    /\ End(t)
    /\ UNCHANGED <<phase, prod, local, containers, configs, undeployed,
                   refresh>>

(* The connection breaks: the handler is dropped at its await, podman is   *)
(* killed, but a blocking thread still writes the configuration.           *)
Disconnect(t) ==
    /\ Disconnects
    /\ task[t].pc \in Serving
    /\ CASE task[t].pc = "truncate" -> Move(t, "late_truncate")
         [] task[t].pc = "write"    -> Move(t, "late_write")
         [] OTHER                   -> End(t)
    /\ refresh' = "lost"
    /\ UNCHANGED <<phase, prod, local, containers, configs, table, undeployed>>

Next ==
    \/ StartupSync
    \/ StartupRefresh
    \/ Crash
    \/ \E l \in Locations : ContainerExit(l)
    \/ \E t \in Tasks, l \in Locations, ref \in Tags, i \in Images :
          Push(t, l, ref, i)
    \/ \E t \in Tasks, l \in Locations, c \in Configs : PutConfig(t, l, c)
    \/ \E t \in Tasks, l \in Locations : RefreshLoad(t, l)
    \/ \E t \in Tasks :
          \/ PodmanRm(t)
          \/ PodmanPull(t)
          \/ PodmanStore(t)
          \/ PodmanRun(t)
          \/ PodmanError(t)
          \/ ConfigTruncate(t)
          \/ ConfigWrite(t)
          \/ ConfigWriteError(t)
          \/ ConfigVerify(t)
          \/ RefreshList(t)
          \/ RefreshError(t)
          \/ RefreshSwap(t)
          \/ Disconnect(t)

Spec == Init /\ [][Next]_vars

(* systemd starts the service again for ever (Restart=always), podman does *)
(* not fail for ever, and not every start is hit by another crash.         *)
FairSpec == Spec /\ WF_vars(StartupSync) /\ SF_vars(StartupRefresh)

-----------------------------------------------------------------------------

(* Every variable stays in its type; in particular no file that does not   *)
(* parse ever gets into the routing table.                                 *)
TypeOK ==
    /\ phase \in {"down", "starting", "up"}
    /\ prod \in [Locations -> Images \cup {NoImage}]
    /\ local \in [Locations -> Images \cup {NoImage}]
    /\ containers \in [Locations -> Container \cup {NoContainer}]
    /\ configs \in [Locations -> Configs \cup {Default, Torn}]
    /\ table \in [Locations -> RouteSet \cup {NoRoute}]
    /\ task \in [Tasks ->
          [pc     : Serving \cup Late \cup {"idle"},
           loc    : Locations \cup {NoLocation},
           image  : Images \cup {NoImage},
           config : Configs \cup {NoConfig},
           listed : SUBSET Locations,
           routes : [Locations -> RouteSet \cup {NoRoute}]]]
    /\ undeployed \subseteq Locations
    /\ refresh \in {"current", "lost"}

(* Nothing runs for any request.                                           *)
Quiet == phase = "up" /\ \A t \in Tasks : task[t].pc = "idle"

(* README.md:35: an image that was pushed is "made available under the     *)
(* server's root".  Between requests the table of update_containers routes *)
(* every running container at its port, and nothing else, unless a refresh *)
(* failed or a container stopped.                                          *)
RoutesCurrent ==
    Quiet /\ refresh = "current" =>
        \A l \in Locations :
            /\ table[l] = NoRoute <=> l \notin Running
            /\ l \in Running => table[l].port = containers[l].port

(* README.md:67: a PUT "updates the access password".  Between requests    *)
(* every route has the configuration that save_config stored last.         *)
ConfigsCurrent ==
    Quiet /\ refresh = "current" =>
        \A l \in Locations :
            table[l] # NoRoute => table[l].config = configs[l]

(* README.md:35: "any docker image uploaded with the reference :prod" is   *)
(* what runs: once no synchronize_container_state is on its way for l, and *)
(* one has started a container since the newest push, the container of l   *)
(* has the image of that push.                                             *)
LatestDeployed ==
    \A l \in Locations :
        /\ prod[l] # NoImage
        /\ l \notin undeployed
        /\ \A t \in Tasks : task[t].pc \in Deploying => task[t].loc # l
        => l \in Running /\ containers[l].image = prod[l]

(* A start of rockslide stops no container: whatever main does before it   *)
(* listens, only containers that exit by themselves disappear.             *)
StartupKeepsContainers ==
    [][phase # "up" /\ (\A l \in Locations : ~ContainerExit(l))
         => UNCHANGED containers]_vars

(* After every crash, wherever it hit a handler, main gets to where it     *)
(* listens again.                                                          *)
ComesBack == [](phase # "up" => <>(phase = "up"))

=============================================================================
