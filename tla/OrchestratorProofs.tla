------------------------- MODULE OrchestratorProofs -------------------------
(***************************************************************************)
(* Proofs about Orchestrator, for every number of locations, images,       *)
(* configurations, ports and concurrent handlers, with and without faults, *)
(* broken connections and failed writes.                                   *)
(***************************************************************************)
EXTENDS Orchestrator, SequenceTheorems, TLAPS

TaskSet == [pc     : Serving \cup Late \cup {"idle"},
            loc    : Locations \cup {NoLocation},
            image  : Images \cup {NoImage},
            config : Configs \cup {NoConfig},
            listed : SUBSET Locations,
            routes : [Locations -> RouteSet \cup {NoRoute}]]

(* A handler works for a location while the server is up, a PUT has a      *)
(* configuration, and the refresh loads configurations for routes that it  *)
(* has made.                                                               *)
TasksOK ==
    \A t \in Tasks :
        /\ task[t].pc # "idle" => phase = "up" /\ task[t].loc \in Locations
        /\ task[t].pc \in {"truncate", "write"} \cup Late =>
             task[t].config \in Configs
        /\ task[t].pc = "load" =>
             \A l \in task[t].listed : task[t].routes[l] # NoRoute

TypeInv == TypeOK /\ TasksOK

-----------------------------------------------------------------------------

(* image_tag's colon hides the production tag from synchronize_all, and    *)
(* namespaced_dir's trim hides it from the configuration files.            *)
LEMMA TagNames ==
    /\ ~IsProduction(ImageTag)
    /\ \A l : LoadConfig(l, ImageTag) = configs[l]
    /\ \A l : LoadConfig(l, Prod) = configs[l]
<1> DEFINE Tokens == {":", "prod"}
<1>1. Prod \in Seq(Tokens) /\ Len(Prod) = 1 /\ Prod[1] = "prod"
    BY DEF Prod
<1>2. <<":">> \in Seq(Tokens) /\ Len(<<":">>) = 1 /\ <<":">>[1] = ":"
    OBVIOUS
<1>3. /\ ImageTag \in Seq(Tokens)
      /\ Len(ImageTag) = 2
      /\ ImageTag[1] = ":"
      /\ ImageTag[2] = "prod"
    <2> DEFINE c == <<":">>
    <2>1. ImageTag = c \o Prod
        BY DEF ImageTag
    <2> HIDE DEF c, Tokens
    <2>2. c \in Seq(Tokens) /\ Len(c) = 1 /\ c[1] = ":"
        BY <1>2 DEF c
    <2>3. /\ c \o Prod \in Seq(Tokens)
          /\ Len(c \o Prod) = 2
          /\ \A i \in 1..2 : (c \o Prod)[i] = IF i <= 1 THEN c[i]
                                                      ELSE Prod[i - 1]
        BY <1>1, <2>2, ConcatProperties
    <2>4. (c \o Prod)[1] = c[1] /\ (c \o Prod)[2] = Prod[1]
        BY <2>3
    <2> QED
        BY <1>1, <2>1, <2>2, <2>3, <2>4
<1>4. ImageTag # Prod
    BY <1>1, <1>3
<1>5. NamespacedDir(ImageTag) = Prod
    <2> DEFINE T == Tail(ImageTag)
    <2>1. /\ Head(ImageTag) = ":"
          /\ T \in Seq(Tokens)
          /\ Len(T) = 1
          /\ T[1] = "prod"
        BY <1>3
    <2>2. T = Prod
        <3> HIDE DEF T, Tokens
        <3>1. \A i \in 1..Len(T) : T[i] = Prod[i]
            BY <1>1, <2>1
        <3> QED
            BY <1>1, <2>1, <3>1, SeqEqual
    <2> QED
        BY <2>1, <2>2 DEF NamespacedDir
<1>6. NamespacedDir(Prod) = Prod
    <2>1. Head(Prod) = "prod"
        BY <1>1
    <2> QED
        BY <2>1 DEF NamespacedDir
<1> QED
    BY <1>4, <1>5, <1>6 DEF IsProduction, LoadConfig

LEMMA NoTaskType ==
    /\ NoTask \in TaskSet
    /\ NoTask.pc = "idle"
    BY DEF NoTask, TaskSet

LEMMA TypeTask == TypeOK => task \in [Tasks -> TaskSet]
    BY DEF TypeOK, TaskSet

(* What is left of the tasks when one moves to another await.              *)
LEMMA MoveTask ==
    ASSUME NEW t \in Tasks, NEW pc \in Serving \cup Late \cup {"idle"},
           Move(t, pc), task \in [Tasks -> TaskSet]
    PROVE  /\ task' \in [Tasks -> TaskSet]
           /\ task'[t].pc = pc
           /\ task'[t].loc = task[t].loc
           /\ task'[t].image = task[t].image
           /\ task'[t].config = task[t].config
           /\ task'[t].listed = task[t].listed
           /\ task'[t].routes = task[t].routes
           /\ \A s \in Tasks \ {t} : task'[s] = task[s]
    BY DEF Move, TaskSet

(* What is left of them when one ends.                                     *)
LEMMA EndTask ==
    ASSUME NEW t \in Tasks, End(t), task \in [Tasks -> TaskSet]
    PROVE  /\ task' \in [Tasks -> TaskSet]
           /\ task'[t].pc = "idle"
           /\ \A s \in Tasks \ {t} : task'[s] = task[s]
    BY NoTaskType DEF End

(* The table that the refresh makes has routes for what runs, no others.   *)
LEMMA FromContainersType ==
    ASSUME NEW conf, TypeOK,
           \A l \in Locations : conf[l] \in Configs \cup {Default, NoConfig}
    PROVE  LET table2 == FromContainers(conf) IN
           /\ table2 \in [Locations -> RouteSet \cup {NoRoute}]
           /\ \A l \in Locations :
                 /\ table2[l] = NoRoute <=> l \notin Running
                 /\ l \in Running => /\ table2[l].port = containers[l].port
                                     /\ table2[l].config = conf[l]
<1> USE OrchestratorAssumption
<1> DEFINE R(l) == [port |-> containers[l].port, config |-> conf[l]]
<1>1. ASSUME NEW l \in Running
      PROVE  /\ R(l) \in RouteSet
             /\ R(l).port = containers[l].port
             /\ R(l).config = conf[l]
    <2>1. l \in Locations /\ containers[l] \in Container
        BY DEF Running, TypeOK
    <2>2. containers[l].port \in Ports
        BY <2>1 DEF Container
    <2> QED
        BY <2>1, <2>2 DEF RouteSet
<1>2. FromContainers(conf)
        = [l \in Locations |-> IF l \in Running THEN R(l) ELSE NoRoute]
    BY DEF FromContainers
<1> HIDE DEF R
<1> QED
    BY <1>1, <1>2

LEMMA InitTypeInv == Init => TypeInv
<1> SUFFICES ASSUME Init PROVE TypeInv
    OBVIOUS
<1>1. TypeOK
    BY NoTaskType DEF Init, TypeOK, TaskSet
<1>2. TasksOK
    BY NoTaskType DEF Init, TasksOK, Late
<1> QED
    BY <1>1, <1>2 DEF TypeInv

(* The task of a push that has just been stored.                           *)
LEMMA PushTask ==
    ASSUME TypeOK, NEW t \in Tasks, NEW l \in Locations, NEW ref, NEW i,
           Push(t, l, ref, i)
    PROVE  /\ task' \in [Tasks -> TaskSet]
           /\ task[t].pc = "idle"
           /\ task'[t].pc = IF ref = Prod THEN "rm" ELSE "ps"
           /\ task'[t].loc = l
           /\ \A s \in Tasks \ {t} : task'[s] = task[s]
<1> DEFINE pc == IF ref = Prod THEN "rm" ELSE "ps"
           R  == [NoTask EXCEPT !.loc = l, !.pc = pc]
<1>1. pc \in Serving
    BY DEF Serving, Deploying
<1>2. task' = [task EXCEPT ![t] = R] /\ task[t].pc = "idle"
    BY DEF Push, MayStart, IsProduction
<1> HIDE DEF pc
<1>3. R \in TaskSet /\ R.pc = pc /\ R.loc = l
    BY <1>1 DEF NoTask, TaskSet
<1> HIDE DEF R
<1> QED
    BY <1>2, <1>3, TypeTask DEF pc

(* The task of a PUT of a configuration that has just come in.             *)
LEMMA PutConfigTask ==
    ASSUME TypeOK, NEW t \in Tasks, NEW l \in Locations, NEW c \in Configs,
           PutConfig(t, l, c)
    PROVE  /\ task' \in [Tasks -> TaskSet]
           /\ task[t].pc = "idle"
           /\ task'[t].pc = "truncate"
           /\ task'[t].loc = l
           /\ task'[t].config = c
           /\ \A s \in Tasks \ {t} : task'[s] = task[s]
<1> DEFINE R == [NoTask EXCEPT !.pc = "truncate", !.loc = l, !.config = c]
<1>1. task' = [task EXCEPT ![t] = R] /\ task[t].pc = "idle"
    BY DEF PutConfig, MayStart
<1>2. R \in TaskSet /\ R.pc = "truncate" /\ R.loc = l /\ R.config = c
    BY DEF NoTask, TaskSet, Serving
<1> HIDE DEF R
<1> QED
    BY <1>1, <1>2, TypeTask

(* What the read of the manifest leaves in a task.                         *)
LEMMA PullTask ==
    ASSUME TypeOK, TasksOK, NEW t \in Tasks, PodmanPull(t)
    PROVE  /\ task' \in [Tasks -> TaskSet]
           /\ task'[t].pc = "store"
           /\ task'[t].loc = task[t].loc
           /\ task'[t].image = prod[task[t].loc]
           /\ \A s \in Tasks \ {t} : task'[s] = task[s]
<1> DEFINE i == prod[task[t].loc]
           R == [task[t] EXCEPT !.pc = "store", !.image = i]
<1>1. /\ task \in [Tasks -> TaskSet]
      /\ task[t] \in TaskSet
      /\ i \in Images \cup {NoImage}
    BY TypeTask DEF PodmanPull, TypeOK, TasksOK
<1>2. task' = [task EXCEPT ![t] = R]
    BY <1>1 DEF PodmanPull
<1> HIDE DEF i
<1>3. R \in TaskSet /\ R.pc = "store" /\ R.loc = task[t].loc /\ R.image = i
    BY <1>1 DEF TaskSet, Serving, Deploying
<1> HIDE DEF R
<1> QED
    BY <1>1, <1>2, <1>3 DEF i

(* What `podman ps` leaves in a task: a route for everything that runs.    *)
LEMMA ListTask ==
    ASSUME TypeOK, NEW t \in Tasks, RefreshList(t)
    PROVE  /\ task' \in [Tasks -> TaskSet]
           /\ task'[t].pc = IF Running = {} THEN "swap" ELSE "load"
           /\ task'[t].loc = task[t].loc
           /\ task'[t].listed = Running
           /\ \A l \in Locations :
                 /\ task'[t].routes[l] = NoRoute <=> l \notin Running
                 /\ l \in Running =>
                      task'[t].routes[l].port = containers[l].port
           /\ \A s \in Tasks \ {t} : task'[s] = task[s]
<1> DEFINE conf   == [l \in Locations |-> NoConfig]
           routes == FromContainers(conf)
           pc     == IF Running = {} THEN "swap" ELSE "load"
<1>1. /\ routes \in [Locations -> RouteSet \cup {NoRoute}]
      /\ \A l \in Locations :
            /\ routes[l] = NoRoute <=> l \notin Running
            /\ l \in Running => routes[l].port = containers[l].port
    <2>1. \A l \in Locations : conf[l] \in Configs \cup {Default, NoConfig}
        OBVIOUS
    <2> HIDE DEF conf
    <2> QED
        BY <2>1, FromContainersType
<1>2. pc \in Serving /\ Running \in SUBSET Locations
    BY DEF Serving, Running
<1>3. task' = [task EXCEPT ![t].pc     = pc,
                           ![t].listed = Running,
                           ![t].routes = routes]
    BY DEF RefreshList
<1> HIDE DEF routes, pc
<1>4. /\ task' \in [Tasks -> TaskSet]
      /\ task'[t].pc = pc
      /\ task'[t].loc = task[t].loc
      /\ task'[t].listed = Running
      /\ task'[t].routes = routes
      /\ \A s \in Tasks \ {t} : task'[s] = task[s]
    <2> DEFINE R == [task[t] EXCEPT !.pc     = pc,
                                    !.listed = Running,
                                    !.routes = routes]
    <2>1. task \in [Tasks -> TaskSet] /\ task[t] \in TaskSet
        BY TypeTask
    <2>2. /\ R \in TaskSet
          /\ R.pc = pc
          /\ R.loc = task[t].loc
          /\ R.listed = Running
          /\ R.routes = routes
        BY <1>1, <1>2, <2>1 DEF TaskSet
    <2>3. task' = [task EXCEPT ![t] = R]
        BY <1>3, <2>1
    <2> HIDE DEF R
    <2> QED
        BY <2>1, <2>2, <2>3
<1> QED
    BY <1>1, <1>4 DEF pc

(* What the load of one configuration leaves there.                        *)
LEMMA LoadTask ==
    ASSUME TypeOK, TasksOK, NEW t \in Tasks, NEW l \in Locations,
           RefreshLoad(t, l)
    PROVE  /\ task' \in [Tasks -> TaskSet]
           /\ task'[t].pc = IF task'[t].listed = {} THEN "swap" ELSE "load"
           /\ task'[t].loc = task[t].loc
           /\ task'[t].listed = task[t].listed \ {l}
           /\ task'[t].routes[l].port = task[t].routes[l].port
           /\ task'[t].routes[l].config = configs[l]
           /\ \A m \in Locations :
                 /\ task'[t].routes[m] = NoRoute <=>
                      task[t].routes[m] = NoRoute
                 /\ m # l => task'[t].routes[m] = task[t].routes[m]
           /\ \A s \in Tasks \ {t} : task'[s] = task[s]
<1> USE OrchestratorAssumption
<1> DEFINE old    == task[t].routes
           route  == [old[l] EXCEPT !.config = configs[l]]
           routes == [old EXCEPT ![l] = route]
           rest   == task[t].listed \ {l}
           pc     == IF rest = {} THEN "swap" ELSE "load"
<1>1. /\ task \in [Tasks -> TaskSet]
      /\ task[t] \in TaskSet
      /\ task[t].pc = "load"
      /\ l \in task[t].listed
      /\ configs[l] \in Configs \cup {Default}
    BY TypeTask, TagNames DEF RefreshLoad, TypeOK
<1>2. old \in [Locations -> RouteSet \cup {NoRoute}] /\ old[l] \in RouteSet
    <2>1. old[l] # NoRoute
        BY <1>1 DEF TasksOK
    <2>2. old \in [Locations -> RouteSet \cup {NoRoute}]
        BY <1>1 DEF TaskSet
    <2> QED
        BY <2>1, <2>2
<1>3. /\ route \in RouteSet
      /\ route.port = old[l].port
      /\ route.config = configs[l]
    <2> HIDE DEF old
    <2> QED
        BY <1>1, <1>2 DEF RouteSet
<1>4. /\ routes \in [Locations -> RouteSet \cup {NoRoute}]
      /\ routes[l] = route
      /\ \A m \in Locations : m # l => routes[m] = old[m]
    <2> HIDE DEF old, route
    <2> QED
        BY <1>2, <1>3
<1>5. pc \in Serving /\ rest \in SUBSET Locations
    BY <1>1 DEF Serving, TaskSet
<1>6. task' = [task EXCEPT ![t].pc     = pc,
                           ![t].listed = rest,
                           ![t].routes = routes]
    BY TagNames DEF RefreshLoad
<1> HIDE DEF old, route, routes, rest, pc
<1>7. /\ task' \in [Tasks -> TaskSet]
      /\ task'[t].pc = pc
      /\ task'[t].loc = task[t].loc
      /\ task'[t].listed = rest
      /\ task'[t].routes = routes
      /\ \A s \in Tasks \ {t} : task'[s] = task[s]
    BY <1>1, <1>4, <1>5, <1>6 DEF TaskSet
<1> QED
    BY <1>2, <1>3, <1>4, <1>7 DEF pc, rest, old

(* A step that only moves t to another await, or ends it, keeps the types. *)
LEMMA MoveTypeInv ==
    ASSUME TypeInv, NEW t \in Tasks, UNCHANGED phase,
           \/ End(t)
           \/ \E pc \in Serving \cup Late :
                 /\ Move(t, pc)
                 /\ task[t].pc # "idle"
                 /\ pc # "load"
                 /\ pc \in {"truncate", "write"} \cup Late
                      => task[t].config \in Configs
    PROVE  task' \in [Tasks -> TaskSet] /\ TasksOK'
<1>1. task \in [Tasks -> TaskSet]
    BY TypeTask DEF TypeInv
<1>2. CASE End(t)
    BY <1>1, <1>2, EndTask DEF TypeInv, TasksOK, Late
<1>3. ASSUME NEW pc \in Serving \cup Late, Move(t, pc),
             task[t].pc # "idle", pc # "load",
             pc \in {"truncate", "write"} \cup Late
               => task[t].config \in Configs
      PROVE  task' \in [Tasks -> TaskSet] /\ TasksOK'
    BY <1>1, <1>3, MoveTask DEF TypeInv, TasksOK
<1> QED
    BY <1>2, <1>3

LEMMA NextTypeInv == TypeInv /\ [Next]_vars => TypeInv'
<1> USE OrchestratorAssumption
<1> SUFFICES ASSUME TypeInv, [Next]_vars PROVE TypeInv'
    OBVIOUS
<1>0. TypeOK /\ TasksOK /\ task \in [Tasks -> TaskSet]
    BY TypeTask DEF TypeInv
<1> DEFINE Typed == task' \in [Tasks -> TaskSet] /\ TasksOK'
<1>1. CASE StartupSync
    BY <1>0, <1>1, TagNames DEF StartupSync, TypeInv, TypeOK, TasksOK
<1>2. CASE StartupRefresh
    <2>1. table' \in [Locations -> RouteSet \cup {NoRoute}]
          /\ refresh' \in {"current", "lost"}
        <3>1. ASSUME \A l \in Running : LoadConfig(l, ImageTag) # Torn,
                     table' = FromContainers([l \in Locations |->
                                                 LoadConfig(l, ImageTag)])
              PROVE  table' \in [Locations -> RouteSet \cup {NoRoute}]
            <4>1. ASSUME NEW l \in Running
                  PROVE  /\ containers[l].port \in Ports
                         /\ configs[l] \in Configs \cup {Default}
                BY <1>0, <3>1, <4>1, TagNames
                   DEF Running, TypeOK, Container
            <4>2. FromContainers([l \in Locations |-> LoadConfig(l, ImageTag)])
                    = [l \in Locations |->
                         IF l \in Running
                         THEN [port   |-> containers[l].port,
                               config |-> configs[l]]
                         ELSE NoRoute]
                BY TagNames DEF FromContainers
            <4> QED
                BY <3>1, <4>1, <4>2 DEF RouteSet
        <3> QED
            BY <1>0, <1>2, <3>1 DEF StartupRefresh, TypeOK
    <2> QED
        BY <1>0, <1>2, <2>1 DEF StartupRefresh, TypeInv, TypeOK, TasksOK
<1>3. CASE Crash
    <2>1. Typed
        BY <1>3, NoTaskType DEF Crash, TasksOK, Late
    <2> QED
        BY <1>0, <1>3, <2>1 DEF Crash, TypeInv, TypeOK, TaskSet
<1>4. ASSUME NEW l \in Locations, ContainerExit(l) PROVE TypeInv'
    BY <1>0, <1>4 DEF ContainerExit, TypeInv, TypeOK, TasksOK
<1>5. ASSUME NEW t \in Tasks, NEW l \in Locations, NEW ref \in Tags,
             NEW i \in Images, Push(t, l, ref, i)
      PROVE  TypeInv'
    <2>1. phase' = "up"
        BY <1>5 DEF Push, MayStart
    <2>2. /\ task' \in [Tasks -> TaskSet]
          /\ task'[t].pc \in {"rm", "ps"}
          /\ task'[t].loc = l
          /\ \A s \in Tasks \ {t} : task'[s] = task[s]
        BY <1>0, <1>5, PushTask
    <2>3. Typed
        BY <1>0, <2>1, <2>2 DEF TasksOK, Late
    <2>4. prod' \in [Locations -> Images \cup {NoImage}]
          /\ undeployed' \subseteq Locations
        BY <1>0, <1>5 DEF Push, TypeOK
    <2> QED
        BY <1>0, <1>5, <2>3, <2>4 DEF Push, TypeInv, TypeOK, TaskSet
<1>6. ASSUME NEW t \in Tasks, NEW l \in Locations, NEW c \in Configs,
             PutConfig(t, l, c)
      PROVE  TypeInv'
    <2>1. phase' = "up"
        BY <1>6 DEF PutConfig, MayStart
    <2>2. /\ task' \in [Tasks -> TaskSet]
          /\ task'[t].pc = "truncate"
          /\ task'[t].loc = l
          /\ task'[t].config = c
          /\ \A s \in Tasks \ {t} : task'[s] = task[s]
        BY <1>0, <1>6, PutConfigTask
    <2>3. Typed
        BY <1>0, <2>1, <2>2 DEF TasksOK, Late
    <2> QED
        BY <1>0, <1>6, <2>3 DEF PutConfig, TypeInv, TypeOK, TaskSet
<1>7. ASSUME NEW t \in Tasks, NEW l \in Locations, RefreshLoad(t, l)
      PROVE  TypeInv'
    <2>1. /\ task' \in [Tasks -> TaskSet]
          /\ task'[t].pc \in {"swap", "load"}
          /\ task'[t].loc = task[t].loc
          /\ task'[t].listed \subseteq task[t].listed
          /\ task[t].listed \subseteq Locations
          /\ \A m \in Locations : task'[t].routes[m] = NoRoute <=>
                                    task[t].routes[m] = NoRoute
          /\ \A s \in Tasks \ {t} : task'[s] = task[s]
        BY <1>0, <1>7, LoadTask DEF TaskSet
    <2>2. task[t].pc = "load" /\ UNCHANGED phase
        BY <1>7 DEF RefreshLoad
    <2>3. Typed
        BY <1>0, <2>1, <2>2 DEF TasksOK, Late
    <2> QED
        BY <1>0, <1>7, <2>3 DEF RefreshLoad, TypeInv, TypeOK, TaskSet
<1>8. ASSUME NEW t \in Tasks, PodmanRm(t) PROVE TypeInv'
    <2>1. Typed /\ task[t].loc \in Locations
        BY <1>0, <1>8, MoveTypeInv
           DEF PodmanRm, TasksOK, Serving, Deploying, Late
    <2> QED
        BY <1>0, <1>8, <2>1 DEF PodmanRm, TypeInv, TypeOK, TaskSet
<1>9. ASSUME NEW t \in Tasks, PodmanPull(t) PROVE TypeInv'
    <2>1. Typed
        <3>1. /\ task[t].pc = "pull"
              /\ task[t].loc \in Locations
              /\ prod[task[t].loc] \in Images \cup {NoImage}
              /\ UNCHANGED phase
            BY <1>0, <1>9 DEF PodmanPull, TasksOK, TypeOK
        <3> QED
            BY <1>0, <1>9, <3>1, PullTask DEF TasksOK, Late
    <2> QED
        BY <1>0, <1>9, <2>1 DEF PodmanPull, TypeInv, TypeOK, TaskSet
<1>10. ASSUME NEW t \in Tasks, PodmanStore(t) PROVE TypeInv'
    <2>1. /\ Typed
          /\ task[t].loc \in Locations
          /\ task[t].image \in Images \cup {NoImage}
        BY <1>0, <1>10, MoveTypeInv
           DEF PodmanStore, TasksOK, TaskSet, Serving, Deploying, Late
    <2> QED
        BY <1>0, <1>10, <2>1 DEF PodmanStore, TypeInv, TypeOK, TaskSet
<1>11. ASSUME NEW t \in Tasks, PodmanRun(t) PROVE TypeInv'
    <2>1. Typed /\ task[t].loc \in Locations
        BY <1>0, <1>11, MoveTypeInv DEF PodmanRun, TasksOK, Serving, Late
    <2>2. containers' \in [Locations -> Container \cup {NoContainer}]
        BY <1>0, <1>11, <2>1 DEF PodmanRun, TypeOK, Container
    <2> QED
        BY <1>0, <1>11, <2>1, <2>2 DEF PodmanRun, TypeInv, TypeOK, TaskSet
<1>12. ASSUME NEW t \in Tasks, PodmanError(t) PROVE TypeInv'
    <2>1. Typed
        BY <1>0, <1>12, MoveTypeInv
           DEF PodmanError, PodmanFails, Serving, Deploying, Late
    <2> QED
        BY <1>0, <1>12, <2>1
           DEF PodmanError, PodmanFails, TypeInv, TypeOK, TaskSet
<1>13. ASSUME NEW t \in Tasks, ConfigTruncate(t) PROVE TypeInv'
    <2>1. /\ task[t].pc # "idle"
          /\ task[t].loc \in Locations
          /\ task[t].config \in Configs
        BY <1>0, <1>13 DEF ConfigTruncate, TasksOK, Late
    <2>2. Typed
        <3>1. \E pc \in {"write", "late_write"} : Move(t, pc)
            BY <1>13 DEF ConfigTruncate
        <3> QED
            BY <1>0, <1>13, <2>1, <3>1, MoveTypeInv
               DEF ConfigTruncate, Serving, Late
    <2> QED
        BY <1>0, <1>13, <2>1, <2>2
           DEF ConfigTruncate, Detached, TypeInv, TypeOK, TaskSet
<1>14. ASSUME NEW t \in Tasks, ConfigWrite(t) PROVE TypeInv'
    <2>1. /\ task[t].pc # "idle"
          /\ task[t].loc \in Locations
          /\ task[t].config \in Configs
        BY <1>0, <1>14 DEF ConfigWrite, TasksOK, Late
    <2>2. Typed
        BY <1>0, <1>14, <2>1, MoveTypeInv DEF ConfigWrite, Serving, Late
    <2>3. configs' \in [Locations -> Configs \cup {Default, Torn}]
        BY <1>0, <1>14, <2>1 DEF ConfigWrite, TypeOK
    <2> QED
        BY <1>0, <1>14, <2>2, <2>3
           DEF ConfigWrite, Detached, TypeInv, TypeOK, TaskSet
<1>15. ASSUME NEW t \in Tasks, ConfigWriteError(t) PROVE TypeInv'
    <2>1. Typed
        BY <1>0, <1>15, MoveTypeInv DEF ConfigWriteError
    <2>2. configs' \in [Locations -> Configs \cup {Default, Torn}]
        BY <1>0, <1>15 DEF ConfigWriteError, TypeOK
    <2> QED
        BY <1>0, <1>15, <2>1, <2>2
           DEF ConfigWriteError, TypeInv, TypeOK, TaskSet
<1>16. ASSUME NEW t \in Tasks, ConfigVerify(t) PROVE TypeInv'
    <2>1. Typed
        BY <1>0, <1>16, MoveTypeInv DEF ConfigVerify, Serving, Late
    <2> QED
        BY <1>0, <1>16, <2>1 DEF ConfigVerify, TypeInv, TypeOK, TaskSet
<1>17. ASSUME NEW t \in Tasks, RefreshList(t) PROVE TypeInv'
    <2>1. /\ task' \in [Tasks -> TaskSet]
          /\ task'[t].pc \in {"swap", "load"}
          /\ task'[t].loc = task[t].loc
          /\ task'[t].listed = Running
          /\ Running \subseteq Locations
          /\ \A l \in Locations : task'[t].routes[l] = NoRoute <=>
                                    l \notin Running
          /\ \A s \in Tasks \ {t} : task'[s] = task[s]
        BY <1>0, <1>17, ListTask DEF Running
    <2>2. task[t].pc = "ps" /\ UNCHANGED phase
        BY <1>17 DEF RefreshList
    <2>3. Typed
        BY <1>0, <2>1, <2>2 DEF TasksOK, Late
    <2> QED
        BY <1>0, <1>17, <2>3 DEF RefreshList, TypeInv, TypeOK, TaskSet
<1>18. ASSUME NEW t \in Tasks, RefreshError(t) PROVE TypeInv'
    <2>1. Typed
        BY <1>0, <1>18, MoveTypeInv DEF RefreshError
    <2> QED
        BY <1>0, <1>18, <2>1 DEF RefreshError, TypeInv, TypeOK, TaskSet
<1>19. ASSUME NEW t \in Tasks, RefreshSwap(t) PROVE TypeInv'
    <2>1. Typed /\ task[t].routes \in [Locations -> RouteSet \cup {NoRoute}]
        BY <1>0, <1>19, MoveTypeInv DEF RefreshSwap, TaskSet
    <2> QED
        BY <1>0, <1>19, <2>1 DEF RefreshSwap, TypeInv, TypeOK, TaskSet
<1>20. ASSUME NEW t \in Tasks, Disconnect(t) PROVE TypeInv'
    <2>1. \/ task[t].pc = "truncate" /\ Move(t, "late_truncate")
          \/ task[t].pc = "write" /\ Move(t, "late_write")
          \/ End(t)
        BY <1>20 DEF Disconnect
    <2>2. Typed
        BY <1>0, <1>20, <2>1, MoveTypeInv DEF Disconnect, TasksOK, Late
    <2> QED
        BY <1>0, <1>20, <2>2 DEF Disconnect, TypeInv, TypeOK, TaskSet
<1>21. CASE UNCHANGED vars
    BY <1>21 DEF vars, TypeInv, TypeOK, TasksOK
<1> QED
    BY <1>1, <1>2, <1>3, <1>4, <1>5, <1>6, <1>7, <1>8, <1>9, <1>10, <1>11,
       <1>12, <1>13, <1>14, <1>15, <1>16, <1>17, <1>18, <1>19, <1>20, <1>21
       DEF Next

LEMMA TypeInvariance == Spec => []TypeInv
    BY InitTypeInv, NextTypeInv, PTL DEF Spec

(* Every variable stays in its type: whatever fails, no configuration that *)
(* does not parse gets into the routing table.                             *)
THEOREM TypeCorrect == Spec => []TypeOK
<1>1. TypeInv => TypeOK
    BY DEF TypeInv
<1> QED
    BY <1>1, TypeInvariance, PTL

(* While rockslide starts, synchronize_all removes no container: the       *)
(* reference that it reads of an image has a colon, which the production   *)
(* tag has not.                                                            *)
THEOREM StartupIsHarmless == Spec => StartupKeepsContainers
<1> DEFINE Keeps == phase # "up" /\ (\A l \in Locations : ~ContainerExit(l))
                      => UNCHANGED containers
<1>1. TypeInv /\ [Next]_vars => [Keeps]_vars
    <2> SUFFICES ASSUME TypeInv, Next, phase # "up",
                        \A l \in Locations : ~ContainerExit(l)
                 PROVE  UNCHANGED containers
        OBVIOUS
    <2>1. CASE StartupSync
        BY <2>1, TagNames DEF StartupSync, TypeInv, TypeOK
    <2>2. CASE StartupRefresh \/ Crash
        BY <2>2 DEF StartupRefresh, Crash
    <2>3. \A t \in Tasks : task[t].pc = "idle"
        BY DEF TypeInv, TasksOK
    <2>4. \A t \in Tasks : ~PodmanRm(t) /\ ~PodmanRun(t)
        BY <2>3 DEF PodmanRm, PodmanRun
    <2> QED
        BY <2>1, <2>2, <2>4
           DEF Next, Push, PutConfig, RefreshLoad, PodmanPull, PodmanStore,
               PodmanError, PodmanFails, ConfigTruncate, ConfigWrite,
               ConfigWriteError, ConfigVerify, RefreshList, RefreshError,
               RefreshSwap, Disconnect
<1> QED
    BY <1>1, TypeInvariance, PTL DEF Spec, StartupKeepsContainers

-----------------------------------------------------------------------------

(* Clients wait for the answer of a request before the next one for the    *)
(* same location.                                                          *)
OnePerLocation ==
    \A s, t \in Tasks :
        s # t /\ task[s].pc \in Serving /\ task[t].pc \in Serving
          => task[s].loc # task[t].loc

(* What a handler deploys is the newest push of its location, and until it *)
(* has run it the location counts as undeployed.                           *)
NewestDeployed ==
    \A t \in Tasks :
        /\ task[t].pc \in Deploying => task[t].loc \in undeployed
        /\ task[t].pc = "store" => task[t].image = prod[task[t].loc]
        /\ task[t].pc = "run" => local[task[t].loc] = prod[task[t].loc]

(* The container that was started since the newest push has its image.     *)
NewestRuns ==
    \A l \in Locations :
        prod[l] # NoImage /\ l \notin undeployed
          => l \in Running /\ containers[l].image = prod[l]

(* The invariant behind LatestDeployed, for such clients.                  *)
DeployInv ==
    Overlap # "any" => OnePerLocation /\ NewestDeployed /\ NewestRuns

(* Steps of one handler that deploy nothing keep it.                       *)
LEMMA EaseDeployInv ==
    ASSUME DeployInv, NEW t \in Tasks,
           UNCHANGED <<prod, local, containers, undeployed>>,
           \A s \in Tasks \ {t} : task'[s] = task[s],
           task'[t].pc \notin Deploying,
           task'[t].pc \in Serving => /\ task[t].pc \in Serving
                                      /\ task'[t].loc = task[t].loc
    PROVE  DeployInv'
<1> SUFFICES ASSUME Overlap # "any"
             PROVE  OnePerLocation' /\ NewestDeployed' /\ NewestRuns'
    BY DEF DeployInv
<1>1. OnePerLocation /\ NewestDeployed /\ NewestRuns
    BY DEF DeployInv
<1>2. OnePerLocation'
    BY <1>1 DEF OnePerLocation
<1>3. NewestDeployed'
    BY <1>1 DEF NewestDeployed, Deploying
<1>4. NewestRuns'
    BY <1>1 DEF NewestRuns, Running
<1> QED
    BY <1>2, <1>3, <1>4

(* So do those that move it on or end it.                                  *)
LEMMA MoveDeployInv ==
    ASSUME TypeInv, DeployInv, NEW t \in Tasks,
           UNCHANGED <<prod, local, containers, undeployed>>,
           \/ End(t)
           \/ \E pc \in (Serving \cup Late) \ Deploying :
                 Move(t, pc) /\ (task[t].pc \in Serving \/ pc \in Late)
    PROVE  DeployInv'
<1>1. task \in [Tasks -> TaskSet]
    BY TypeTask DEF TypeInv
<1>2. CASE End(t)
    <2>1. /\ task'[t].pc = "idle"
          /\ \A s \in Tasks \ {t} : task'[s] = task[s]
        BY <1>1, <1>2, EndTask
    <2> QED
        BY <2>1, EaseDeployInv DEF Serving, Deploying
<1>3. ASSUME NEW pc \in (Serving \cup Late) \ Deploying, Move(t, pc),
             task[t].pc \in Serving \/ pc \in Late
      PROVE  DeployInv'
    <2>1. /\ task'[t].pc = pc
          /\ task'[t].loc = task[t].loc
          /\ \A s \in Tasks \ {t} : task'[s] = task[s]
        BY <1>1, <1>3, MoveTask
    <2>2. pc \in Late => pc \notin Serving
        BY DEF Late, Serving, Deploying
    <2> QED
        BY <1>3, <2>1, <2>2, EaseDeployInv
<1> QED
    BY <1>2, <1>3

LEMMA InitDeployInv == Init => DeployInv
    BY NoTaskType
       DEF Init, DeployInv, OnePerLocation, NewestDeployed, NewestRuns,
           Serving, Deploying

LEMMA NextDeployInv == TypeInv /\ DeployInv /\ [Next]_vars => DeployInv'
<1> USE OrchestratorAssumption
<1> SUFFICES ASSUME TypeInv, DeployInv, [Next]_vars, Overlap # "any"
             PROVE  DeployInv'
    BY DEF DeployInv
<1>0. /\ TypeOK
      /\ TasksOK
      /\ task \in [Tasks -> TaskSet]
      /\ OnePerLocation
      /\ NewestDeployed
      /\ NewestRuns
    BY TypeTask DEF TypeInv, DeployInv
<1>1. CASE StartupSync
    <2>1. UNCHANGED containers
        BY <1>0, <1>1, TagNames DEF StartupSync, TypeOK
    <2> QED
        BY <1>0, <1>1, <2>1
           DEF StartupSync, DeployInv, OnePerLocation, NewestDeployed,
               NewestRuns, Running
<1>2. CASE StartupRefresh
    BY <1>0, <1>2 DEF StartupRefresh, DeployInv, OnePerLocation,
                      NewestDeployed, NewestRuns, Running
<1>3. CASE Crash
    BY <1>0, <1>3, NoTaskType
       DEF Crash, DeployInv, OnePerLocation, NewestDeployed, NewestRuns,
           Running, Serving, Deploying
<1>4. ASSUME NEW l \in Locations, ContainerExit(l) PROVE DeployInv'
    <2>1. OnePerLocation' /\ NewestDeployed'
        BY <1>0, <1>4 DEF ContainerExit, OnePerLocation, NewestDeployed
    <2>2. NewestRuns'
        BY <1>0, <1>4 DEF ContainerExit, NewestRuns, Running, TypeOK
    <2> QED
        BY <2>1, <2>2 DEF DeployInv
<1>5. ASSUME NEW t \in Tasks, NEW l \in Locations, NEW ref \in Tags,
             NEW i \in Images, Push(t, l, ref, i)
      PROVE  DeployInv'
    <2>1. /\ task'[t].pc = IF ref = Prod THEN "rm" ELSE "ps"
          /\ task'[t].loc = l
          /\ \A s \in Tasks \ {t} : task'[s] = task[s]
        BY <1>0, <1>5, PushTask
    <2>2. \A s \in Tasks : task[s].pc \in Serving => task[s].loc # l
        BY <1>5 DEF Push, MayStart
    <2>3. OnePerLocation'
        BY <1>0, <2>1, <2>2 DEF OnePerLocation
    <2>4. CASE ref = Prod
        <3>1. /\ prod' = [prod EXCEPT ![l] = i]
              /\ undeployed' = undeployed \cup {l}
              /\ UNCHANGED <<local, containers>>
              /\ task'[t].pc = "rm"
            BY <1>5, <2>1, <2>4 DEF Push
        <3>2. NewestDeployed'
            <4> SUFFICES ASSUME NEW s \in Tasks
                         PROVE  /\ task'[s].pc \in Deploying
                                     => task'[s].loc \in undeployed'
                                /\ task'[s].pc = "store"
                                     => task'[s].image = prod'[task'[s].loc]
                                /\ task'[s].pc = "run"
                                     => local'[task'[s].loc]
                                          = prod'[task'[s].loc]
                BY DEF NewestDeployed
            <4>1. CASE s = t
                BY <2>1, <3>1, <4>1
            <4>2. CASE s # t /\ task[s].pc \in Deploying
                <5>1. task[s].loc \in Locations \ {l}
                    BY <1>0, <2>2, <4>2 DEF TasksOK, Serving, Deploying
                <5> QED
                    BY <1>0, <2>1, <3>1, <4>2, <5>1
                       DEF NewestDeployed, TypeOK
            <4>3. CASE s # t /\ task[s].pc \notin Deploying
                BY <2>1, <4>3 DEF Deploying
            <4> QED
                BY <4>1, <4>2, <4>3
        <3>3. NewestRuns'
            BY <1>0, <3>1 DEF NewestRuns, Running, TypeOK
        <3> QED
            BY <2>3, <3>2, <3>3 DEF DeployInv
    <2>5. CASE ref # Prod
        <3>1. /\ UNCHANGED <<prod, local, containers, undeployed>>
              /\ task'[t].pc = "ps"
            BY <1>5, <2>1, <2>5 DEF Push
        <3>2. NewestDeployed' /\ NewestRuns'
            BY <1>0, <2>1, <3>1
               DEF NewestDeployed, NewestRuns, Running, Deploying
        <3> QED
            BY <2>3, <3>2 DEF DeployInv
    <2> QED
        BY <2>4, <2>5
<1>6. ASSUME NEW t \in Tasks, NEW l \in Locations, NEW c \in Configs,
             PutConfig(t, l, c)
      PROVE  DeployInv'
    <2>1. /\ task'[t].pc = "truncate"
          /\ task'[t].loc = l
          /\ \A s \in Tasks \ {t} : task'[s] = task[s]
        BY <1>0, <1>6, PutConfigTask
    <2>2. \A s \in Tasks : task[s].pc \in Serving => task[s].loc # l
        BY <1>6 DEF PutConfig, MayStart
    <2>3. OnePerLocation'
        BY <1>0, <2>1, <2>2 DEF OnePerLocation
    <2>4. NewestDeployed' /\ NewestRuns'
        BY <1>0, <1>6, <2>1
           DEF PutConfig, NewestDeployed, NewestRuns, Running, Deploying
    <2> QED
        BY <2>3, <2>4 DEF DeployInv
<1>7. ASSUME NEW t \in Tasks, NEW l \in Locations, RefreshLoad(t, l)
      PROVE  DeployInv'
    <2>1. /\ task'[t].pc \in {"swap", "load"}
          /\ task'[t].loc = task[t].loc
          /\ \A s \in Tasks \ {t} : task'[s] = task[s]
        BY <1>0, <1>7, LoadTask
    <2> QED
        BY <1>7, <2>1, EaseDeployInv DEF RefreshLoad, Serving, Deploying
<1>8. ASSUME NEW t \in Tasks, PodmanRm(t) PROVE DeployInv'
    <2>1. /\ task'[t].pc = "pull"
          /\ task'[t].loc = task[t].loc
          /\ task[t].pc = "rm"
          /\ \A s \in Tasks \ {t} : task'[s] = task[s]
        BY <1>0, <1>8, MoveTask DEF PodmanRm, Serving, Deploying
    <2>2. task[t].loc \in undeployed
        BY <1>0, <2>1 DEF NewestDeployed, Deploying
    <2>3. OnePerLocation'
        BY <1>0, <2>1 DEF OnePerLocation, Serving, Deploying
    <2>4. NewestDeployed'
        BY <1>0, <1>8, <2>1, <2>2 DEF PodmanRm, NewestDeployed
    <2>5. NewestRuns'
        BY <1>0, <1>8, <2>2 DEF PodmanRm, NewestRuns, Running, TypeOK
    <2> QED
        BY <2>3, <2>4, <2>5 DEF DeployInv
<1>9. ASSUME NEW t \in Tasks, PodmanPull(t) PROVE DeployInv'
    <2>1. /\ task'[t].pc = "store"
          /\ task'[t].loc = task[t].loc
          /\ task'[t].image = prod[task[t].loc]
          /\ task[t].pc = "pull"
          /\ \A s \in Tasks \ {t} : task'[s] = task[s]
        BY <1>0, <1>9, PullTask DEF PodmanPull
    <2>2. task[t].loc \in undeployed
        BY <1>0, <2>1 DEF NewestDeployed, Deploying
    <2>3. OnePerLocation'
        BY <1>0, <2>1 DEF OnePerLocation, Serving, Deploying
    <2>4. NewestDeployed' /\ NewestRuns'
        BY <1>0, <1>9, <2>1, <2>2
           DEF PodmanPull, NewestDeployed, NewestRuns, Running
    <2> QED
        BY <2>3, <2>4 DEF DeployInv
<1>10. ASSUME NEW t \in Tasks, PodmanStore(t) PROVE DeployInv'
    <2>1. /\ task'[t].pc = "run"
          /\ task'[t].loc = task[t].loc
          /\ task[t].pc = "store"
          /\ \A s \in Tasks \ {t} : task'[s] = task[s]
        BY <1>0, <1>10, MoveTask DEF PodmanStore, Serving, Deploying
    <2>2. /\ task[t].loc \in undeployed
          /\ task[t].loc \in Locations
          /\ task[t].image = prod[task[t].loc]
        BY <1>0, <2>1 DEF NewestDeployed, Deploying, TasksOK
    <2>3. \A l \in Locations : local'[l] = IF l = task[t].loc
                                           THEN prod[l] ELSE local[l]
        BY <1>0, <1>10, <2>2 DEF PodmanStore, TypeOK
    <2>4. OnePerLocation'
        BY <1>0, <2>1 DEF OnePerLocation, Serving, Deploying
    <2>5. NewestDeployed'
        <3> SUFFICES ASSUME NEW s \in Tasks \ {t}
                     PROVE  task[s].pc = "run"
                              => local'[task[s].loc] = prod[task[s].loc]
            BY <1>0, <1>10, <2>1, <2>2, <2>3 DEF PodmanStore, NewestDeployed
        <3> QED
            BY <1>0, <2>3 DEF NewestDeployed, TasksOK
    <2>6. NewestRuns'
        BY <1>0, <1>10 DEF PodmanStore, NewestRuns, Running
    <2> QED
        BY <2>4, <2>5, <2>6 DEF DeployInv
<1>11. ASSUME NEW t \in Tasks, PodmanRun(t) PROVE DeployInv'
    <2> DEFINE l == task[t].loc
    <2>1. /\ task'[t].pc = "ps"
          /\ task'[t].loc = l
          /\ task[t].pc = "run"
          /\ \A s \in Tasks \ {t} : task'[s] = task[s]
        BY <1>0, <1>11, MoveTask DEF PodmanRun, Serving
    <2>2. l \in Locations /\ local[l] = prod[l]
        BY <1>0, <2>1 DEF NewestDeployed, TasksOK
    <2>3. /\ containers'[l] \in Container
          /\ containers'[l].image = prod[l]
          /\ \A m \in Locations \ {l} : containers'[m] = containers[m]
        BY <1>0, <1>11, <2>2 DEF PodmanRun, TypeOK, Container
    <2>4. OnePerLocation'
        BY <1>0, <2>1 DEF OnePerLocation, Serving, Deploying
    <2>5. NewestDeployed'
        <3>1. \A s \in Tasks \ {t} : task[s].pc \in Deploying
                                       => task[s].loc # l
            BY <1>0, <2>1 DEF OnePerLocation, Serving, Deploying
        <3> QED
            BY <1>0, <1>11, <2>1, <3>1
               DEF PodmanRun, NewestDeployed, Deploying
    <2>6. NewestRuns'
        BY <1>0, <1>11, <2>2, <2>3 DEF PodmanRun, NewestRuns, Running
    <2> QED
        BY <2>4, <2>5, <2>6 DEF DeployInv
<1>12. ASSUME NEW t \in Tasks, PodmanError(t) PROVE DeployInv'
    BY <1>12, MoveDeployInv
       DEF PodmanError, PodmanFails, Serving, Deploying
<1>13. ASSUME NEW t \in Tasks, ConfigTruncate(t) PROVE DeployInv'
    <2>1. \/ task[t].pc = "truncate" /\ Move(t, "write")
          \/ Move(t, "late_write")
        BY <1>13 DEF ConfigTruncate
    <2> QED
        BY <1>13, <2>1, MoveDeployInv
           DEF ConfigTruncate, Serving, Deploying, Late
<1>14. ASSUME NEW t \in Tasks, ConfigWrite(t) PROVE DeployInv'
    BY <1>14, MoveDeployInv DEF ConfigWrite, Serving, Deploying
<1>15. ASSUME NEW t \in Tasks, ConfigWriteError(t) PROVE DeployInv'
    BY <1>15, MoveDeployInv DEF ConfigWriteError
<1>16. ASSUME NEW t \in Tasks, ConfigVerify(t) PROVE DeployInv'
    BY <1>16, MoveDeployInv DEF ConfigVerify, Serving, Deploying
<1>17. ASSUME NEW t \in Tasks, RefreshList(t) PROVE DeployInv'
    <2>1. /\ task'[t].pc \in {"swap", "load"}
          /\ task'[t].loc = task[t].loc
          /\ \A s \in Tasks \ {t} : task'[s] = task[s]
        BY <1>0, <1>17, ListTask
    <2> QED
        BY <1>17, <2>1, EaseDeployInv DEF RefreshList, Serving, Deploying
<1>18. ASSUME NEW t \in Tasks, RefreshError(t) PROVE DeployInv'
    BY <1>18, MoveDeployInv DEF RefreshError
<1>19. ASSUME NEW t \in Tasks, RefreshSwap(t) PROVE DeployInv'
    BY <1>19, MoveDeployInv DEF RefreshSwap
<1>20. ASSUME NEW t \in Tasks, Disconnect(t) PROVE DeployInv'
    <2>1. Move(t, "late_truncate") \/ Move(t, "late_write") \/ End(t)
        BY <1>20 DEF Disconnect
    <2> QED
        BY <1>20, <2>1, MoveDeployInv
           DEF Disconnect, Serving, Deploying, Late
<1>21. CASE UNCHANGED vars
    BY <1>0, <1>21 DEF vars, DeployInv, OnePerLocation, NewestDeployed,
                       NewestRuns, Running
<1> QED
    BY <1>1, <1>2, <1>3, <1>4, <1>5, <1>6, <1>7, <1>8, <1>9, <1>10, <1>11,
       <1>12, <1>13, <1>14, <1>15, <1>16, <1>17, <1>18, <1>19, <1>20, <1>21
       DEF Next

(* The newest push is what runs, for clients that do not overlap their     *)
(* requests for a location, through every fault, crash and broken          *)
(* connection.  For others TLC refutes it, in the run orch_old_image.      *)
THEOREM NewestPushRuns ==
    ASSUME Overlap # "any"
    PROVE  Spec => []LatestDeployed
<1>1. Spec => [](TypeInv /\ DeployInv)
    BY InitTypeInv, NextTypeInv, InitDeployInv, NextDeployInv, PTL DEF Spec
<1>2. DeployInv => LatestDeployed
    BY DEF DeployInv, NewestRuns, LatestDeployed
<1> QED
    BY <1>1, <1>2, PTL

-----------------------------------------------------------------------------

(* The routes are those of the containers that run, and all but the ones   *)
(* that are still listed have the configuration of the file.               *)
Matches(routes, listed) ==
    \A l \in Locations :
        /\ routes[l] = NoRoute <=> l \notin Running
        /\ l \in Running => routes[l].port = containers[l].port
        /\ l \in Running \ listed => routes[l].config = configs[l]

OneRequest ==
    \A s, t \in Tasks :
        task[s].pc \in Serving /\ task[t].pc \in Serving => s = t

(* Between requests the table is that of the containers and files; during  *)
(* a refresh so are the routes that will replace it.                       *)
TableOK ==
    /\ phase # "up" => refresh = "lost"
    /\ refresh = "current" /\ (\A t \in Tasks : task[t].pc \notin Serving)
         => Matches(table, {})
    /\ refresh = "current" =>
         \A t \in Tasks : task[t].pc \in {"load", "swap"}
                            => Matches(task[t].routes, task[t].listed)
    /\ \A t \in Tasks : task[t].pc = "swap" => task[t].listed = {}

(* The invariant behind RoutesCurrent and ConfigsCurrent, for requests     *)
(* that do not overlap.                                                    *)
CurrentInv == Overlap = "none" => OneRequest /\ TableOK

(* A handler that is busy before its refresh hides the table.              *)
LEMMA BusyCurrentInv ==
    ASSUME NEW t \in Tasks, phase' = "up",
           task'[t].pc \in Serving \ {"load", "swap"},
           \A s \in Tasks \ {t} : task'[s].pc \notin Serving
    PROVE  CurrentInv'
<1>1. OneRequest'
    BY DEF OneRequest
<1>2. TableOK'
    BY DEF TableOK, Serving
<1> QED
    BY <1>1, <1>2 DEF CurrentInv

(* One that ends without a refresh marks it.                               *)
LEMMA LostCurrentInv ==
    ASSUME CurrentInv, NEW t \in Tasks, refresh' = "lost",
           task'[t].pc \notin Serving,
           \A s \in Tasks \ {t} : task'[s] = task[s]
    PROVE  CurrentInv'
<1>1. CurrentInv' <=> (Overlap = "none" => OneRequest' /\ TableOK')
    BY DEF CurrentInv
<1>2. Overlap = "none" => OneRequest'
    BY DEF CurrentInv, OneRequest
<1>3. Overlap = "none" => TableOK'
    BY DEF CurrentInv, TableOK, Serving
<1> QED
    BY <1>1, <1>2, <1>3

(* A handler that is moved on before its refresh is alone.                 *)
LEMMA MoveCurrentInv ==
    ASSUME TypeInv, CurrentInv, Overlap = "none", NEW t \in Tasks,
           NEW pc \in Serving \ {"load", "swap"}, Move(t, pc),
           task[t].pc \in Serving, UNCHANGED phase
    PROVE  CurrentInv'
<1>1. task \in [Tasks -> TaskSet] /\ phase = "up"
    BY TypeTask DEF TypeInv, TasksOK, Serving, Deploying
<1>2. \A s \in Tasks \ {t} : task[s].pc \notin Serving
    BY DEF CurrentInv, OneRequest
<1>3. /\ task'[t].pc = pc
      /\ \A s \in Tasks \ {t} : task'[s] = task[s]
    BY <1>1, MoveTask
<1> QED
    BY <1>1, <1>2, <1>3, BusyCurrentInv

LEMMA InitCurrentInv == Init => CurrentInv
    BY NoTaskType DEF Init, CurrentInv, OneRequest, TableOK, Serving, Deploying

LEMMA NextCurrentInv == TypeInv /\ CurrentInv /\ [Next]_vars => CurrentInv'
<1> USE OrchestratorAssumption
<1> SUFFICES ASSUME TypeInv, CurrentInv, [Next]_vars, Overlap = "none"
             PROVE  CurrentInv'
    BY DEF CurrentInv
<1>0. /\ TypeOK
      /\ TasksOK
      /\ task \in [Tasks -> TaskSet]
      /\ OneRequest
      /\ TableOK
    BY TypeTask DEF TypeInv, CurrentInv
<1>1. CASE StartupSync
    <2>1. UNCHANGED containers
        BY <1>0, <1>1, TagNames DEF StartupSync, TypeOK
    <2>2. OneRequest'
        BY <1>0, <1>1 DEF StartupSync, OneRequest
    <2>3. refresh' = "lost" /\ UNCHANGED task
        BY <1>0, <1>1 DEF StartupSync, TableOK
    <2>4. TableOK'
        BY <1>0, <2>3 DEF TableOK
    <2> QED
        BY <2>2, <2>4 DEF CurrentInv
<1>2. CASE StartupRefresh
    <2>1. OneRequest'
        BY <1>0, <1>2 DEF StartupRefresh, OneRequest
    <2>2. \A t \in Tasks : task'[t].pc = "idle"
        BY <1>0, <1>2 DEF StartupRefresh, TasksOK
    <2>3. CASE UNCHANGED <<table, refresh>>
        BY <1>0, <1>2, <2>2, <2>3 DEF StartupRefresh, TableOK, CurrentInv,
                                      OneRequest, Serving, Deploying
    <2>4. CASE /\ \A l \in Running : LoadConfig(l, ImageTag) # Torn
               /\ table' = FromContainers([l \in Locations |->
                                              LoadConfig(l, ImageTag)])
        <3> DEFINE R(l) == [port   |-> containers[l].port,
                            config |-> configs[l]]
        <3>1. table' = [l \in Locations |-> IF l \in Running THEN R(l)
                                                             ELSE NoRoute]
            BY <2>4, TagNames DEF FromContainers
        <3>2. ASSUME NEW l \in Running
              PROVE  /\ R(l) # NoRoute
                     /\ R(l).port = containers[l].port
                     /\ R(l).config = configs[l]
            <4>1. /\ containers[l].port \in Ports
                  /\ configs[l] \in Configs \cup {Default}
                BY <1>0, <2>4, TagNames DEF Running, TypeOK, Container
            <4>2. R(l) \in RouteSet
                BY <4>1 DEF RouteSet
            <4> QED
                BY <4>2
        <3> HIDE DEF R
        <3>3. Matches(table', {})
            BY <3>1, <3>2 DEF Matches
        <3>4. Matches(table, {})'
            BY <1>2, <3>3 DEF StartupRefresh, Matches, Running
        <3>5. TableOK'
            BY <1>2, <2>2, <3>4 DEF StartupRefresh, TableOK
        <3> QED
            BY <2>1, <3>5 DEF CurrentInv
    <2> QED
        BY <1>2, <2>3, <2>4 DEF StartupRefresh
<1>3. CASE Crash
    BY <1>3, NoTaskType
       DEF Crash, CurrentInv, OneRequest, TableOK, Serving, Deploying
<1>4. ASSUME NEW l \in Locations, ContainerExit(l) PROVE CurrentInv'
    BY <1>0, <1>4 DEF ContainerExit, CurrentInv, OneRequest, TableOK
<1>5. ASSUME NEW t \in Tasks, NEW l \in Locations, NEW ref \in Tags,
             NEW i \in Images, Push(t, l, ref, i)
      PROVE  CurrentInv'
    <2>1. /\ task'[t].pc \in {"rm", "ps"}
          /\ \A s \in Tasks \ {t} : task'[s] = task[s]
        BY <1>0, <1>5, PushTask
    <2>2. phase' = "up" /\ \A s \in Tasks : task[s].pc \notin Serving
        BY <1>5 DEF Push, MayStart
    <2> QED
        BY <2>1, <2>2, BusyCurrentInv DEF Serving, Deploying
<1>6. ASSUME NEW t \in Tasks, NEW l \in Locations, NEW c \in Configs,
             PutConfig(t, l, c)
      PROVE  CurrentInv'
    <2>1. /\ task'[t].pc = "truncate"
          /\ \A s \in Tasks \ {t} : task'[s] = task[s]
        BY <1>0, <1>6, PutConfigTask
    <2>2. phase' = "up" /\ \A s \in Tasks : task[s].pc \notin Serving
        BY <1>6 DEF PutConfig, MayStart
    <2> QED
        BY <2>1, <2>2, BusyCurrentInv DEF Serving
<1>7. ASSUME NEW t \in Tasks, NEW l \in Locations, RefreshLoad(t, l)
      PROVE  CurrentInv'
    <2>1. /\ task'[t].pc = IF task'[t].listed = {} THEN "swap" ELSE "load"
          /\ task'[t].listed = task[t].listed \ {l}
          /\ task'[t].routes[l].port = task[t].routes[l].port
          /\ task'[t].routes[l].config = configs[l]
          /\ \A m \in Locations :
                /\ task'[t].routes[m] = NoRoute <=>
                     task[t].routes[m] = NoRoute
                /\ m # l => task'[t].routes[m] = task[t].routes[m]
          /\ \A s \in Tasks \ {t} : task'[s] = task[s]
        BY <1>0, <1>7, LoadTask
    <2>2. /\ task[t].pc = "load"
          /\ phase = "up"
          /\ UNCHANGED <<phase, containers, configs, table, refresh>>
        BY <1>0, <1>7 DEF RefreshLoad, TasksOK
    <2>3. \A s \in Tasks \ {t} : task[s].pc \notin Serving
        BY <1>0, <2>2 DEF OneRequest, Serving
    <2>4. OneRequest'
        BY <2>1, <2>3 DEF OneRequest
    <2>5. refresh = "current" => Matches(task[t].routes, task[t].listed)'
        <3> SUFFICES ASSUME Matches(task[t].routes, task[t].listed)
                     PROVE  Matches(task[t].routes, task[t].listed)'
            BY <1>0, <2>2 DEF TableOK
        <3> QED
            BY <2>1, <2>2 DEF Matches, Running
    <2>6. TableOK'
        BY <2>1, <2>2, <2>3, <2>5 DEF TableOK, Serving
    <2> QED
        BY <2>4, <2>6 DEF CurrentInv
<1>8. ASSUME NEW t \in Tasks, PodmanRm(t) PROVE CurrentInv'
    BY <1>8, MoveCurrentInv DEF PodmanRm, Serving, Deploying
<1>9. ASSUME NEW t \in Tasks, PodmanPull(t) PROVE CurrentInv'
    <2>1. /\ task'[t].pc = "store"
          /\ task[t].pc = "pull"
          /\ phase' = "up"
          /\ \A s \in Tasks \ {t} : task'[s] = task[s]
        BY <1>0, <1>9, PullTask DEF PodmanPull, TasksOK
    <2>2. \A s \in Tasks \ {t} : task[s].pc \notin Serving
        BY <1>0, <2>1 DEF OneRequest, Serving, Deploying
    <2> QED
        BY <2>1, <2>2, BusyCurrentInv DEF Serving, Deploying
<1>10. ASSUME NEW t \in Tasks, PodmanStore(t) PROVE CurrentInv'
    BY <1>10, MoveCurrentInv DEF PodmanStore, Serving, Deploying
<1>11. ASSUME NEW t \in Tasks, PodmanRun(t) PROVE CurrentInv'
    BY <1>11, MoveCurrentInv DEF PodmanRun, Serving, Deploying
<1>12. ASSUME NEW t \in Tasks, PodmanError(t) PROVE CurrentInv'
    BY <1>12, MoveCurrentInv
       DEF PodmanError, PodmanFails, Serving, Deploying
<1>13. ASSUME NEW t \in Tasks, ConfigTruncate(t) PROVE CurrentInv'
    <2>1. CASE task[t].pc = "truncate"
        <3>1. Move(t, "write") /\ UNCHANGED phase
            BY <1>13, <2>1 DEF ConfigTruncate
        <3> QED
            BY <2>1, <3>1, MoveCurrentInv DEF Serving
    <2>2. CASE task[t].pc = "late_truncate"
        <3>1. Move(t, "late_write") /\ refresh' = "lost"
            BY <1>13, <2>2 DEF ConfigTruncate, Detached, Late
        <3>2. /\ task'[t].pc = "late_write"
              /\ \A s \in Tasks \ {t} : task'[s] = task[s]
            BY <1>0, <3>1, MoveTask DEF Late
        <3> QED
            BY <3>1, <3>2, LostCurrentInv DEF Serving, Deploying
    <2> QED
        BY <1>13, <2>1, <2>2 DEF ConfigTruncate
<1>14. ASSUME NEW t \in Tasks, ConfigWrite(t) PROVE CurrentInv'
    <2>1. CASE task[t].pc = "write"
        <3>1. Move(t, "verify") /\ UNCHANGED phase
            BY <1>14, <2>1 DEF ConfigWrite
        <3> QED
            BY <2>1, <3>1, MoveCurrentInv DEF Serving
    <2>2. CASE task[t].pc = "late_write"
        <3>1. End(t) /\ refresh' = "lost"
            BY <1>14, <2>2 DEF ConfigWrite, Detached, Late
        <3> QED
            BY <1>0, <3>1, EndTask, LostCurrentInv DEF Serving, Deploying
    <2> QED
        BY <1>14, <2>1, <2>2 DEF ConfigWrite
<1>15. ASSUME NEW t \in Tasks, ConfigWriteError(t) PROVE CurrentInv'
    BY <1>0, <1>15, EndTask, LostCurrentInv
       DEF ConfigWriteError, Serving, Deploying
<1>16. ASSUME NEW t \in Tasks, ConfigVerify(t) PROVE CurrentInv'
    <2>1. CASE Move(t, "ps")
        BY <1>16, <2>1, MoveCurrentInv DEF ConfigVerify, Serving
    <2>2. CASE End(t) /\ refresh' = "lost"
        BY <1>0, <2>2, EndTask, LostCurrentInv DEF Serving, Deploying
    <2> QED
        BY <1>16, <2>1, <2>2 DEF ConfigVerify
<1>17. ASSUME NEW t \in Tasks, RefreshList(t) PROVE CurrentInv'
    <2>1. /\ task'[t].pc = IF Running = {} THEN "swap" ELSE "load"
          /\ task'[t].listed = Running
          /\ \A l \in Locations :
                /\ task'[t].routes[l] = NoRoute <=> l \notin Running
                /\ l \in Running =>
                     task'[t].routes[l].port = containers[l].port
          /\ \A s \in Tasks \ {t} : task'[s] = task[s]
        BY <1>0, <1>17, ListTask
    <2>2. /\ task[t].pc = "ps"
          /\ phase = "up"
          /\ UNCHANGED <<phase, containers, configs>>
        BY <1>0, <1>17 DEF RefreshList, TasksOK
    <2>3. \A s \in Tasks \ {t} : task[s].pc \notin Serving
        BY <1>0, <2>2 DEF OneRequest, Serving
    <2>4. OneRequest'
        BY <2>1, <2>3 DEF OneRequest
    <2>5. Matches(task[t].routes, task[t].listed)'
        BY <2>1, <2>2 DEF Matches, Running
    <2>6. TableOK'
        BY <2>1, <2>2, <2>3, <2>5 DEF TableOK, Serving
    <2> QED
        BY <2>4, <2>6 DEF CurrentInv
<1>18. ASSUME NEW t \in Tasks, RefreshError(t) PROVE CurrentInv'
    BY <1>0, <1>18, EndTask, LostCurrentInv
       DEF RefreshError, Serving, Deploying
<1>19. ASSUME NEW t \in Tasks, RefreshSwap(t) PROVE CurrentInv'
    <2>1. /\ task'[t].pc = "idle"
          /\ \A s \in Tasks \ {t} : task'[s] = task[s]
        BY <1>0, <1>19, EndTask DEF RefreshSwap
    <2>2. /\ task[t].pc = "swap"
          /\ table' = task[t].routes
          /\ UNCHANGED <<phase, containers, configs, refresh>>
        BY <1>19 DEF RefreshSwap
    <2>3. \A s \in Tasks \ {t} : task[s].pc \notin Serving
        BY <1>0, <2>2 DEF OneRequest, Serving
    <2>4. OneRequest'
        BY <2>1, <2>3 DEF OneRequest, Serving, Deploying
    <2>5. refresh = "current" => Matches(table, {})'
        BY <1>0, <2>2 DEF TableOK, Matches, Running
    <2>6. TableOK'
        BY <1>0, <2>1, <2>2, <2>3, <2>5 DEF TableOK, Serving
    <2> QED
        BY <2>4, <2>6 DEF CurrentInv
<1>20. ASSUME NEW t \in Tasks, Disconnect(t) PROVE CurrentInv'
    <2>1. Move(t, "late_truncate") \/ Move(t, "late_write") \/ End(t)
        BY <1>20 DEF Disconnect
    <2>2. /\ task'[t].pc \notin Serving
          /\ \A s \in Tasks \ {t} : task'[s] = task[s]
        BY <1>0, <2>1, MoveTask, EndTask DEF Serving, Deploying, Late
    <2> QED
        BY <1>20, <2>2, LostCurrentInv DEF Disconnect
<1>21. CASE UNCHANGED vars
    BY <1>0, <1>21 DEF vars, CurrentInv, OneRequest, TableOK, Matches, Running
<1> QED
    BY <1>1, <1>2, <1>3, <1>4, <1>5, <1>6, <1>7, <1>8, <1>9, <1>10, <1>11,
       <1>12, <1>13, <1>14, <1>15, <1>16, <1>17, <1>18, <1>19, <1>20, <1>21
       DEF Next

LEMMA CurrentInvariance == Spec => [](TypeInv /\ CurrentInv)
    BY InitTypeInv, NextTypeInv, InitCurrentInv, NextCurrentInv, PTL DEF Spec

(* When requests come one at a time, every running container is routed at  *)
(* its port between them, and nothing else is, unless a refresh failed or  *)
(* a container stopped.  For requests that overlap TLC refutes it, in the  *)
(* run orch_lost_route.                                                    *)
THEOREM RoutesAreCurrent ==
    ASSUME Overlap = "none"
    PROVE  Spec => []RoutesCurrent
<1>1. TypeInv /\ CurrentInv => RoutesCurrent
    <2> SUFFICES ASSUME CurrentInv, Quiet, refresh = "current"
                 PROVE  Matches(table, {})
        BY DEF RoutesCurrent, Matches
    <2> QED
        BY DEF CurrentInv, TableOK, Quiet, Serving, Deploying
<1> QED
    BY <1>1, CurrentInvariance, PTL

(* And every route has the configuration that was stored last.             *)
THEOREM ConfigsAreCurrent ==
    ASSUME Overlap = "none"
    PROVE  Spec => []ConfigsCurrent
<1>1. TypeInv /\ CurrentInv => ConfigsCurrent
    <2> SUFFICES ASSUME CurrentInv, Quiet, refresh = "current"
                 PROVE  Matches(table, {})
        BY DEF ConfigsCurrent, Matches
    <2> QED
        BY DEF CurrentInv, TableOK, Quiet, Serving, Deploying
<1> QED
    BY <1>1, CurrentInvariance, PTL

=============================================================================
