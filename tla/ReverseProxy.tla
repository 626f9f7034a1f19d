---------------------------- MODULE ReverseProxy ----------------------------
(***************************************************************************)
(* Requests through the reverse proxy: route_request from the reading of   *)
(* the routing table to the answer of a container, and the internal URLs   *)
(* that configure one, while podman starts and stops containers and        *)
(* refreshes replace the table.                                            *)
(*                                                                         *)
(* A refresh takes podman ps, the loading of one configuration after the   *)
(* other and the swap; a configuration is truncated, written and read      *)
(* back.  Everything else may happen in between, other refreshes too.  The *)
(* steps of a deployment are the subject of Orchestrator.                  *)
(***************************************************************************)
EXTENDS Routing, Auth, FiniteSets

CONSTANTS
    Locations,  \* repository/image of the images that are pushed as :prod
    Foreign,    \* names of containers that rockslide did not start
    Ports,      \* host ports that podman assigns
    Configs,    \* {}: everybody may enter; {m}: who is in the access map m
    MasterKey,  \* {} when it is locked, otherwise {the key}
    Headers,    \* Authorization headers of clients
    Queries,    \* hosts and paths that clients ask for
    Requests,   \* slots for requests that are served concurrently
    NoQuery,
    Empty,      \* a configuration file that has just been truncated
    Torn        \* a configuration file that does not parse

(* A repository neither contains the separator nor ends in a dash.         *)
Plain(repository) ==
    \A i \in DOMAIN repository :
        SubSeq(repository \o <<"-", "-">>, i, i + 2) # <<"-", "-", "-">>

(* The code does not look: other repositories do not survive the way       *)
(* through a container name, and are left out.  podman takes no name with  *)
(* a colon.                                                                *)
ASSUME PlainRepositories ==
    \A l \in Locations :
        /\ l = [repository |-> l.repository, image |-> l.image]
        /\ l.repository \in Seq(DOMAIN Lower) /\ l.image \in Seq(STRING)
        /\ ":" \notin ToSet(l.repository)
        /\ Plain(l.repository)

ASSUME ProxyAssumption ==
    /\ \A n \in Foreign : ~IsPrefix(<<"rockslide", "-", "-", "-">>, n)
    /\ \A q \in Queries :
          /\ q.host \subseteq Seq(DOMAIN Lower)
          /\ q.path \in Seq(Seq(STRING)) /\ q.path # <<>>
    /\ NoQuery \notin Queries
    /\ "containers" \notin Ports
    /\ {Empty, Torn} \cap (Configs \cup {{}}) = {} /\ Empty # Torn

VARIABLES
    running,  \* podman's containers; loc is {the location}, {} for others
    configs,  \* the files below configs/, by path
    table,    \* routing_table
    req,      \* req[r]: the request served in slot r; asked, open and sure
              \* are history: the locations that it names, that a stored
              \* configuration lets it in, and that its port was not handed
              \* out again
    refresh,  \* refresh[r]: the updated_published_set of slot r: what is
              \* still to be loaded, and the table, since and stored that it
              \* ends with
    since,    \* history: "containers" when any was started or stopped, and
              \* the ports handed out, since the podman ps of the refresh
              \* that made the table
    stored    \* history: the configurations <<l, c>> that were stored at
              \* some moment since then

vars == <<running, configs, table, req, refresh, since, stored>>

-----------------------------------------------------------------------------

Free == [pc      |-> "free",
         query   |-> NoQuery,
         payload |-> {},
         dest    |-> [kind |-> "not_found"],
         asked   |-> {},
         open    |-> FALSE,
         sure    |-> FALSE]

NoRefresh == [todo |-> {}, table |-> EmptyTable, since |-> {}, stored |-> {}]

Init ==
    /\ running = {}
    /\ configs = <<>>
    /\ table   = EmptyTable
    /\ req     = [r \in Requests |-> Free]
    /\ refresh = [r \in Requests |-> NoRefresh]
    /\ since   = {"containers"}
    /\ stored  = {}

(* config_path of a location under a reference.                            *)
ConfigPath(l, ref) == <<l.repository, l.image, NamespacedDir(ref)>>

(* An empty file is the default configuration ...                          *)
Parsed(content) == IF content = Empty THEN {} ELSE content

(* ... and so is one that does not exist, for load_config.                 *)
LoadConfig(l, ref) ==
    LET path == ConfigPath(l, ref)
    IN  IF path \in DOMAIN configs THEN Parsed(configs[path]) ELSE {}

(* The containers that load_managed_container does not pass over.          *)
Managed == {c \in running : ImageLocation(c.name) # {}}

(* load_managed_container of one of them; it publishes one port.           *)
LoadManagedContainer(c) ==
    {[location |-> l,
      port     |-> c.port,
      config   |-> LoadConfig(l, ImageTag)] : l \in ImageLocation(c.name)}

Loading(r) == req[r].pc = "load"

(* Containers are started or stopped, or ports handed out: the table and   *)
(* the refreshes that have asked podman already do not know.               *)
NoteContainers(changes) ==
    /\ since'   = since \cup changes
    /\ refresh' = [r \in Requests |->
                     IF Loading(r)
                     THEN [refresh[r] EXCEPT !.since = @ \cup changes]
                     ELSE refresh[r]]
    /\ UNCHANGED <<configs, table, stored>>

(* A write to the file of l stores a configuration, if it parses.          *)
WriteFile(l, content) ==
    LET new == {<<l, c>> : c \in {Parsed(content)} \ {Torn}}
    IN  /\ configs' = Insert(configs, ConfigPath(l, Prod), content)
        /\ stored'  = stored \cup new
        /\ refresh' = [r \in Requests |->
                         IF Loading(r)
                         THEN [refresh[r] EXCEPT !.stored = @ \cup new]
                         ELSE refresh[r]]
        /\ UNCHANGED <<running, table, since>>

(* podman hands out port p: from now on a route to it may be wrong.        *)
HandOut(p) ==
    /\ NoteContainers({"containers", p})
    /\ req' = [r \in Requests |->
                 IF req[r].dest.kind = "proxied" /\ req[r].dest.to.port = p
                 THEN [req[r] EXCEPT !.sure = FALSE] ELSE req[r]]

FreePort(p) == \A c \in running : c.port # p

(* A push runs its image under the name of its location.                   *)
RunContainer(l, p) ==
    /\ \A c \in running : c.name # ContainerName(l)
    /\ FreePort(p)
    /\ running' = running \cup
                    {[name |-> ContainerName(l), port |-> p, loc |-> {l}]}
    /\ HandOut(p)

(* Somebody else runs a container on this machine.                         *)
RunForeign(n, p) ==
    /\ \A c \in running : c.name # n
    /\ FreePort(p)
    /\ running' = running \cup {[name |-> n, port |-> p, loc |-> {}]}
    /\ HandOut(p)

(* A container is removed, or exits.                                       *)
StopContainer(c) ==
    /\ running' = running \ {c}
    /\ NoteContainers({"containers"})
    /\ UNCHANGED req

-----------------------------------------------------------------------------

Move(r, pc) == req' = [req EXCEPT ![r].pc = pc]

Answer(r) == req' = [req EXCEPT ![r] = Free]

(* updated_published_set starts.                                           *)
StartRefresh(r) == req' = [req EXCEPT ![r] = [Free EXCEPT !.pc = "ps"]]

(* A push has reached the refresh at its end.                              *)
PushRefresh(r) ==
    /\ req[r].pc = "free"
    /\ StartRefresh(r)
    /\ UNCHANGED <<running, configs, table, refresh, since, stored>>

(* The configurations that the files hold now.                             *)
Stored == {s \in {<<l, LoadConfig(l, Prod)>> : l \in Locations} : s[2] # Torn}

(* fetch_managed_containers asks podman ps for what runs ...               *)
RefreshList(r) ==
    /\ req[r].pc = "ps"
    /\ Move(r, "load")
    /\ refresh' = [refresh EXCEPT ![r] = [todo   |-> Managed,
                                          table  |-> EmptyTable,
                                          since  |-> {},
                                          stored |-> Stored]]
    /\ UNCHANGED <<running, configs, table, since, stored>>

(* Mutant of RefreshLoad: a configuration that does not parse is used.     *)
RefreshLoadTorn(r, c) ==
    /\ Loading(r)
    /\ \E e \in LoadManagedContainer(c) :
          refresh' = [refresh EXCEPT ![r].todo  = @ \ {c},
                                     ![r].table = Inserted(@, e)]
    /\ UNCHANGED <<running, configs, table, req, since, stored>>

(* ... and loads one after the other, in the order of podman's list, which *)
(* may be any.  In this order from_containers will insert them; here it    *)
(* does so as they come.                                                   *)
RefreshLoad(r, c) ==
    /\ Loading(r)
    /\ \E e \in LoadManagedContainer(c) :
          /\ e.config # Torn
          /\ refresh' = [refresh EXCEPT ![r].todo  = @ \ {c},
                                        ![r].table = Inserted(@, e)]
    /\ UNCHANGED <<running, configs, table, req, since, stored>>

(* Mutant of RefreshSwap: the routes are added to the old table.           *)
RefreshSwapMerged(r) ==
    LET Added(old, map) == [k \in DOMAIN old \cup DOMAIN map |->
                              IF k \in DOMAIN map THEN map[k] ELSE old[k]]
    IN  /\ Loading(r) /\ refresh[r].todo = {}
        /\ table'   = [path_maps   |-> Added(table.path_maps,
                                             refresh[r].table.path_maps),
                       domain_maps |-> Added(table.domain_maps,
                                             refresh[r].table.domain_maps)]
        /\ since'   = refresh[r].since
        /\ stored'  = refresh[r].stored
        /\ refresh' = [refresh EXCEPT ![r] = NoRefresh]
        /\ Answer(r)
        /\ UNCHANGED <<running, configs>>

(* update_containers, whatever has happened since podman ps; then the push *)
(* or the PUT is answered.                                                 *)
RefreshSwap(r) ==
    /\ Loading(r) /\ refresh[r].todo = {}
    /\ table'   = refresh[r].table
    /\ since'   = refresh[r].since
    /\ stored'  = refresh[r].stored
    /\ refresh' = [refresh EXCEPT ![r] = NoRefresh]
    /\ Answer(r)
    /\ UNCHANGED <<running, configs>>

(* podman ps or a load fails, which is only logged, or the client closes   *)
(* the connection, which drops the handler: the table stays as it is.      *)
GiveUp(r) ==
    /\ req[r].pc \in {"save", "verify", "ps", "load"}
    /\ refresh' = [refresh EXCEPT ![r] = NoRefresh]
    /\ Answer(r)
    /\ UNCHANGED <<running, configs, table, since, stored>>

-----------------------------------------------------------------------------

(* Mutant of Admits: only a header that is sent is checked.                *)
AdmitsAnonymous(config, header) ==
    header = {} \/ \A map \in config :
                     AccessChecks(map, UnverifiedCredentials(header))

(* A container with an access map asks for credentials.                    *)
Admits(config, header) ==
    \A map \in config : AccessChecks(map, UnverifiedCredentials(header))

(* An internal URL needs the master key and has to name a configuration;   *)
(* only a PUT changes anything.                                            *)
MayConfigure(q, header, payload) ==
    /\ MasterKeyChecks(MasterKey, UnverifiedCredentials(header))
    /\ ConfigUrl(q.path) # {}
    /\ payload # {}

(* A configuration that was stored for l since the podman ps of the        *)
(* refresh that made the table lets the header in.                         *)
WasOpen(l, header) ==
    \E s \in stored :
        /\ s[1] = l
        /\ \A map \in s[2] : UnverifiedCredentials(header) \cap map # {}

(* The locations that a host names: their repositories look like a domain  *)
(* and are that host but for upper and lower case and the port.            *)
OfHost(q) ==
    {l \in Locations :
        /\ "." \in ToSet(l.repository)
        /\ \E h \in q.host : \E n \in 0..Len(h) :
              /\ LowerCase(SubSeq(h, 1, n)) = LowerCase(l.repository)
              /\ n = Len(h) \/ h[n + 1] = ":"
              /\ \A i \in n + 2..Len(h) : h[i] # ":"}

OfDomain(q) == OfHost(q) \cap UNION {c.loc : c \in running}

(* The location that a path names.                                         *)
OfPath(q) ==
    LET s == Segments(q.path) IN
    {l \in Locations : Len(s) >= 2 /\ s[1] = l.repository /\ s[2] = l.image}

(* What a request asks for: the domain, where something runs for it, and   *)
(* otherwise the path.  A table that is not current may have either.       *)
Asked(q) ==
    CASE "containers" \in since -> OfHost(q) \cup OfPath(q)
      [] OTHER -> IF OfDomain(q) # {} THEN OfDomain(q) ELSE OfPath(q)

(* The table is read, under its lock, and the destination determined; the  *)
(* checks that follow look at nothing that others may change.              *)
RouteToContainer(r, q, header) ==
    LET dest == GetDestination(table, q) IN
    /\ req[r].pc = "free"
    /\ dest.kind = "proxied"
    /\ Admits(dest.to.config, header)
    /\ req' = [req EXCEPT ![r] =
                 [pc      |-> "send",
                  query   |-> q,
                  payload |-> {},
                  dest    |-> dest,
                  asked   |-> Asked(q),
                  open    |-> WasOpen(dest.to.location, header),
                  sure    |-> dest.to.port \notin since]]
    /\ UNCHANGED <<running, configs, table, refresh, since, stored>>

RouteInternally(r, q, header, payload) ==
    /\ req[r].pc = "free"
    /\ GetDestination(table, q).kind = "internal"
    /\ MayConfigure(q, header, payload)
    /\ req' = [req EXCEPT ![r] = [Free EXCEPT !.pc      = "save",
                                             !.query   = q,
                                             !.payload = payload]]
    /\ UNCHANGED <<running, configs, table, refresh, since, stored>>

(* The body has arrived, unless it is too long, and goes to whoever        *)
(* listens at the address now: its answer, or an error, is the answer.     *)
Send(r) ==
    /\ req[r].pc = "send"
    /\ Answer(r)
    /\ UNCHANGED <<running, configs, table, refresh, since, stored>>

(* tokio::fs::write of save_config truncates the file ...                  *)
TruncateConfig(r) ==
    /\ req[r].pc = "save"
    /\ \E l \in ConfigUrl(req[r].query.path) : WriteFile(l, Empty)
    /\ Move(r, "write")

(* ... and writes it.  Where another PUT has written in between, the tail  *)
(* of a longer text stays behind a shorter one, whatever that reads as.    *)
(* The thread that writes goes on when the handler is dropped.             *)
WriteConfig(r) ==
    /\ req[r].pc = "write"
    /\ \E l \in ConfigUrl(req[r].query.path), c \in Configs \cup {Torn} :
          /\ \/ c \in req[r].payload
             \/ configs[ConfigPath(l, Prod)] \notin {Empty} \cup req[r].payload
          /\ WriteFile(l, c)
    /\ Move(r, "verify")

(* The write fails, at once or half way: an error without a refresh.       *)
WriteError(r) ==
    /\ req[r].pc = "write"
    /\ \/ \E l \in ConfigUrl(req[r].query.path) : WriteFile(l, Torn)
       \/ UNCHANGED <<running, configs, table, refresh, since, stored>>
    /\ Answer(r)

(* "Read back to verify": a refresh follows where the file parses, and an  *)
(* error is the answer where it does not.                                  *)
VerifyConfig(r) ==
    /\ req[r].pc = "verify"
    /\ \E l \in ConfigUrl(req[r].query.path) :
          IF LoadConfig(l, Prod) # Torn THEN StartRefresh(r) ELSE Answer(r)
    /\ UNCHANGED <<running, configs, table, refresh, since, stored>>

Next ==
    \/ \E l \in Locations, p \in Ports : RunContainer(l, p)
    \/ \E n \in Foreign, p \in Ports : RunForeign(n, p)
    \/ \E c \in running : StopContainer(c)
    \/ \E r \in Requests, q \in Queries, h \in Headers :
          \/ RouteToContainer(r, q, h)
          \/ \E payload \in {{}} \cup {{c} : c \in Configs} :
                RouteInternally(r, q, h, payload)
    \/ \E r \in Requests :
          \/ Send(r)
          \/ TruncateConfig(r)
          \/ WriteConfig(r)
          \/ WriteError(r)
          \/ VerifyConfig(r)
          \/ PushRefresh(r)
          \/ RefreshList(r)
          \/ \E c \in refresh[r].todo : RefreshLoad(r, c)
          \/ RefreshSwap(r)
          \/ GiveUp(r)

Spec == Init /\ [][Next]_vars

-----------------------------------------------------------------------------

(* Every variable stays in its type; every route leads to a host port, and *)
(* no configuration that does not parse gets into the table.               *)
TypeOK ==
    /\ \A c \in running : /\ c.port \in Ports
                          /\ c.loc \subseteq Locations
    /\ \A p \in DOMAIN configs : configs[p] \in Configs \cup {Empty, Torn}
    /\ \A map \in {table.path_maps, table.domain_maps} :
          \A k \in DOMAIN map : /\ map[k].port \in Ports
                                /\ map[k].config \in Configs \cup {{}}
    /\ \A r \in Requests :
          /\ req[r].pc \in {"free", "send", "save", "write", "verify", "ps",
                            "load"}
          /\ req[r].query \in Queries \cup {NoQuery}
    /\ since \subseteq {"containers"} \cup Ports

(* README.md:35: a container is "made available under the server's root at *)
(* repo/image".  Unless podman has started or stopped one since the podman *)
(* ps of the refresh that made the table, every container is where the     *)
(* path of a request that names its location leads, through its name       *)
(* (image_location), the table of from_containers and split_path_base_url. *)
Reachable ==
    "containers" \notin since => \A q \in Queries, c \in running :
        /\ c.loc # {} /\ c.loc \subseteq OfPath(q)
        /\ OfDomain(q) = {}
        /\ ~IsInternal(q.path)
        => LET dest == GetDestination(table, q)
           IN  dest.kind = "proxied" /\ dest.to.port = c.port

(* route_request sends a request to an address that it has read from the   *)
(* table before it awaited the body, and the table may have been old then. *)
(* Whatever has stopped or started since: whoever listens there is a       *)
(* container of the domain or else of the location that the request asks   *)
(* for, never one that rockslide did not start, unless podman has handed   *)
(* out that very port again since the podman ps of the table's refresh.    *)
SentToOwn ==
    \A r \in Requests : req[r].pc = "send" /\ req[r].sure =>
        \A c \in running : c.port = req[r].dest.to.port =>
            c.loc # {} /\ c.loc \subseteq req[r].asked

(* README.md:67: a PUT "updates the access password".  route_request sends *)
(* a request to a container only if it is let in by a configuration that   *)
(* was stored for the location at some moment between the podman ps of the *)
(* refresh that made the table and the reading of the table.  Refreshes    *)
(* overlap, so that it may be older than a PUT that was answered; and it   *)
(* may be the default one, which a PUT leaves while it writes.             *)
AdmittedByStored ==
    \A r \in Requests : req[r].pc = "send" => req[r].open

(* Nothing of a path is lost: what get_destination_uri_from_request makes  *)
(* the X-Script-Name, followed by the path of the Uri that it makes, is    *)
(* the path of the request without its doubled slashes, with a slash added *)
(* where it ends in the location; a request for a domain keeps its path.   *)
PathPreserved ==
    \A r \in Requests : req[r].pc = "send" =>
        LET dest   == req[r].dest
            path   == req[r].query.path
            single == Segments(Front(path)) \o <<Last(path)>>
        IN  dest.script \o dest.path =
              CASE dest.script = <<>>     -> path
                [] dest.script = single   -> single \o << <<>> >>
                [] dest.script \notin {<<>>, single} -> single

(* README.md:44: the server also forwards a domain "should the repository  *)
(* part look like a domain and the image part be exactly index".           *)
DomainOfIndex ==
    \A d \in DOMAIN table.domain_maps :
        table.domain_maps[d].location.image = <<"index">>

=============================================================================
