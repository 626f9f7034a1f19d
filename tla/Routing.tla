------------------------------ MODULE Routing -------------------------------
(***************************************************************************)
(* The reverse proxy's routing decisions, as operators: the table that     *)
(* from_containers makes of containers, and the destination that a request *)
(* has in it.                                                              *)
(*                                                                         *)
(* A request has a host, {} or a set of one token sequence, and a path,    *)
(* the segments that split('/') finds after the leading slash: <<>> is an  *)
(* empty segment, and the last one is empty when the path ends in a slash. *)
(* An Option is a set with at most one element.                            *)
(***************************************************************************)
EXTENDS Names, Subsequences

CONSTANT Lower   \* Lower[x]: the token x in lower case

(* Only letters change: a dot and a colon stay, and nothing becomes one.   *)
ASSUME LowerAssumption ==
    \A x \in DOMAIN Lower :
        /\ Lower[x] = "." <=> x = "."
        /\ Lower[x] = ":" <=> x = ":"

-----------------------------------------------------------------------------

LowerCase(name) == [i \in DOMAIN name |-> Lower[name[i]]]

(* Domain::new: a name with a dot, in lower case.                          *)
DomainNew(raw) == {d \in {LowerCase(raw)} : \E i \in DOMAIN d : d[i] = "."}

(* The host without what follows its last colon.                           *)
Candidate(host) ==
    LET colons == {i \in DOMAIN host : host[i] = ":"}
    IN  IF colons = {} THEN host ELSE SubSeq(host, 1, Max(colons) - 1)

(* HashMap::insert.                                                        *)
Insert(map, key, value) ==
    [k \in DOMAIN map \cup {key} |-> IF k = key THEN value ELSE map[k]]

EmptyTable == [path_maps |-> <<>>, domain_maps |-> <<>>]

PathKeys(c)   == {c.location}
DomainKeys(c) == DomainNew(c.location.repository)

(* One turn of the loop of from_containers: the container gets the routes  *)
(* of its location and of its domain, whoever had them.                    *)
Inserted(t, c) ==
    LET Put(map, keys) ==
          [k \in DOMAIN map \cup keys |-> IF k \in keys THEN c ELSE map[k]]
    IN  [path_maps   |-> Put(t.path_maps, PathKeys(c)),
         domain_maps |-> Put(t.domain_maps, DomainKeys(c))]

-----------------------------------------------------------------------------

(* The segments that split('/') finds, without the empty ones.             *)
Segments(path) == Pick(path, {i \in DOMAIN path : path[i] # <<>>})

EndsWithSlash(path) == Last(path) = <<>>

(* split_path_base_url: the location and the remainder of the path.        *)
SplitPathBaseUrl(path) ==
    LET s == Segments(path)
    IN  IF Len(s) >= 2
        THEN {[location  |-> [repository |-> s[1], image |-> s[2]],
               remainder |-> SubSeq(s, 3, Len(s))]}
        ELSE {}

(* The path starts with "/_rockslide".                                     *)
IsInternal(path) == path[1] # <<>> /\ path[1][1] = "_rockslide"

(* Mutant of DestinationPath: the slash at the end is lost.                *)
DestinationPathBare(path, remainder) ==
    IF remainder = <<>> THEN << <<>> >> ELSE remainder

(* The path of the Uri that is made for the container.  Where nothing is   *)
(* left of the path, PathAndQuery::from_str("") stands for "/".            *)
DestinationPath(path, remainder) ==
    IF remainder = <<>> \/ EndsWithSlash(path)
    THEN remainder \o << <<>> >> ELSE remainder

(* get_destination_uri_from_request.  A domain comes first, then the       *)
(* internal URLs, then the location in the path.                           *)
GetDestination(table, q) ==
    LET domains == {d \in DOMAIN table.domain_maps :
                      \E h \in q.host : d \in DomainNew(Candidate(h))}
        splits  == {s \in SplitPathBaseUrl(q.path) :
                      s.location \in DOMAIN table.path_maps}
    IN  CASE domains # {} ->
               LET d == CHOOSE d \in domains : TRUE
               IN  [kind   |-> "proxied",
                    to     |-> table.domain_maps[d],
                    script |-> <<>>,
                    path   |-> q.path]
          [] domains = {} /\ IsInternal(q.path) ->
               [kind |-> "internal"]
          [] domains = {} /\ ~IsInternal(q.path) /\ splits # {} ->
               LET s == CHOOSE s \in splits : TRUE
               IN  [kind   |-> "proxied",
                    to     |-> table.path_maps[s.location],
                    script |-> <<s.location.repository, s.location.image>>,
                    path   |-> DestinationPath(q.path, s.remainder)]
          [] OTHER -> [kind |-> "not_found"]

(* The location in an internal URL, /_rockslide/config/<location>/prod.    *)
ConfigUrl(path) ==
    IF /\ Len(path) = 5
       /\ SubSeq(path, 1, 2) = <<<<"_rockslide">>, <<"config">>>>
       /\ path[5] = Prod
    THEN {[repository |-> path[3], image |-> path[4]]}
    ELSE {}

=============================================================================
