--------------------------- MODULE MCReverseProxy ---------------------------
(***************************************************************************)
(* Instances of ReverseProxy for TLC.                                      *)
(***************************************************************************)
EXTENDS ReverseProxy, TLC

MCLower == [x \in {"a", ".", "x", ":", "80", "-", "b", "q", "index", "web"}
              |-> x] @@ ("A" :> "a")

(* Images of one domain, written differently, and a location with dashes   *)
(* on both sides of the separator.                                         *)
Index  == [repository |-> <<"a", ".", "x">>, image |-> <<"index">>]
Web    == [repository |-> <<"A", ".", "x">>, image |-> <<"web">>]
Dashes == [repository |-> <<"a", "-", "b">>, image |-> <<"-", "b">>]

TwoLocations == {Web, Dashes}
Domain       == {Web, Index}

MCForeign == {<<"rockslide", "-", "b">>}

User == [username |-> <<"user">>, password |-> <<"p", ":", "w">>]
Key  == <<"key">>

MCConfigs   == {{{User}}}
MCHeaders   == {{}, BasicHeader(User.username, User.password),
                BasicHeader(<<>>, Key)}
MCMasterKey == {Key}

Ask(host, path) == [host |-> host, path |-> path]

MCQueries == {
    \* /a-b/-b//q/ at a host that is no domain, and //A.x/web
    Ask({<<"b">>}, <<Dashes.repository, Dashes.image, <<>>, <<"q">>, <<>>>>),
    Ask({}, <<<<>>, Web.repository, Web.image>>),
    \* /_rockslide/config/a-b/-b/prod, at a domain that may have a container
    Ask({<<"a", ".", "x">>},
        <<<<"_rockslide">>, <<"config">>, Dashes.repository, Dashes.image,
          Prod>>),
    \* /a-b/-b at a domain in upper case with a port
    Ask({<<"A", ".", "x", ":", "80">>}, <<Dashes.repository, Dashes.image>>)}

Symmetry == Permutations(Requests) \cup Permutations(Ports)

=============================================================================
