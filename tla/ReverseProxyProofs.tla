------------------------- MODULE ReverseProxyProofs -------------------------
(***************************************************************************)
(* Proofs about ReverseProxy, for every set of locations, other people's   *)
(* containers, ports, configurations, queries and requests: whatever a     *)
(* container, a configuration or another refresh does between podman ps,   *)
(* the loads and the swap of a refresh, the request that reads the table   *)
(* and the moment at which that request is sent, the request gets to a     *)
(* container that it asks for and that has let it in.                      *)
(*                                                                         *)
(* The argument is one invariant of what a refresh knows, ViewOK: it holds *)
(* of every refresh under way, whatever is still to be loaded, and of the  *)
(* routing table, where nothing is left to load.                           *)
(***************************************************************************)
EXTENDS ReverseProxy, SubsequenceProofs, SequenceTheorems,
        WellFoundedInduction, TLAPS

(* What runs is named after its location, or is somebody else's.           *)
ContainerOK(c) ==
    /\ c.port \in Ports
    /\ \/ \E l \in Locations : c.name = ContainerName(l) /\ c.loc = {l}
       \/ c.name \in Foreign /\ c.loc = {}

(* Names and ports are used once.                                          *)
RunningOK ==
    /\ \A c \in running : ContainerOK(c)
    /\ \A c, e \in running : c.port = e.port \/ c.name = e.name => c = e

(* A route is found under the keys of its container.                       *)
KeysOK(t) ==
    /\ \A l \in DOMAIN t.path_maps : l \in PathKeys(t.path_maps[l])
    /\ \A d \in DOMAIN t.domain_maps : d \in DomainKeys(t.domain_maps[d])

Routes(t) == {t.path_maps[l] : l \in DOMAIN t.path_maps} \cup
             {t.domain_maps[d] : d \in DOMAIN t.domain_maps}

(* A route has a configuration that was stored since podman ps; at its     *)
(* port is its own container or none, unless the port was handed out       *)
(* since; and its container runs, unless any was started or stopped since. *)
RouteOK(e, s, w, run) ==
    /\ e.location \in Locations
    /\ e.port \in Ports
    /\ e.config \in Configs \cup {{}}
    /\ <<e.location, e.config>> \in w
    /\ e.port \notin s =>
           \A c \in run : c.port = e.port => c.loc = {e.location}
    /\ "containers" \notin s => \E c \in run : c.loc = {e.location}

RoutesOK(t, s, w, run) == \A e \in Routes(t) : RouteOK(e, s, w, run)

(* A container that is still to be loaded is one that podman has listed.   *)
TodoOK(todo, s, run) ==
    \A c \in todo :
        /\ c.port \in Ports
        /\ \E l \in Locations : c.name = ContainerName(l) /\ c.loc = {l}
        /\ c.port \notin s => \A b \in run : b.port = c.port => b.loc = c.loc
        /\ "containers" \notin s => c \in run

(* Until any is started or stopped, every container has its routes or is   *)
(* still to be loaded.                                                     *)
CompleteOK(todo, t, s, run) ==
    "containers" \notin s => \A c \in run \ todo : \A l \in c.loc :
        /\ l \in DOMAIN t.path_maps
        /\ t.path_maps[l].port = c.port
        /\ DomainNew(l.repository) \subseteq DOMAIN t.domain_maps

ViewOK(todo, t, s, w, run) ==
    /\ KeysOK(t)
    /\ RoutesOK(t, s, w, run)
    /\ TodoOK(todo, s, run)
    /\ CompleteOK(todo, t, s, run)
    /\ s \subseteq {"containers"} \cup Ports

(* What load_config finds in these files.                                  *)
Loaded(files, l) ==
    LET path == ConfigPath(l, Prod)
    IN  IF path \in DOMAIN files THEN Parsed(files[path]) ELSE {}

(* What can be loaded from them has been noted.                            *)
StoredOK(w, files) ==
    \A l \in Locations :
        Loaded(files, l) # Torn => <<l, Loaded(files, l)>> \in w

RefreshesOK ==
    /\ refresh = [r \in Requests |-> refresh[r]]
    /\ \A r \in Requests :
          /\ refresh[r] = [todo   |-> refresh[r].todo,
                           table  |-> refresh[r].table,
                           since  |-> refresh[r].since,
                           stored |-> refresh[r].stored]
          /\ Loading(r) =>
                /\ ViewOK(refresh[r].todo, refresh[r].table, refresh[r].since,
                          refresh[r].stored, running)
                /\ StoredOK(refresh[r].stored, configs)

(* A request on its way to a container asks for its location, was let in,  *)
(* and finds nobody else at its port.                                      *)
SendOK(q, run) ==
    q.pc = "send" =>
        /\ q.dest.kind = "proxied"
        /\ q.dest.to.location \in q.asked
        /\ q.open
        /\ q.sure => \A c \in run : c.port = q.dest.to.port =>
                        c.loc = {q.dest.to.location}

RequestOK(q, run) ==
    /\ q = [pc      |-> q.pc,
            query   |-> q.query,
            payload |-> q.payload,
            dest    |-> q.dest,
            asked   |-> q.asked,
            open    |-> q.open,
            sure    |-> q.sure]
    /\ q.pc \in {"free", "send", "save", "write", "verify", "ps", "load"}
    /\ q.query \in Queries \cup {NoQuery}
    /\ SendOK(q, run)

RequestsOK ==
    /\ req = [r \in Requests |-> req[r]]
    /\ \A r \in Requests : RequestOK(req[r], running)

ConfigsOK ==
    \A p \in DOMAIN configs : configs[p] \in Configs \cup {Empty, Torn}

Inv ==
    /\ RunningOK
    /\ ViewOK({}, table, since, stored, running)
    /\ RefreshesOK
    /\ RequestsOK
    /\ ConfigsOK

-----------------------------------------------------------------------------

(* A set of positions has a largest one.                                   *)
LEMMA MaxOfPositions ==
    ASSUME NEW n \in Nat, NEW I \in SUBSET (1..n), I # {}
    PROVE  Max(I) \in I /\ \A j \in I : Max(I) >= j
<1> DEFINE T == {n - i : i \in I}
<1>0. \A i \in I : i \in Nat /\ n - i \in Nat
    OBVIOUS
<1>1. T \subseteq Nat /\ T # {}
    BY <1>0
<1>2. \E x \in T : \A y \in T : ~ (<<y, x>> \in OpToRel(<, Nat))
    BY <1>1, WFMin, NatLessThanWellFounded
<1>3. PICK x \in T : \A y \in T : ~ (y < x)
    BY <1>1, <1>2 DEF OpToRel
<1>4. PICK i \in I : x = n - i
    OBVIOUS
<1>5. ASSUME NEW j \in I PROVE i >= j
    <2>1. ~ (n - j < n - i)
        BY <1>3, <1>4
    <2> QED
        BY <1>0, <2>1
<1> QED
    BY <1>4, <1>5 DEF Max

-----------------------------------------------------------------------------

(* A configuration is stored under the same path by a PUT, which names the *)
(* tag, and looked up by a refresh, which has it with its colon.           *)
LEMMA TagsHaveOnePath ==
    \A l : ConfigPath(l, ImageTag) = ConfigPath(l, Prod)
<1>1. NamespacedDir(ImageTag) = Prod
    <2> DEFINE Tokens == {":", "prod"}
               T == Tail(ImageTag)
    <2>1. Prod \in Seq(Tokens) /\ Len(Prod) = 1 /\ Prod[1] = "prod"
        BY DEF Prod
    <2>2. <<":">> \in Seq(Tokens) /\ Len(<<":">>) = 1 /\ <<":">>[1] = ":"
        OBVIOUS
    <2>3. /\ ImageTag \in Seq(Tokens)
          /\ Len(ImageTag) = 2
          /\ ImageTag[1] = ":"
          /\ ImageTag[2] = "prod"
        <3> DEFINE c == <<":">>
        <3>1. ImageTag = c \o Prod
            BY DEF ImageTag
        <3> HIDE DEF c, Tokens
        <3>2. c \in Seq(Tokens) /\ Len(c) = 1 /\ c[1] = ":"
            BY <2>2 DEF c
        <3>3. /\ c \o Prod \in Seq(Tokens)
              /\ Len(c \o Prod) = 2
              /\ \A i \in 1..2 : (c \o Prod)[i] = IF i <= 1 THEN c[i]
                                                          ELSE Prod[i - 1]
            BY <2>1, <3>2, ConcatProperties
        <3>4. (c \o Prod)[1] = c[1] /\ (c \o Prod)[2] = Prod[1]
            BY <3>3
        <3> QED
            BY <2>1, <3>1, <3>2, <3>3, <3>4
    <2>4. /\ Head(ImageTag) = ":"
          /\ T \in Seq(Tokens)
          /\ Len(T) = 1
          /\ T[1] = "prod"
        BY <2>3
    <2>5. T = Prod
        <3> HIDE DEF T, Tokens
        <3>1. \A i \in 1..Len(T) : T[i] = Prod[i]
            BY <2>1, <2>4
        <3> QED
            BY <2>1, <2>4, <3>1, SeqEqual
    <2> QED
        BY <2>4, <2>5 DEF NamespacedDir
<1>2. NamespacedDir(Prod) = Prod
    BY DEF NamespacedDir, Prod
<1> QED
    BY <1>1, <1>2 DEF ConfigPath

(* A stretch of a sequence that agrees with another sequence is that one.  *)
LEMMA Stretch ==
    ASSUME NEW S, NEW s \in Seq(S), NEW t \in Seq(S), NEW k \in Nat,
           k + Len(t) <= Len(s), \A i \in 1..Len(t) : s[k + i] = t[i]
    PROVE  SubSeq(s, k + 1, k + Len(t)) = t
<1> DEFINE p == SubSeq(s, k + 1, k + Len(t))
<1>1. Len(t) \in Nat /\ Len(s) \in Nat
    BY LenProperties
<1>2. \A i \in (k + 1)..(k + Len(t)) : s[i] \in S
    BY <1>1, ElementOfSeq
<1>3. /\ p \in Seq(S)
      /\ Len(p) = IF k + 1 <= k + Len(t)
                  THEN (k + Len(t)) - (k + 1) + 1 ELSE 0
      /\ \A i \in 1..(k + Len(t)) - (k + 1) + 1 : p[i] = s[(k + 1) + i - 1]
    BY <1>1, <1>2, SubSeqProperties
<1> HIDE DEF p
<1>4. Len(p) = Len(t)
    BY <1>1, <1>3
<1>5. \A i \in 1..Len(t) : p[i] = t[i]
    <2> SUFFICES ASSUME NEW i \in 1..Len(t) PROVE p[i] = t[i]
        OBVIOUS
    <2>1. i \in 1..(k + Len(t)) - (k + 1) + 1 /\ (k + 1) + i - 1 = k + i
        BY <1>1
    <2> QED
        BY <1>3, <2>1
<1> QED
    BY <1>3, <1>4, <1>5, SeqEqual DEF p

LEMMA SeqOfSubset ==
    ASSUME NEW S, NEW T, S \subseteq T, NEW s \in Seq(S)
    PROVE  s \in Seq(T)
<1>1. Len(s) \in Nat /\ s \in [1..Len(s) -> S]
    BY LenProperties
<1>2. s \in [1..Len(s) -> T]
    BY <1>1
<1> QED
    BY <1>1, <1>2

(* What names are made of.                                                 *)
Tokens == DOMAIN Lower \cup STRING \cup {"rockslide", "-"}

AllLocations == [repository : Seq(Tokens), image : Seq(Tokens)]

(* Of all the locations there can be, image_location reads exactly those   *)
(* back from the names of their containers whose repository neither        *)
(* contains the separator nor ends in a dash, whatever the image is        *)
(* called: split_once finds the first separator.                           *)
THEOREM NamesReadBack ==
    ASSUME NEW l \in AllLocations
    PROVE  ImageLocation(ContainerName(l)) = {l} <=> Plain(l.repository)
<1> DEFINE r == l.repository
           m == l.image
           s == (r \o Separator) \o m
           name == ContainerName(l)
<1>0. {"rockslide", "-"} \subseteq Tokens
    BY DEF Tokens
<1>1. /\ r \in Seq(Tokens)
      /\ m \in Seq(Tokens)
      /\ l = [repository |-> r, image |-> m]
    BY DEF AllLocations
<1> HIDE DEF r, m
<1>2. /\ Len(r) \in Nat
      /\ Len(m) \in Nat
      /\ DOMAIN r = 1..Len(r)
    BY <1>1, LenProperties
<1>3. /\ Separator \in Seq(Tokens)
      /\ Len(Separator) = 3
      /\ \A i \in 1..3 : Separator[i] = "-"
    BY <1>0 DEF Separator
<1>4. Prefix \in Seq(Tokens) /\ Len(Prefix) = 4
    <2>1. <<"rockslide">> \in Seq(Tokens) /\ Len(<<"rockslide">>) = 1
        BY <1>0
    <2>2. /\ Prefix \in Seq(Tokens)
          /\ Len(Prefix) = Len(<<"rockslide">>) + Len(Separator)
        BY <1>3, <2>1, ConcatProperties DEF Prefix
    <2> QED
        BY <1>3, <2>1, <2>2
<1>5. /\ s \in Seq(Tokens)
      /\ Len(s) = Len(r) + 3 + Len(m)
      /\ \A i \in 1..Len(r) : s[i] = r[i]
      /\ \A i \in 1..3 : s[Len(r) + i] = "-"
      /\ \A i \in 1..Len(m) : s[(Len(r) + 3) + i] = m[i]
    <2> DEFINE rs == r \o Separator
    <2>1. /\ rs \in Seq(Tokens)
          /\ Len(rs) = Len(r) + Len(Separator)
          /\ \A i \in 1..Len(r) + Len(Separator) :
                rs[i] = IF i <= Len(r) THEN r[i] ELSE Separator[i - Len(r)]
        BY <1>1, <1>3, ConcatProperties
    <2> HIDE DEF rs
    <2>2. /\ s \in Seq(Tokens)
          /\ Len(s) = Len(rs) + Len(m)
          /\ \A i \in 1..Len(rs) + Len(m) :
                s[i] = IF i <= Len(rs) THEN rs[i] ELSE m[i - Len(rs)]
        BY <1>1, <2>1, ConcatProperties DEF rs
    <2> HIDE DEF s
    <2>3. Len(rs) = Len(r) + 3
        BY <1>3, <2>1
    <2>4. \A i \in 1..Len(r) : s[i] = r[i]
        BY <1>2, <1>3, <2>1, <2>2, <2>3
    <2>5. \A i \in 1..3 : s[Len(r) + i] = "-"
        <3> SUFFICES ASSUME NEW i \in 1..3 PROVE s[Len(r) + i] = "-"
            OBVIOUS
        <3>1. s[Len(r) + i] = rs[Len(r) + i]
            BY <1>2, <2>2, <2>3
        <3>2. rs[Len(r) + i] = Separator[(Len(r) + i) - Len(r)]
            BY <1>2, <1>3, <2>1
        <3>3. (Len(r) + i) - Len(r) = i
            BY <1>2
        <3> QED
            BY <1>3, <3>1, <3>2, <3>3
    <2>6. \A i \in 1..Len(m) : s[(Len(r) + 3) + i] = m[i]
        <3> SUFFICES ASSUME NEW i \in 1..Len(m)
                     PROVE  s[(Len(r) + 3) + i] = m[i]
            OBVIOUS
        <3>1. s[(Len(r) + 3) + i] = m[((Len(r) + 3) + i) - (Len(r) + 3)]
            BY <1>2, <2>2, <2>3
        <3>2. ((Len(r) + 3) + i) - (Len(r) + 3) = i
            BY <1>2
        <3> QED
            BY <3>1, <3>2
    <2> QED
        BY <2>2, <2>3, <2>4, <2>5, <2>6
<1>6. name = Prefix \o s
    <2>1. name = ((Prefix \o r) \o Separator) \o m
        BY DEF ContainerName, r, m
    <2>2. r \in Seq(Tokens) /\ m \in Seq(Tokens)
        BY <1>1
    <2>3. Prefix \in Seq(Tokens) /\ Separator \in Seq(Tokens)
        BY <1>3, <1>4
    <2>4. ASSUME NEW a \in Seq(Tokens), NEW b \in Seq(Tokens),
                 NEW c \in Seq(Tokens)
          PROVE  (a \o b) \o c = a \o (b \o c)
        BY ConcatAssociative
    <2>5. ASSUME NEW a \in Seq(Tokens), NEW b \in Seq(Tokens)
          PROVE  a \o b \in Seq(Tokens)
        BY ConcatProperties
    <2>6. r \o Separator \in Seq(Tokens)
        BY <2>2, <2>3, <2>5, Zenon
    <2>7. (Prefix \o r) \o Separator = Prefix \o (r \o Separator)
        <3>1. Prefix \in Seq(Tokens) /\ r \in Seq(Tokens)
              /\ Separator \in Seq(Tokens)
            BY <2>2, <2>3
        <3> QED
            BY <2>4, <3>1, Zenon
    <2>8. (Prefix \o (r \o Separator)) \o m
            = Prefix \o ((r \o Separator) \o m)
        <3> DEFINE rs == r \o Separator
        <3>1. Prefix \in Seq(Tokens) /\ rs \in Seq(Tokens) /\ m \in Seq(Tokens)
            BY <2>2, <2>3, <2>6
        <3> HIDE DEF rs
        <3>2. (Prefix \o rs) \o m = Prefix \o (rs \o m)
            BY <2>4, <3>1, Zenon
        <3> QED
            BY <3>2, Zenon DEF rs
    <2> QED
        BY <2>1, <2>7, <2>8, Zenon
<1> HIDE DEF s, name
<1>7. /\ name \in Seq(Tokens)
      /\ Len(name) = 4 + Len(s)
      /\ \A i \in 1..4 : name[i] = Prefix[i]
      /\ \A i \in 1..Len(s) : name[4 + i] = s[i]
    <2>1. Prefix \in Seq(Tokens) /\ s \in Seq(Tokens)
        BY <1>4, <1>5
    <2> DEFINE ps == Prefix \o s
    <2>2. /\ ps \in Seq(Tokens)
          /\ Len(ps) = Len(Prefix) + Len(s)
          /\ \A i \in 1..Len(Prefix) + Len(s) :
                ps[i] = IF i <= Len(Prefix) THEN Prefix[i]
                        ELSE s[i - Len(Prefix)]
        BY <2>1, ConcatProperties
    <2>5. name = ps
        BY <1>6
    <2> HIDE DEF ps
    <2>3. Len(s) \in Nat
        BY <1>5, LenProperties
    <2>4. \A i \in 1..Len(s) : (4 + i) - 4 = i
        BY <2>3
    <2> QED
        BY <1>4, <2>2, <2>3, <2>4, <2>5
<1>8. IsPrefix(Prefix, name)
    <2>1. SubSeq(name, 0 + 1, 0 + Len(Prefix)) = Prefix
        BY <1>2, <1>4, <1>5, <1>7, Stretch
    <2>2. SubSeq(Prefix, 1, Len(Prefix)) = Prefix
        BY <1>4, SubSeqFull
    <2>3. Len(Prefix) <= Len(name)
        BY <1>2, <1>4, <1>5, <1>7
    <2>4. 0 + 1 = 1 /\ 0 + Len(Prefix) = Len(Prefix)
        BY <1>4
    <2> QED
        BY <2>1, <2>2, <2>3, <2>4 DEF IsPrefix
<1>9. SubSeq(name, Len(Prefix) + 1, Len(name)) = s
    BY <1>4, <1>5, <1>7, Stretch
<1> DEFINE at == {i \in 1..(Len(s) + 1 - Len(Separator)) :
                     SubSeq(s, i, i + Len(Separator) - 1) = Separator}
<1>10. Len(r) + 1 \in at
    <2>1. SubSeq(s, Len(r) + 1, Len(r) + Len(Separator)) = Separator
        BY <1>2, <1>3, <1>5, Stretch
    <2>2. Len(r) + Len(Separator) = (Len(r) + 1) + Len(Separator) - 1
        BY <1>2, <1>3
    <2>3. Len(r) + 1 \in 1..(Len(s) + 1 - Len(Separator))
        BY <1>2, <1>3, <1>5
    <2> QED
        BY <2>1, <2>2, <2>3
<1> DEFINE dd == <<"-", "-">>
           x  == r \o dd
<1>11. ASSUME NEW i \in 1..Len(r)
       PROVE  i \in at <=> SubSeq(x, i, i + 2) = <<"-", "-", "-">>
    <2>1. dd \in Seq(Tokens) /\ Len(dd) = 2 /\ dd[1] = "-" /\ dd[2] = "-"
        BY <1>0
    <2> HIDE DEF dd
    <2>2. /\ x \in Seq(Tokens)
          /\ Len(x) = Len(r) + Len(dd)
          /\ \A j \in 1..Len(r) + Len(dd) :
                x[j] = IF j <= Len(r) THEN r[j] ELSE dd[j - Len(r)]
        BY <1>1, <2>1, ConcatProperties
    <2> HIDE DEF x
    <2>3. \A j \in 1..Len(r) + 2 : x[j] = s[j]
        <3>1. ASSUME NEW j \in 1..Len(r) PROVE x[j] = s[j]
            BY <1>2, <1>5, <2>1, <2>2
        <3>2. ASSUME NEW j \in {Len(r) + 1, Len(r) + 2}
              PROVE  x[j] = dd[j - Len(r)]
            <4>1. j \in 1..Len(r) + Len(dd) /\ ~ (j <= Len(r))
                BY <1>2, <2>1
            <4> QED
                BY <2>2, <4>1
        <3>3. (Len(r) + 1) - Len(r) = 1 /\ (Len(r) + 2) - Len(r) = 2
            BY <1>2
        <3>4. x[Len(r) + 1] = s[Len(r) + 1] /\ x[Len(r) + 2] = s[Len(r) + 2]
            BY <1>5, <2>1, <3>2, <3>3
        <3>5. \A j \in 1..Len(r) + 2 :
                 j \in 1..Len(r) \/ j = Len(r) + 1 \/ j = Len(r) + 2
            <4>1. \A n \in Nat : \A j \in 1..n + 2 :
                     j \in 1..n \/ j = n + 1 \/ j = n + 2
                OBVIOUS
            <4> QED
                BY <1>2, <4>1
        <3> QED
            BY <3>1, <3>4, <3>5
    <2> DEFINE t == SubSeq(x, i, i + 2)
    <2>4. /\ t \in Seq(Tokens)
          /\ Len(t) = 3
          /\ \A j \in 1..3 : t[j] = x[(i - 1) + j]
        <3>1. \A j \in i..i + 2 : x[j] \in Tokens
            BY <1>2, <2>1, <2>2, ElementOfSeq
        <3>2. i \in Int /\ i + 2 \in Int
            BY <1>2
        <3>3. /\ t \in Seq(Tokens)
              /\ Len(t) = IF i <= i + 2 THEN (i + 2) - i + 1 ELSE 0
              /\ \A j \in 1..(i + 2) - i + 1 : t[j] = x[i + j - 1]
            BY <3>1, <3>2, SubSeqProperties
        <3> HIDE DEF t
        <3>4. /\ (i + 2) - i + 1 = 3
              /\ i <= i + 2
              /\ \A j \in 1..3 : i + j - 1 = (i - 1) + j
            BY <3>2
        <3>5. Len(t) = 3 /\ \A j \in 1..3 : t[j] = x[i + j - 1]
            BY <3>3, <3>4
        <3> QED
            BY <3>3, <3>4, <3>5
    <2> HIDE DEF t
    <2>5. \A j \in 1..3 : s[(i - 1) + j] = t[j]
        <3>1. \A j \in 1..3 : (i - 1) + j \in 1..Len(r) + 2
            BY <1>2
        <3> QED
            BY <2>3, <2>4, <3>1
    <2>6. i - 1 \in Nat /\ (i - 1) + Len(t) <= Len(s)
        BY <1>2, <1>5, <2>4
    <2>7. SubSeq(s, (i - 1) + 1, (i - 1) + Len(t)) = t
        BY <1>5, <2>4, <2>5, <2>6, Stretch
    <2>8. (i - 1) + 1 = i /\ (i - 1) + Len(t) = i + Len(Separator) - 1
        BY <1>2, <1>3, <2>4
    <2>9. i \in 1..(Len(s) + 1 - Len(Separator))
        BY <1>2, <1>3, <1>5
    <2>10. i \in at <=> t = Separator
        BY <2>7, <2>8, <2>9
    <2> QED
        BY <2>10 DEF t, Separator
<1>12. Plain(r) <=> \A i \in 1..Len(r) : i \notin at
    BY <1>2, <1>11 DEF Plain
<1> HIDE DEF dd, x
<1>13. SplitOnce(s) =
         {[left  |-> SubSeq(s, 1, i - 1),
           right |-> SubSeq(s, i + Len(Separator), Len(s))] :
            i \in {j \in at : \A k \in at : j <= k}}
    BY DEF SplitOnce
<1>14. ImageLocation(name) =
         {[repository |-> p.left, image |-> p.right] : p \in SplitOnce(s)}
    BY <1>8, <1>9 DEF ImageLocation
<1>15. \A i \in at : i \in 1..Len(s)
    BY <1>2, <1>3, <1>5
<1>16. ASSUME \A i \in 1..Len(r) : i \notin at
       PROVE  ImageLocation(name) = {l}
    <2>1. \A i \in at : Len(r) + 1 <= i
        <3> HIDE DEF at
        <3> SUFFICES ASSUME NEW i \in at PROVE Len(r) + 1 <= i
            OBVIOUS
        <3>1. i \in 1..Len(s) /\ i \notin 1..Len(r)
            BY <1>15, <1>16
        <3> QED
            BY <1>2, <1>5, <3>1
    <2> HIDE DEF at
    <2>2. {j \in at : \A k \in at : j <= k} = {Len(r) + 1}
        <3>1. ASSUME NEW j \in at, \A k \in at : j <= k
              PROVE  j = Len(r) + 1
            <4>1. j <= Len(r) + 1 /\ Len(r) + 1 <= j /\ j \in Int
                BY <1>2, <1>5, <1>10, <1>15, <2>1, <3>1
            <4> QED
                BY <1>2, <4>1
        <3> QED
            BY <1>10, <2>1, <3>1
    <2>3. SplitOnce(s) = {[left  |-> SubSeq(s, 1, (Len(r) + 1) - 1),
                           right |-> SubSeq(s, (Len(r) + 1) + Len(Separator),
                                            Len(s))]}
        BY <1>13, <2>2
    <2>4. SubSeq(s, 0 + 1, 0 + Len(r)) = r
        BY <1>1, <1>2, <1>5, Stretch
    <2>5. SubSeq(s, (Len(r) + 3) + 1, (Len(r) + 3) + Len(m)) = m
        BY <1>1, <1>2, <1>5, Stretch
    <2>6. /\ 0 + 1 = 1
          /\ 0 + Len(r) = (Len(r) + 1) - 1
          /\ (Len(r) + 3) + 1 = (Len(r) + 1) + Len(Separator)
          /\ (Len(r) + 3) + Len(m) = Len(s)
        BY <1>2, <1>3, <1>5
    <2>7. SplitOnce(s) = {[left |-> r, right |-> m]}
        BY <2>3, <2>4, <2>5, <2>6
    <2> QED
        BY <1>1, <1>14, <2>7
<1>17. ASSUME NEW i \in 1..Len(r), i \in at, ImageLocation(name) = {l}
       PROVE  FALSE
    <2>1. PICK p \in SplitOnce(s) :
             l = [repository |-> p.left, image |-> p.right]
        BY <1>14, <1>17
    <2> HIDE DEF at
    <2>2. PICK j \in at : /\ \A k \in at : j <= k
                          /\ p.left = SubSeq(s, 1, j - 1)
        BY <1>13
    <2>3. j \in 1..Len(r)
        BY <1>2, <1>5, <1>15, <1>17, <2>2
    <2>4. Len(SubSeq(s, 1, j - 1)) = j - 1
        <3>1. \A k \in 1..j - 1 : s[k] \in Tokens
            BY <1>2, <1>5, <2>3, ElementOfSeq
        <3>2. 1 \in Int /\ j - 1 \in Int
            BY <1>2, <2>3
        <3>3. Len(SubSeq(s, 1, j - 1))
                = IF 1 <= j - 1 THEN (j - 1) - 1 + 1 ELSE 0
            BY <3>1, <3>2, SubSeqProperties
        <3> QED
            BY <1>2, <2>3, <3>3
    <2>5. SubSeq(s, 1, j - 1) = r
        BY <1>1, <2>1, <2>2
    <2> QED
        BY <1>2, <2>3, <2>4, <2>5
<1> QED
    BY <1>12, <1>16, <1>17 DEF name, r

(* Where a repository is not plain, two locations may share a name: the    *)
(* rm before a run, which goes by the name, then stops the container of    *)
(* the other, and there is a route to only one of them.                    *)
THEOREM NamesCollide ==
    ASSUME NEW a \in Seq(Tokens), NEW b \in Seq(Tokens),
           NEW c \in Seq(Tokens)
    PROVE  ContainerName([repository |-> (a \o Separator) \o b, image |-> c])
             = ContainerName([repository |-> a, image |-> (b \o Separator) \o c])
<1> DEFINE S == Separator
           P == Prefix
<1>1. ASSUME NEW u \in Seq(Tokens), NEW v \in Seq(Tokens),
             NEW w \in Seq(Tokens)
      PROVE  (u \o v) \o w = u \o (v \o w)
    BY ConcatAssociative, SMTT(30)
<1>2. ASSUME NEW u \in Seq(Tokens), NEW v \in Seq(Tokens)
      PROVE  u \o v \in Seq(Tokens)
    BY ConcatProperties
<1>0. a \in Seq(Tokens) /\ b \in Seq(Tokens) /\ c \in Seq(Tokens)
    OBVIOUS
<1>3. S \in Seq(Tokens) /\ P \in Seq(Tokens)
    <2>1. S \in Seq(Tokens) /\ <<"rockslide">> \in Seq(Tokens)
        BY DEF Tokens, Separator
    <2> HIDE DEF S
    <2> QED
        BY <1>2, <2>1 DEF Prefix, S
<1>4. ContainerName([repository |-> (a \o S) \o b, image |-> c])
        = ((P \o ((a \o S) \o b)) \o S) \o c
    BY DEF ContainerName
<1>5. ContainerName([repository |-> a, image |-> (b \o S) \o c])
        = ((P \o a) \o S) \o ((b \o S) \o c)
    BY DEF ContainerName
<1> HIDE DEF S, P
<1> DEFINE as == a \o S
           bs == b \o S
           Pas == P \o as
<1>6. /\ as \in Seq(Tokens)
      /\ bs \in Seq(Tokens)
      /\ Pas \in Seq(Tokens)
    <2>1. as \in Seq(Tokens) /\ bs \in Seq(Tokens)
        BY <1>0, <1>2, <1>3, ZenonT(40)
    <2> HIDE DEF as, bs
    <2> QED
        BY <1>2, <1>3, <2>1, ZenonT(40)
<1>7. Pas = (P \o a) \o S
    BY <1>0, <1>1, <1>3, ZenonT(40)
<1> HIDE DEF as
<1>9. (P \o as) \o b = P \o (as \o b)
    <2>1. P \in Seq(Tokens) /\ as \in Seq(Tokens) /\ b \in Seq(Tokens)
        BY <1>0, <1>3, <1>6
    <2> QED
        BY <1>1, <2>1, ZenonT(40)
<1> HIDE DEF Pas
<1>10. (Pas \o b) \o S = Pas \o (b \o S)
    <2>1. Pas \in Seq(Tokens) /\ b \in Seq(Tokens) /\ S \in Seq(Tokens)
        BY <1>0, <1>3, <1>6
    <2> QED
        BY <1>1, <2>1, ZenonT(40)
<1> HIDE DEF bs
<1>11. (Pas \o bs) \o c = Pas \o (bs \o c)
    BY <1>0, <1>1, <1>6, ZenonT(40)
<1>12. ((P \o (as \o b)) \o S) \o c = ((P \o a) \o S) \o (bs \o c)
    BY <1>7, <1>9, <1>10, <1>11, ZenonT(40) DEF Pas, bs
<1> QED
    BY <1>4, <1>5, <1>12, ZenonT(40) DEF as, bs, S

(* Nothing is read from the name of somebody else's container.             *)
LEMMA OthersAreNotOurs ==
    ASSUME NEW n \in Foreign PROVE ImageLocation(n) = {}
<1>1. Prefix = <<"rockslide", "-", "-", "-">>
    <2> DEFINE w == <<"rockslide">>
               t == <<"rockslide", "-", "-", "-">>
               d == <<"-", "-", "-">>
    <2>1. /\ w \in Seq(Tokens) /\ Len(w) = 1 /\ w[1] = "rockslide"
          /\ d \in Seq(Tokens) /\ Len(d) = 3
          /\ d[1] = "-" /\ d[2] = "-" /\ d[3] = "-"
          /\ t \in Seq(Tokens) /\ Len(t) = 4
          /\ t[1] = "rockslide" /\ t[2] = "-" /\ t[3] = "-" /\ t[4] = "-"
        BY DEF Tokens
    <2>2. Prefix = w \o d
        BY DEF Prefix, Separator
    <2> HIDE DEF w, d, t
    <2>3. /\ w \o d \in Seq(Tokens)
          /\ Len(w \o d) = Len(w) + Len(d)
          /\ \A i \in 1..Len(w) + Len(d) :
                (w \o d)[i] = IF i <= Len(w) THEN w[i] ELSE d[i - Len(w)]
        BY <2>1, ConcatProperties
    <2>4. Len(w \o d) = Len(t) /\ \A i \in 1..4 : (w \o d)[i] = t[i]
        BY <2>1, <2>3
    <2>5. w \o d = t
        BY <2>1, <2>3, <2>4, SeqEqual
    <2> QED
        BY <2>2, <2>5 DEF t
<1> QED
    BY <1>1, ProxyAssumption DEF ImageLocation

-----------------------------------------------------------------------------

LEMMA LowerCaseIs ==
    ASSUME NEW s \in Seq(DOMAIN Lower)
    PROVE  /\ Len(s) \in Nat
           /\ DOMAIN LowerCase(s) = 1..Len(s)
           /\ \A i \in 1..Len(s) :
                 /\ s[i] \in DOMAIN Lower
                 /\ LowerCase(s)[i] = Lower[s[i]]
<1>1. /\ Len(s) \in Nat
      /\ DOMAIN s = 1..Len(s)
      /\ \A i \in 1..Len(s) : s[i] \in DOMAIN Lower
    BY LenProperties, ElementOfSeq
<1> QED
    BY <1>1 DEF LowerCase

(* Domain::new finds a dot in the repository, or none, before and after    *)
(* to_lowercase.                                                           *)
LEMMA DomainNewIs ==
    ASSUME NEW s \in Seq(DOMAIN Lower)
    PROVE  DomainNew(s) = IF "." \in ToSet(s) THEN {LowerCase(s)} ELSE {}
<1>1. "." \in ToSet(s)
        <=> \E i \in DOMAIN LowerCase(s) : LowerCase(s)[i] = "."
    <2>1. DOMAIN s = 1..Len(s)
        BY LenProperties
    <2>2. /\ DOMAIN LowerCase(s) = 1..Len(s)
          /\ \A i \in 1..Len(s) : LowerCase(s)[i] = "." <=> s[i] = "."
        BY LowerCaseIs, LowerAssumption
    <2> QED
        BY <2>1, <2>2 DEF ToSet
<1> QED
    BY <1>1 DEF DomainNew

(* The host without its port is the repository, in lower case, exactly     *)
(* when the host is the repository or goes on with a colon and a port.     *)
LEMMA CandidateIs ==
    ASSUME NEW h \in Seq(DOMAIN Lower), NEW r \in Seq(DOMAIN Lower),
           ":" \notin ToSet(r)
    PROVE  /\ Candidate(h) \in Seq(DOMAIN Lower)
           /\ LowerCase(Candidate(h)) = LowerCase(r)
                <=> \E n \in 0..Len(h) :
                       /\ LowerCase(SubSeq(h, 1, n)) = LowerCase(r)
                       /\ n = Len(h) \/ h[n + 1] = ":"
                       /\ \A i \in n + 2..Len(h) : h[i] # ":"
<1> DEFINE colons == {i \in DOMAIN h : h[i] = ":"}
           P(n) == /\ LowerCase(SubSeq(h, 1, n)) = LowerCase(r)
                   /\ n = Len(h) \/ h[n + 1] = ":"
                   /\ \A i \in n + 2..Len(h) : h[i] # ":"
<1>1. /\ Len(h) \in Nat
      /\ DOMAIN h = 1..Len(h)
      /\ \A i \in 1..Len(h) : h[i] \in DOMAIN Lower
      /\ SubSeq(h, 1, Len(h)) = h
    BY LenProperties, ElementOfSeq, SubSeqFull
<1>2. \A k \in Nat : \A n \in 0..k : n # k => n + 1 \in 1..k
    OBVIOUS
<1>3. CASE colons = {}
    <2>1. Candidate(h) = h
        BY <1>3 DEF Candidate
    <2>2. ASSUME LowerCase(h) = LowerCase(r)
          PROVE  Len(h) \in 0..Len(h) /\ P(Len(h))
        <3>1. \A i \in Len(h) + 2..Len(h) : h[i] # ":"
            BY <1>1
        <3>2. LowerCase(SubSeq(h, 1, Len(h))) = LowerCase(r)
            BY <1>1, <2>2
        <3> QED
            BY <1>1, <3>1, <3>2
    <2>3. ASSUME NEW n \in 0..Len(h), P(n) PROVE LowerCase(h) = LowerCase(r)
        <3>1. n = Len(h)
            <4> SUFFICES ASSUME n # Len(h) PROVE FALSE
                OBVIOUS
            <4>1. n + 1 \in 1..Len(h)
                BY <1>1, <1>2
            <4>2. h[n + 1] = ":"
                BY <2>3
            <4> QED
                BY <1>1, <1>3, <4>1, <4>2
        <3> QED
            BY <1>1, <2>3, <3>1
    <2> HIDE DEF P
    <2>4. LowerCase(h) = LowerCase(r) <=> \E n \in 0..Len(h) : P(n)
        BY <2>2, <2>3
    <2> QED
        BY <2>1, <2>4 DEF P
<1>4. CASE colons # {}
    <2> DEFINE m == Max(colons)
    <2>1. /\ m \in 1..Len(h)
          /\ h[m] = ":"
          /\ \A i \in 1..Len(h) : h[i] = ":" => m >= i
        <3>1. colons \in SUBSET (1..Len(h))
            BY <1>1
        <3>2. m \in colons /\ \A i \in colons : m >= i
            BY <1>1, <1>4, <3>1, MaxOfPositions
        <3> QED
            BY <1>1, <3>2
    <2>2. Candidate(h) = SubSeq(h, 1, m - 1)
        BY <1>4 DEF Candidate
    <2> HIDE DEF m
    <2>3. SubSeq(h, 1, m - 1) \in Seq(DOMAIN Lower)
        <3>1. \A i \in 1..m - 1 : h[i] \in DOMAIN Lower
            BY <1>1, <2>1
        <3> QED
            BY <1>1, <2>1, <3>1, SubSeqProperties
    <2>4. ASSUME LowerCase(SubSeq(h, 1, m - 1)) = LowerCase(r)
          PROVE  m - 1 \in 0..Len(h) /\ P(m - 1)
        <3>1. m - 1 \in 0..Len(h) /\ (m - 1) + 1 = m
            BY <1>1, <2>1
        <3>2. \A i \in (m - 1) + 2..Len(h) : h[i] # ":"
            BY <1>1, <2>1
        <3> QED
            BY <2>1, <2>4, <3>1, <3>2
    <2>5. ASSUME NEW n \in 0..Len(h), P(n) PROVE n = m - 1
        <3>1. n # Len(h)
            <4> SUFFICES ASSUME n = Len(h) PROVE FALSE
                OBVIOUS
            <4>1. LowerCase(h) = LowerCase(r)
                BY <1>1, <2>5
            <4>2. m \in 1..Len(r) /\ Lower[h[m]] = Lower[r[m]]
                BY <2>1, <4>1, LowerCaseIs
            <4>3. r[m] \in DOMAIN Lower /\ Lower[r[m]] = ":"
                BY <1>1, <2>1, <4>2, LowerCaseIs, LowerAssumption
            <4>4. DOMAIN r = 1..Len(r)
                BY LenProperties
            <4> QED
                BY <4>2, <4>3, <4>4, LowerAssumption DEF ToSet
        <3>2. n + 1 \in 1..Len(h) /\ h[n + 1] = ":"
            <4>1. n + 1 \in 1..Len(h)
                BY <1>1, <1>2, <3>1
            <4>2. h[n + 1] = ":"
                BY <2>5, <3>1
            <4> QED
                BY <4>1, <4>2
        <3>3. m >= n + 1
            BY <2>1, <3>2
        <3>4. ~ (m >= n + 2)
            <4>1. m \in n + 2..Len(h) => h[m] # ":"
                BY <2>5
            <4> QED
                BY <1>1, <2>1, <4>1
        <3> QED
            BY <1>1, <2>1, <3>3, <3>4
    <2> QED
        BY <2>2, <2>3, <2>4, <2>5
<1> QED
    BY <1>3, <1>4

(* A host names a location exactly when the code compares equal domains.   *)
LEMMA OfHostIs ==
    ASSUME NEW q \in Queries, NEW l \in Locations
    PROVE  l \in OfHost(q) <=>
             \E h \in q.host : \E d \in DomainNew(Candidate(h)) :
                d \in DomainNew(l.repository)
<1> DEFINE r == l.repository
           P(h) == \E n \in 0..Len(h) :
                      /\ LowerCase(SubSeq(h, 1, n)) = LowerCase(r)
                      /\ n = Len(h) \/ h[n + 1] = ":"
                      /\ \A i \in n + 2..Len(h) : h[i] # ":"
<1>1. /\ r \in Seq(DOMAIN Lower)
      /\ ":" \notin ToSet(r)
      /\ \A h \in q.host : h \in Seq(DOMAIN Lower)
    BY PlainRepositories, ProxyAssumption
<1>2. l \in OfHost(q) <=> "." \in ToSet(r) /\ \E h \in q.host : P(h)
    BY DEF OfHost
<1>3. ASSUME NEW h \in q.host
      PROVE  (\E d \in DomainNew(Candidate(h)) : d \in DomainNew(r))
               <=> "." \in ToSet(r) /\ P(h)
    <2> DEFINE c == Candidate(h)
    <2>1. c \in Seq(DOMAIN Lower) /\ (LowerCase(c) = LowerCase(r) <=> P(h))
        BY <1>1, CandidateIs
    <2> HIDE DEF c, P, r
    <2>2. DomainNew(c) = IF "." \in ToSet(c) THEN {LowerCase(c)} ELSE {}
        BY <2>1, DomainNewIs
    <2>3. DomainNew(r) = IF "." \in ToSet(r) THEN {LowerCase(r)} ELSE {}
        BY <1>1, DomainNewIs
    <2>4. ASSUME LowerCase(c) = LowerCase(r), "." \in ToSet(r)
          PROVE  "." \in ToSet(c)
        <3>1. \E i \in DOMAIN LowerCase(c) : LowerCase(c)[i] = "."
            BY <2>3, <2>4 DEF DomainNew
        <3>2. LowerCase(c) \in DomainNew(c)
            BY <3>1 DEF DomainNew
        <3> QED
            BY <2>2, <3>2
    <2>5. (\E d \in DomainNew(c) : d \in DomainNew(r))
            <=> "." \in ToSet(r) /\ P(h)
        BY <2>1, <2>2, <2>3, <2>4
    <2> QED
        BY <2>5 DEF c
<1> HIDE DEF P, r
<1>4. l \in OfHost(q)
        <=> \E h \in q.host : \E d \in DomainNew(Candidate(h)) :
               d \in DomainNew(r)
    BY <1>2, <1>3
<1> QED
    BY <1>4 DEF r

(* Where get_destination_uri_from_request finds a container: under a       *)
(* domain of the host or, when the host has none, under the location that  *)
(* the path starts with.                                                   *)
LEMMA DestinationIs ==
    ASSUME NEW t, NEW q,
           NEW dest, dest = GetDestination(t, q)
    PROVE  LET hosts == {d \in DOMAIN t.domain_maps :
                           \E h \in q.host : d \in DomainNew(Candidate(h))}
               s == Segments(q.path)
               l == [repository |-> s[1], image |-> s[2]]
           IN  /\ dest.kind = "proxied" =>
                     \/ \E d \in hosts : dest.to = t.domain_maps[d]
                     \/ /\ hosts = {}
                        /\ Len(s) >= 2
                        /\ l \in DOMAIN t.path_maps
                        /\ dest.to = t.path_maps[l]
               /\ /\ hosts = {}
                  /\ ~IsInternal(q.path)
                  /\ Len(s) >= 2
                  /\ l \in DOMAIN t.path_maps
                  => /\ dest.kind = "proxied"
                     /\ dest.to = t.path_maps[l]
<1> DEFINE hosts == {d \in DOMAIN t.domain_maps :
                       \E h \in q.host : d \in DomainNew(Candidate(h))}
           s == Segments(q.path)
           l == [repository |-> s[1], image |-> s[2]]
           splits == {p \in SplitPathBaseUrl(q.path) :
                        p.location \in DOMAIN t.path_maps}
           p0 == [location |-> l, remainder |-> SubSeq(s, 3, Len(s))]
<1>1. splits = IF Len(s) >= 2 /\ l \in DOMAIN t.path_maps
               THEN {p0} ELSE {}
    BY DEF SplitPathBaseUrl
<1>2. CASE hosts # {}
    <2>1. \E d \in hosts : dest.to = t.domain_maps[d]
        BY <1>2 DEF GetDestination
    <2> QED
        BY <1>2, <2>1
<1>3. CASE hosts = {} /\ IsInternal(q.path)
    <2>1. dest = [kind |-> "internal"]
        BY <1>3 DEF GetDestination
    <2> QED
        BY <1>3, <2>1
<1>4. CASE hosts = {} /\ ~IsInternal(q.path) /\ splits = {}
    <2>1. dest = [kind |-> "not_found"]
        BY <1>4 DEF GetDestination
    <2>2. dest.kind # "proxied"
        BY <2>1
    <2>3. ~ (Len(s) >= 2 /\ l \in DOMAIN t.path_maps)
        BY <1>1, <1>4
    <2> QED
        BY <2>2, <2>3
<1>5. CASE hosts = {} /\ ~IsInternal(q.path) /\ splits # {}
    <2>1. splits = {p0} /\ Len(s) >= 2 /\ l \in DOMAIN t.path_maps
        BY <1>1, <1>5
    <2>2. (CHOOSE p \in splits : TRUE) = p0
        BY <2>1
    <2>3. dest.kind = "proxied"
          /\ dest.to = t.path_maps[(CHOOSE p \in splits : TRUE).location]
        BY <1>5 DEF GetDestination
    <2> QED
        BY <1>5, <2>1, <2>2, <2>3
<1> QED
    BY <1>2, <1>3, <1>4, <1>5

(* What a container gets of the path.                                      *)
LEMMA DestinationPathIs ==
    ASSUME NEW t, NEW q,
           NEW dest, dest = GetDestination(t, q), dest.kind = "proxied"
    PROVE  LET s == Segments(q.path)
           IN  \/ dest.script = <<>> /\ dest.path = q.path
               \/ /\ Len(s) >= 2
                  /\ dest.script = <<s[1], s[2]>>
                  /\ dest.path = DestinationPath(q.path, SubSeq(s, 3, Len(s)))
<1> DEFINE hosts == {d \in DOMAIN t.domain_maps :
                       \E h \in q.host : d \in DomainNew(Candidate(h))}
           s == Segments(q.path)
           splits == {p \in SplitPathBaseUrl(q.path) :
                        p.location \in DOMAIN t.path_maps}
           c == CHOOSE p \in splits : TRUE
<1>1. CASE hosts # {}
    BY <1>1 DEF GetDestination
<1>2. CASE hosts = {} /\ (IsInternal(q.path) \/ splits = {})
    <2>1. dest = [kind |-> "internal"] \/ dest = [kind |-> "not_found"]
        BY <1>2 DEF GetDestination
    <2> QED
        BY <2>1
<1>3. CASE hosts = {} /\ ~IsInternal(q.path) /\ splits # {}
    <2>1. /\ dest.script = <<c.location.repository, c.location.image>>
          /\ dest.path = DestinationPath(q.path, c.remainder)
        BY <1>3 DEF GetDestination
    <2>2. c \in SplitPathBaseUrl(q.path)
        BY <1>3
    <2> HIDE DEF c
    <2>3. /\ Len(s) >= 2
          /\ c.location.repository = s[1]
          /\ c.location.image = s[2]
          /\ c.remainder = SubSeq(s, 3, Len(s))
        BY <2>2 DEF SplitPathBaseUrl
    <2> QED
        BY <2>1, <2>3
<1> QED
    BY <1>1, <1>2, <1>3

(* The name of a container of rockslide is read back.                      *)
LEMMA OwnNames ==
    ASSUME NEW l \in Locations
    PROVE  ImageLocation(ContainerName(l)) = {l}
<1>1. /\ l = [repository |-> l.repository, image |-> l.image]
      /\ l.repository \in Seq(DOMAIN Lower)
      /\ l.image \in Seq(STRING)
      /\ Plain(l.repository)
    BY PlainRepositories
<1>2. l.repository \in Seq(Tokens) /\ l.image \in Seq(Tokens)
    <2>1. DOMAIN Lower \subseteq Tokens /\ STRING \subseteq Tokens
        BY DEF Tokens
    <2> QED
        BY <1>1, <2>1, SeqOfSubset
<1>3. l \in AllLocations
    BY <1>1, <1>2 DEF AllLocations
<1> QED
    BY <1>1, <1>3, NamesReadBack

LEMMA LocationOfContainer ==
    ASSUME NEW c, ContainerOK(c)
    PROVE  ImageLocation(c.name) = c.loc
BY OwnNames, OthersAreNotOurs DEF ContainerOK

-----------------------------------------------------------------------------

(* Whatever starts or stops, on whatever port: what a refresh knows stays  *)
(* right once that is noted.                                               *)
LEMMA ViewOfOthers ==
    ASSUME NEW todo, NEW t, NEW s, NEW w, NEW run, ViewOK(todo, t, s, w, run),
           NEW run2, NEW D, D \subseteq {"containers"} \cup Ports,
           "containers" \in D, \A c \in run2 : c \in run \/ c.port \in D
    PROVE  ViewOK(todo, t, s \cup D, w, run2)
<1>1. RoutesOK(t, s \cup D, w, run2)
    <2> SUFFICES ASSUME NEW e \in Routes(t)
                 PROVE  RouteOK(e, s \cup D, w, run2)
        BY DEF RoutesOK
    <2>1. RouteOK(e, s, w, run)
        BY DEF ViewOK, RoutesOK
    <2>2. e.port \notin s \cup D =>
             \A c \in run2 : c.port = e.port => c.loc = {e.location}
        BY <2>1 DEF RouteOK
    <2> QED
        BY <2>1, <2>2 DEF RouteOK
<1>2. TodoOK(todo, s \cup D, run2)
    <2> SUFFICES ASSUME NEW c \in todo
                 PROVE  c.port \notin s \cup D =>
                          \A b \in run2 : b.port = c.port => b.loc = c.loc
        BY DEF ViewOK, TodoOK
    <2> QED
        BY DEF ViewOK, TodoOK
<1> QED
    BY <1>1, <1>2 DEF ViewOK, CompleteOK

(* ... and when more configurations have been stored.                      *)
LEMMA ViewOfMore ==
    ASSUME NEW todo, NEW t, NEW s, NEW w, NEW run, ViewOK(todo, t, s, w, run),
           NEW w2, w \subseteq w2
    PROVE  ViewOK(todo, t, s, w2, run)
<1>1. RoutesOK(t, s, w2, run)
    BY DEF ViewOK, RoutesOK, RouteOK
<1> QED
    BY <1>1 DEF ViewOK

(* podman ps lists what runs, by its name.                                 *)
LEMMA ViewOfListed ==
    ASSUME RunningOK
    PROVE  /\ ViewOK(Managed, EmptyTable, {}, Stored, running)
           /\ StoredOK(Stored, configs)
<1>1. DOMAIN EmptyTable.path_maps = {} /\ DOMAIN EmptyTable.domain_maps = {}
    BY DEF EmptyTable
<1>2. KeysOK(EmptyTable) /\ RoutesOK(EmptyTable, {}, Stored, running)
    BY <1>1 DEF KeysOK, RoutesOK, Routes
<1>3. TodoOK(Managed, {}, running)
    <2> SUFFICES ASSUME NEW c \in Managed
                 PROVE  /\ c \in running
                        /\ c.port \in Ports
                        /\ \E l \in Locations :
                              c.name = ContainerName(l) /\ c.loc = {l}
        BY DEF TodoOK, RunningOK
    <2>1. c \in running /\ ContainerOK(c) /\ ImageLocation(c.name) # {}
        BY DEF Managed, RunningOK
    <2> QED
        BY <2>1, LocationOfContainer DEF ContainerOK
<1>4. CompleteOK(Managed, EmptyTable, {}, running)
    <2>1. ASSUME NEW c \in running \ Managed PROVE c.loc = {}
        <3>1. ContainerOK(c) /\ ImageLocation(c.name) = {}
            BY DEF Managed, RunningOK
        <3> QED
            BY <3>1, LocationOfContainer
    <2> QED
        BY <2>1 DEF CompleteOK
<1>5. StoredOK(Stored, configs)
    <2> SUFFICES ASSUME NEW l \in Locations, LoadConfig(l, Prod) # Torn
                 PROVE  <<l, LoadConfig(l, Prod)>> \in Stored
        BY DEF StoredOK, Loaded, LoadConfig
    <2> DEFINE c == LoadConfig(l, Prod)
               s == <<l, c>>
    <2>1. s[2] = c
        OBVIOUS
    <2>2. s \in {<<m, LoadConfig(m, Prod)>> : m \in Locations}
        OBVIOUS
    <2> HIDE DEF s
    <2>3. s \in Stored
        BY <2>1, <2>2 DEF Stored
    <2> QED
        BY <2>3 DEF s
<1> QED
    BY <1>2, <1>3, <1>4, <1>5 DEF ViewOK

(* A route that is inserted is found, and the others are still there.      *)
LEMMA InsertedIs ==
    ASSUME NEW t, NEW e, NEW n, n = Inserted(t, e)
    PROVE  /\ DOMAIN n.path_maps = DOMAIN t.path_maps \cup PathKeys(e)
           /\ \A l \in DOMAIN n.path_maps : n.path_maps[l] =
                 IF l \in PathKeys(e) THEN e ELSE t.path_maps[l]
           /\ DOMAIN n.domain_maps = DOMAIN t.domain_maps \cup DomainKeys(e)
           /\ \A d \in DOMAIN n.domain_maps : n.domain_maps[d] =
                 IF d \in DomainKeys(e) THEN e ELSE t.domain_maps[d]
BY DEF Inserted

(* What a refresh loads from one of its containers is right: the container *)
(* is that of its route, and its configuration is one that is stored.      *)
LEMMA ViewOfLoaded ==
    ASSUME RunningOK, ConfigsOK,
           NEW todo, NEW t, NEW s, NEW w, ViewOK(todo, t, s, w, running),
           StoredOK(w, configs),
           NEW c \in todo, NEW e \in LoadManagedContainer(c),
           e.config # Torn
    PROVE  ViewOK(todo \ {c}, Inserted(t, e), s, w, running)
<1> DEFINE n == Inserted(t, e)
<1>1. PICK l \in Locations : c.name = ContainerName(l) /\ c.loc = {l}
    BY DEF ViewOK, TodoOK
<1>2. e = [location |-> l, port |-> c.port, config |-> LoadConfig(l, Prod)]
    <2>1. ImageLocation(c.name) = {l}
        BY <1>1, OwnNames
    <2>2. LoadConfig(l, ImageTag) = LoadConfig(l, Prod)
        BY TagsHaveOnePath DEF LoadConfig
    <2> QED
        BY <2>1, <2>2 DEF LoadManagedContainer
<1>3. /\ e.location = l
      /\ e.port = c.port
      /\ e.config = LoadConfig(l, Prod)
    BY <1>2
<1>4. /\ DOMAIN n.path_maps = DOMAIN t.path_maps \cup PathKeys(e)
      /\ \A k \in DOMAIN n.path_maps : n.path_maps[k] =
            IF k \in PathKeys(e) THEN e ELSE t.path_maps[k]
      /\ DOMAIN n.domain_maps = DOMAIN t.domain_maps \cup DomainKeys(e)
      /\ \A d \in DOMAIN n.domain_maps : n.domain_maps[d] =
            IF d \in DomainKeys(e) THEN e ELSE t.domain_maps[d]
    BY InsertedIs
<1> HIDE DEF n
<1>5. KeysOK(n)
    BY <1>4 DEF ViewOK, KeysOK
<1>6. RoutesOK(n, s, w, running)
    <2>1. ASSUME NEW r \in Routes(n) PROVE r \in Routes(t) \/ r = e
        BY <1>4 DEF Routes
    <2>2. e.config \in Configs \cup {{}}
        BY <1>3 DEF LoadConfig, Parsed, ConfigsOK
    <2>3. <<e.location, e.config>> \in w
        BY <1>3 DEF StoredOK, Loaded, LoadConfig
    <2>4. "containers" \notin s => \E b \in running : b.loc = {e.location}
        BY <1>1, <1>3 DEF ViewOK, TodoOK
    <2>5. e.port \notin s => \A b \in running :
             b.port = e.port => b.loc = {e.location}
        BY <1>1, <1>3 DEF ViewOK, TodoOK
    <2>6. e.port \in Ports
        BY <1>3 DEF ViewOK, TodoOK
    <2>7. RouteOK(e, s, w, running)
        BY <1>3, <2>2, <2>3, <2>4, <2>5, <2>6 DEF RouteOK
    <2> QED
        BY <2>1, <2>7 DEF ViewOK, RoutesOK
<1>7. TodoOK(todo \ {c}, s, running)
    BY DEF ViewOK, TodoOK
<1>8. CompleteOK(todo \ {c}, n, s, running)
    <2> SUFFICES ASSUME "containers" \notin s,
                        NEW b \in running, b \notin todo \ {c},
                        NEW m \in b.loc
                 PROVE  /\ m \in DOMAIN n.path_maps
                        /\ n.path_maps[m].port = b.port
                        /\ DomainNew(m.repository) \subseteq DOMAIN n.domain_maps
        BY DEF CompleteOK
    <2>1. c \in running
        BY DEF ViewOK, TodoOK
    <2>2. ContainerOK(b)
        BY DEF RunningOK
    <2>3. b.loc = {m} /\ b.name = ContainerName(m)
        BY <2>2 DEF ContainerOK
    <2>4. CASE m = l
        <3>1. b = c
            BY <1>1, <2>1, <2>3, <2>4 DEF RunningOK
        <3>2. m \in PathKeys(e) /\ DomainNew(m.repository) = DomainKeys(e)
            BY <1>3, <2>4 DEF PathKeys, DomainKeys
        <3> QED
            BY <1>3, <1>4, <3>1, <3>2
    <2>5. CASE m # l
        <3>1. m \notin PathKeys(e)
            BY <1>3, <2>5 DEF PathKeys
        <3>2. b \notin todo
            BY <1>1, <2>3, <2>5
        <3>3. /\ m \in DOMAIN t.path_maps
              /\ t.path_maps[m].port = b.port
              /\ DomainNew(m.repository) \subseteq DOMAIN t.domain_maps
            BY <3>2 DEF ViewOK, CompleteOK
        <3> QED
            BY <1>4, <3>1, <3>3
    <2> QED
        BY <2>4, <2>5
<1>9. s \subseteq {"containers"} \cup Ports
    BY DEF ViewOK
<1> QED
    BY <1>5, <1>6, <1>7, <1>8, <1>9 DEF ViewOK, n

-----------------------------------------------------------------------------

(* With a table that is complete, a host that finds no route names nothing *)
(* that runs.                                                              *)
LEMMA NoDomainRuns ==
    ASSUME Inv, "containers" \notin since, NEW q \in Queries,
           \A d \in DOMAIN table.domain_maps : \A h \in q.host :
              d \notin DomainNew(Candidate(h))
    PROVE  OfDomain(q) = {}
<1> SUFFICES ASSUME NEW l \in OfDomain(q) PROVE FALSE
    OBVIOUS
<1>1. l \in OfHost(q) /\ l \in Locations
    BY DEF OfDomain, OfHost
<1>2. PICK c \in running : l \in c.loc
    BY DEF OfDomain
<1>3. PICK h \in q.host : \E d \in DomainNew(Candidate(h)) :
         d \in DomainNew(l.repository)
    BY <1>1, OfHostIs
<1>4. DomainNew(l.repository) \subseteq DOMAIN table.domain_maps
    BY <1>2 DEF Inv, ViewOK, CompleteOK
<1> QED
    BY <1>3, <1>4

(* A destination is a route of a location that the request asks for.       *)
LEMMA DestinationIsAsked ==
    ASSUME Inv, NEW q \in Queries, NEW dest, dest = GetDestination(table, q),
           dest.kind = "proxied"
    PROVE  /\ RouteOK(dest.to, since, stored, running)
           /\ dest.to.location \in Asked(q)
<1> DEFINE hosts == {d \in DOMAIN table.domain_maps :
                       \E h \in q.host : d \in DomainNew(Candidate(h))}
           s == Segments(q.path)
           l == [repository |-> s[1], image |-> s[2]]
           OK(e) == RouteOK(e, since, stored, running)
<1>0. /\ \A e \in Routes(table) : OK(e)
      /\ KeysOK(table)
    BY DEF Inv, ViewOK, RoutesOK
<1>1. \/ \E d \in hosts : dest.to = table.domain_maps[d]
      \/ /\ hosts = {}
         /\ Len(s) >= 2
         /\ l \in DOMAIN table.path_maps
         /\ dest.to = table.path_maps[l]
    BY DestinationIs, ZenonT(30)
<1>2. ASSUME NEW d \in hosts, dest.to = table.domain_maps[d]
      PROVE  OK(dest.to) /\ dest.to.location \in Asked(q)
    <2> DEFINE e == dest.to
    <2>1. OK(e) /\ d \in DomainNew(e.location.repository)
        BY <1>0, <1>2 DEF KeysOK, Routes, DomainKeys
    <2>2. e.location \in Locations
        BY <2>1 DEF RouteOK
    <2>3. e.location \in OfHost(q)
        BY <2>1, <2>2, OfHostIs
    <2>4. "containers" \notin since => e.location \in OfDomain(q)
        BY <2>1, <2>3 DEF RouteOK, OfDomain
    <2> QED
        BY <2>1, <2>3, <2>4 DEF Asked
<1>3. ASSUME hosts = {}, Len(s) >= 2, l \in DOMAIN table.path_maps,
             dest.to = table.path_maps[l]
      PROVE  OK(dest.to) /\ dest.to.location \in Asked(q)
    <2>1. OK(dest.to) /\ dest.to.location = l
        BY <1>0, <1>3 DEF KeysOK, Routes, PathKeys
    <2>2. l \in Locations /\ s[1] = l.repository /\ s[2] = l.image
        BY <2>1 DEF RouteOK
    <2>3. l \in OfPath(q)
        BY <1>3, <2>2 DEF OfPath
    <2>4. "containers" \notin since => OfDomain(q) = {}
        BY <1>3, NoDomainRuns
    <2> QED
        BY <2>1, <2>3, <2>4 DEF Asked
<1> QED
    BY <1>1, <1>2, <1>3

(* The invariant says where requests lead.                                 *)
LEMMA InvReachable == Inv => Reachable
<1> SUFFICES ASSUME Inv, "containers" \notin since, NEW q \in Queries,
                    NEW c \in running, c.loc # {}, c.loc \subseteq OfPath(q),
                    OfDomain(q) = {}, ~IsInternal(q.path)
             PROVE  LET dest == GetDestination(table, q)
                    IN  dest.kind = "proxied" /\ dest.to.port = c.port
    BY DEF Reachable
<1> DEFINE hosts == {d \in DOMAIN table.domain_maps :
                       \E h \in q.host : d \in DomainNew(Candidate(h))}
           s == Segments(q.path)
<1>1. PICK l \in c.loc : TRUE
    OBVIOUS
<1>2. /\ l \in Locations
      /\ Len(s) >= 2
      /\ s[1] = l.repository
      /\ s[2] = l.image
    BY <1>1 DEF OfPath
<1>3. l = [repository |-> s[1], image |-> s[2]]
    BY <1>2, PlainRepositories
<1>4. l \in DOMAIN table.path_maps /\ table.path_maps[l].port = c.port
    BY DEF Inv, ViewOK, CompleteOK
<1>5. hosts = {}
    <2> SUFFICES ASSUME NEW d \in hosts PROVE FALSE
        OBVIOUS
    <2> DEFINE e == table.domain_maps[d]
    <2>1. /\ RouteOK(e, since, stored, running)
          /\ d \in DomainNew(e.location.repository)
        BY DEF Inv, ViewOK, KeysOK, RoutesOK, Routes, DomainKeys
    <2>2. e.location \in OfHost(q)
        BY <2>1, OfHostIs DEF RouteOK
    <2>3. e.location \in OfDomain(q)
        BY <2>1, <2>2 DEF RouteOK, OfDomain
    <2> QED
        BY <2>3
<1>6. GetDestination(table, q).kind = "proxied"
      /\ GetDestination(table, q).to = table.path_maps[l]
    BY <1>2, <1>3, <1>4, <1>5, DestinationIs
<1> QED
    BY <1>4, <1>6

-----------------------------------------------------------------------------

(* A free slot is in order whatever runs, and so is the start of a refresh *)
(* in it.                                                                  *)
LEMMA FreeOK ==
    ASSUME NEW run
    PROVE  RequestOK(Free, run) /\ RequestOK([Free EXCEPT !.pc = "ps"], run)
<1> DEFINE q == [Free EXCEPT !.pc = "ps"]
<1>1. Free = [pc      |-> Free.pc,
              query   |-> Free.query,
              payload |-> Free.payload,
              dest    |-> Free.dest,
              asked   |-> Free.asked,
              open    |-> Free.open,
              sure    |-> Free.sure]
    BY DEF Free
<1>2. q = [pc      |-> "ps",
           query   |-> Free.query,
           payload |-> Free.payload,
           dest    |-> Free.dest,
           asked   |-> Free.asked,
           open    |-> Free.open,
           sure    |-> Free.sure]
    BY <1>1
<1> HIDE DEF q
<1>3. Free.query = NoQuery
    BY DEF Free
<1>4. RequestOK(q, run)
    BY <1>2, <1>3 DEF RequestOK, SendOK
<1>5. RequestOK(Free, run)
    BY DEF Free, RequestOK, SendOK
<1> QED
    BY <1>4, <1>5 DEF q

(* One request changes, and the new one is in order.                       *)
LEMMA OneRequest ==
    ASSUME Inv, UNCHANGED running, NEW r \in Requests, NEW q,
           req' = [req EXCEPT ![r] = q], RequestOK(q, running)
    PROVE  /\ RequestsOK'
           /\ req'[r] = q
           /\ \A x \in Requests \ {r} : req'[x] = req[x]
<1>1. /\ req' = [x \in Requests |-> req'[x]]
      /\ req'[r] = q
      /\ \A x \in Requests \ {r} : req'[x] = req[x]
    BY DEF Inv, RequestsOK
<1>2. ASSUME NEW x \in Requests PROVE RequestOK(req'[x], running')
    BY <1>1 DEF Inv, RequestsOK
<1> QED
    BY <1>1, <1>2 DEF RequestsOK

(* Only its pc changes.                                                    *)
LEMMA MovedRequest ==
    ASSUME Inv, UNCHANGED running, NEW r \in Requests, NEW pc,
           pc \in {"write", "verify", "load"}, Move(r, pc)
    PROVE  /\ RequestsOK'
           /\ req'[r].pc = pc
           /\ \A x \in Requests \ {r} : req'[x] = req[x]
<1> DEFINE q == [pc      |-> pc,
                 query   |-> req[r].query,
                 payload |-> req[r].payload,
                 dest    |-> req[r].dest,
                 asked   |-> req[r].asked,
                 open    |-> req[r].open,
                 sure    |-> req[r].sure]
<1>1. RequestOK(req[r], running) /\ req = [x \in Requests |-> req[x]]
    BY DEF Inv, RequestsOK
<1>2. [req[r] EXCEPT !.pc = pc] = q
    BY <1>1 DEF RequestOK
<1>3. req' = [req EXCEPT ![r] = q]
    BY <1>1, <1>2 DEF Move
<1>4. RequestOK(q, running) /\ q.pc = pc
    BY <1>1 DEF RequestOK, SendOK
<1> HIDE DEF q
<1> QED
    BY <1>3, <1>4, OneRequest

(* Requests come and go while everything else stays.                       *)
LEMMA OnlyRequests ==
    ASSUME Inv, RequestsOK',
           UNCHANGED <<running, configs, table, refresh, since, stored>>,
           \A x \in Requests : req'[x] = req[x] \/ req'[x].pc # "load"
    PROVE  Inv'
<1>1. RunningOK' /\ ConfigsOK'
    BY DEF Inv, RunningOK, ConfigsOK
<1>2. ViewOK({}, table', since', stored', running')
    BY DEF Inv
<1>3. RefreshesOK'
    <2>1. \A x \in Requests : Loading(x)' => Loading(x)
        BY DEF Loading
    <2> QED
        BY <2>1 DEF Inv, RefreshesOK
<1> QED
    BY <1>1, <1>2, <1>3 DEF Inv

(* One refresh goes on: what it knows then has to be right.                *)
LEMMA OneRefresh ==
    ASSUME Inv, UNCHANGED <<running, configs>>, NEW r \in Requests, NEW g,
           g = [todo   |-> g.todo,
                table  |-> g.table,
                since  |-> g.since,
                stored |-> g.stored],
           refresh' = [refresh EXCEPT ![r] = g],
           \A x \in Requests \ {r} : req'[x] = req[x],
           req'[r].pc = "load" =>
               /\ ViewOK(g.todo, g.table, g.since, g.stored, running)
               /\ StoredOK(g.stored, configs)
    PROVE  RefreshesOK'
<1>1. /\ refresh' = [x \in Requests |-> refresh'[x]]
      /\ refresh'[r] = g
      /\ \A x \in Requests \ {r} : refresh'[x] = refresh[x]
    BY DEF Inv, RefreshesOK
<1>2. ASSUME NEW x \in Requests, Loading(x)'
      PROVE  /\ ViewOK(refresh'[x].todo, refresh'[x].table,
                       refresh'[x].since, refresh'[x].stored, running')
             /\ StoredOK(refresh'[x].stored, configs')
    <2>1. CASE x = r
        BY <1>1, <1>2, <2>1 DEF Loading
    <2>2. CASE x # r
        <3>1. Loading(x) /\ refresh'[x] = refresh[x]
            BY <1>1, <1>2, <2>2 DEF Loading
        <3> QED
            BY <3>1 DEF Inv, RefreshesOK
    <2> QED
        BY <2>1, <2>2
<1>3. ASSUME NEW x \in Requests
      PROVE  refresh'[x] = [todo   |-> refresh'[x].todo,
                            table  |-> refresh'[x].table,
                            since  |-> refresh'[x].since,
                            stored |-> refresh'[x].stored]
    BY <1>1 DEF Inv, RefreshesOK
<1> QED
    BY <1>1, <1>2, <1>3 DEF RefreshesOK

(* A refresh comes to its end, in one way or the other.                    *)
LEMMA RefreshEnded ==
    ASSUME Inv, UNCHANGED <<running, configs>>, NEW r \in Requests,
           refresh' = [refresh EXCEPT ![r] = NoRefresh], Answer(r)
    PROVE  RunningOK' /\ ConfigsOK' /\ RequestsOK' /\ RefreshesOK'
<1>1. /\ RequestsOK'
      /\ req'[r] = Free
      /\ \A x \in Requests \ {r} : req'[x] = req[x]
    BY FreeOK, OneRequest DEF Answer
<1>2. NoRefresh = [todo   |-> NoRefresh.todo,
                   table  |-> NoRefresh.table,
                   since  |-> NoRefresh.since,
                   stored |-> NoRefresh.stored]
    BY DEF NoRefresh
<1>3. req'[r].pc # "load"
    BY <1>1 DEF Free
<1>4. RefreshesOK'
    BY <1>1, <1>2, <1>3, OneRefresh
<1>5. RunningOK' /\ ConfigsOK'
    BY DEF Inv, RunningOK, ConfigsOK
<1> QED
    BY <1>1, <1>4, <1>5

LEMMA NotedIs ==
    ASSUME NEW f, f = [todo   |-> f.todo,
                       table  |-> f.table,
                       since  |-> f.since,
                       stored |-> f.stored],
           NEW new
    PROVE  /\ [f EXCEPT !.since = new] = [todo   |-> f.todo,
                                         table  |-> f.table,
                                         since  |-> new,
                                         stored |-> f.stored]
           /\ [f EXCEPT !.stored = new] = [todo   |-> f.todo,
                                          table  |-> f.table,
                                          since  |-> f.since,
                                          stored |-> new]
OBVIOUS

(* Containers have started or stopped, and all that are concerned know.    *)
LEMMA ContainersNoted ==
    ASSUME Inv, NEW D, D \subseteq {"containers"} \cup Ports,
           "containers" \in D, NoteContainers(D), RunningOK', RequestsOK',
           \A c \in running' : c \in running \/ c.port \in D,
           \A x \in Requests : req'[x].pc = req[x].pc
    PROVE  Inv'
<1>1. /\ since' = since \cup D
      /\ refresh' = [x \in Requests |->
                       IF Loading(x)
                       THEN [refresh[x] EXCEPT !.since = @ \cup D]
                       ELSE refresh[x]]
      /\ configs' = configs /\ table' = table /\ stored' = stored
    BY DEF NoteContainers
<1>2. ViewOK({}, table', since', stored', running')
    <2>1. ViewOK({}, table, since, stored, running)
        BY DEF Inv
    <2>2. ViewOK({}, table, since \cup D, stored, running')
        BY <2>1, ViewOfOthers
    <2> QED
        BY <1>1, <2>2
<1>3. ASSUME NEW x \in Requests
      PROVE  /\ refresh'[x] = [todo   |-> refresh'[x].todo,
                               table  |-> refresh'[x].table,
                               since  |-> refresh'[x].since,
                               stored |-> refresh'[x].stored]
             /\ Loading(x)' =>
                   /\ ViewOK(refresh'[x].todo, refresh'[x].table,
                             refresh'[x].since, refresh'[x].stored, running')
                   /\ StoredOK(refresh'[x].stored, configs')
    <2> DEFINE f == refresh[x]
               g == [todo   |-> f.todo,
                     table  |-> f.table,
                     since  |-> f.since \cup D,
                     stored |-> f.stored]
    <2>0. f = [todo   |-> f.todo,
               table  |-> f.table,
               since  |-> f.since,
               stored |-> f.stored]
        BY DEF Inv, RefreshesOK
    <2>1. Loading(x) => /\ ViewOK(f.todo, f.table, f.since, f.stored, running)
                        /\ StoredOK(f.stored, configs)
        BY DEF Inv, RefreshesOK
    <2>3. refresh'[x] = IF Loading(x) THEN [f EXCEPT !.since = @ \cup D] ELSE f
        BY <1>1
    <2> HIDE DEF f
    <2>2. [f EXCEPT !.since = @ \cup D] = g
        BY <2>0, NotedIs
    <2>4. Loading(x)' => Loading(x)
        BY DEF Loading
    <2>5. CASE ~Loading(x)
        BY <1>1, <2>0, <2>3, <2>4, <2>5
    <2>6. CASE Loading(x)
        <3>1. refresh'[x] = g
            BY <2>2, <2>3, <2>6
        <3>2. ViewOK(f.todo, f.table, f.since \cup D, f.stored, running')
            BY <2>1, <2>6, ViewOfOthers
        <3> QED
            BY <1>1, <2>1, <2>6, <3>1, <3>2
    <2> QED
        BY <2>5, <2>6
<1>4. RefreshesOK'
    <2>1. refresh' = [x \in Requests |-> refresh'[x]]
        BY <1>1
    <2> QED
        BY <1>3, <2>1 DEF RefreshesOK
<1>5. ConfigsOK'
    BY <1>1 DEF Inv, ConfigsOK
<1> QED
    BY <1>2, <1>4, <1>5 DEF Inv

(* A file has been written to, and all that are concerned know.            *)
LEMMA ConfigWritten ==
    ASSUME Inv, NEW l, l = [repository |-> l.repository, image |-> l.image],
           NEW content \in Configs \cup {Empty, Torn}, WriteFile(l, content),
           RequestsOK',
           \A x \in Requests : req'[x] = req[x] \/ req'[x].pc # "load"
    PROVE  Inv'
<1> DEFINE path == ConfigPath(l, Prod)
           new  == {<<l, c>> : c \in {Parsed(content)} \ {Torn}}
<1>1. /\ configs' = Insert(configs, path, content)
      /\ stored' = stored \cup new
      /\ refresh' = [x \in Requests |->
                       IF Loading(x)
                       THEN [refresh[x] EXCEPT !.stored = @ \cup new]
                       ELSE refresh[x]]
      /\ running' = running /\ table' = table /\ since' = since
    BY DEF WriteFile
<1>2. /\ DOMAIN configs' = DOMAIN configs \cup {path}
      /\ \A p \in DOMAIN configs' :
            configs'[p] = IF p = path THEN content ELSE configs[p]
    BY <1>1 DEF Insert
<1>3. Loaded(configs', l) # Torn => <<l, Loaded(configs', l)>> \in new
    BY <1>2 DEF Loaded
<1>4. ASSUME NEW m \in Locations, m # l
      PROVE  Loaded(configs', m) = Loaded(configs, m)
    <2>1. m = [repository |-> m.repository, image |-> m.image]
        BY PlainRepositories
    <2>2. m.repository # l.repository \/ m.image # l.image
        BY <1>4, <2>1
    <2>3. ConfigPath(m, Prod) # path
        BY <2>2 DEF ConfigPath
    <2> QED
        BY <1>2, <2>3 DEF Loaded
<1> HIDE DEF new, path
<1>5. ASSUME NEW w, StoredOK(w, configs)
      PROVE  StoredOK(w \cup new, configs')
    <2> SUFFICES ASSUME NEW m \in Locations, Loaded(configs', m) # Torn
                 PROVE  <<m, Loaded(configs', m)>> \in w \cup new
        BY DEF StoredOK
    <2>1. CASE m = l
        BY <1>3, <2>1
    <2>2. CASE m # l
        BY <1>4, <1>5, <2>2 DEF StoredOK
    <2> QED
        BY <2>1, <2>2
<1>6. ViewOK({}, table', since', stored', running')
    <2>1. ViewOK({}, table, since, stored, running)
        BY DEF Inv
    <2>2. ViewOK({}, table, since, stored \cup new, running)
        BY <2>1, ViewOfMore
    <2> QED
        BY <1>1, <2>2
<1>7. ASSUME NEW x \in Requests
      PROVE  /\ refresh'[x] = [todo   |-> refresh'[x].todo,
                               table  |-> refresh'[x].table,
                               since  |-> refresh'[x].since,
                               stored |-> refresh'[x].stored]
             /\ Loading(x)' =>
                   /\ ViewOK(refresh'[x].todo, refresh'[x].table,
                             refresh'[x].since, refresh'[x].stored, running')
                   /\ StoredOK(refresh'[x].stored, configs')
    <2> DEFINE f == refresh[x]
               g == [todo   |-> f.todo,
                     table  |-> f.table,
                     since  |-> f.since,
                     stored |-> f.stored \cup new]
    <2>0. f = [todo   |-> f.todo,
               table  |-> f.table,
               since  |-> f.since,
               stored |-> f.stored]
        BY DEF Inv, RefreshesOK
    <2>1. Loading(x) => /\ ViewOK(f.todo, f.table, f.since, f.stored, running)
                        /\ StoredOK(f.stored, configs)
        BY DEF Inv, RefreshesOK
    <2>3. refresh'[x] =
            IF Loading(x) THEN [f EXCEPT !.stored = @ \cup new] ELSE f
        BY <1>1
    <2> HIDE DEF f
    <2>2. [f EXCEPT !.stored = @ \cup new] = g
        BY <2>0, NotedIs
    <2>4. Loading(x)' => Loading(x)
        BY DEF Loading
    <2>5. CASE ~Loading(x)
        BY <1>1, <2>0, <2>3, <2>4, <2>5
    <2>6. CASE Loading(x)
        <3>1. refresh'[x] = g
            BY <2>2, <2>3, <2>6
        <3>2. ViewOK(f.todo, f.table, f.since, f.stored \cup new, running)
            BY <2>1, <2>6, ViewOfMore
        <3>3. StoredOK(f.stored \cup new, configs')
            BY <1>5, <2>1, <2>6
        <3>4. running' = running
            BY <1>1
        <3> QED
            BY <3>1, <3>2, <3>3, <3>4
    <2> QED
        BY <2>5, <2>6
<1>8. RefreshesOK'
    <2>1. refresh' = [x \in Requests |-> refresh'[x]]
        BY <1>1
    <2> QED
        BY <1>7, <2>1 DEF RefreshesOK
<1>9. RunningOK' /\ ConfigsOK'
    BY <1>1, <1>2 DEF Inv, RunningOK, ConfigsOK
<1> QED
    BY <1>6, <1>8, <1>9 DEF Inv

LEMMA SureIs ==
    ASSUME NEW q, q = [pc      |-> q.pc,
                       query   |-> q.query,
                       payload |-> q.payload,
                       dest    |-> q.dest,
                       asked   |-> q.asked,
                       open    |-> q.open,
                       sure    |-> q.sure],
           NEW sure
    PROVE  [q EXCEPT !.sure = sure] = [pc      |-> q.pc,
                                       query   |-> q.query,
                                       payload |-> q.payload,
                                       dest    |-> q.dest,
                                       asked   |-> q.asked,
                                       open    |-> q.open,
                                       sure    |-> sure]
OBVIOUS

(* A container is started on a port that nobody listens at: the routes and *)
(* the requests that lead to this port are no longer sure.                 *)
LEMMA StartedContainer ==
    ASSUME Inv, NEW p \in Ports, NEW c, c.port = p, ContainerOK(c),
           \A e \in running : e.name # c.name, FreePort(p),
           running' = running \cup {c}, HandOut(p)
    PROVE  Inv'
<1> DEFINE D == {"containers", p}
           Led(x) == req[x].dest.kind = "proxied" /\ req[x].dest.to.port = p
<1>1. RunningOK'
    BY DEF Inv, RunningOK, FreePort
<1>2. /\ NoteContainers(D)
      /\ req' = [x \in Requests |->
                   IF Led(x) THEN [req[x] EXCEPT !.sure = FALSE] ELSE req[x]]
    BY DEF HandOut
<1>3. ASSUME NEW x \in Requests
      PROVE  RequestOK(req'[x], running') /\ req'[x].pc = req[x].pc
    <2> DEFINE q == req[x]
               n == [pc      |-> q.pc,
                     query   |-> q.query,
                     payload |-> q.payload,
                     dest    |-> q.dest,
                     asked   |-> q.asked,
                     open    |-> q.open,
                     sure    |-> FALSE]
    <2>1. RequestOK(q, running)
        BY DEF Inv, RequestsOK
    <2>2. req'[x] = IF Led(x) THEN [q EXCEPT !.sure = FALSE] ELSE q
        BY <1>2
    <2>3. Led(x) <=> q.dest.kind = "proxied" /\ q.dest.to.port = p
        OBVIOUS
    <2> HIDE DEF q, Led
    <2>4. CASE Led(x)
        <3>0. q = [pc      |-> q.pc,
                   query   |-> q.query,
                   payload |-> q.payload,
                   dest    |-> q.dest,
                   asked   |-> q.asked,
                   open    |-> q.open,
                   sure    |-> q.sure]
            BY <2>1 DEF RequestOK
        <3>1. [q EXCEPT !.sure = FALSE] = n
            BY <3>0, SureIs
        <3>2. RequestOK(n, running') /\ n.pc = q.pc
            BY <2>1 DEF RequestOK, SendOK
        <3> HIDE DEF n
        <3> QED
            BY <2>2, <2>4, <3>1, <3>2 DEF q
    <2>5. CASE ~Led(x)
        <3>1. SendOK(q, running')
            BY <2>1, <2>3, <2>5 DEF RequestOK, SendOK
        <3>2. RequestOK(q, running')
            BY <2>1, <3>1 DEF RequestOK
        <3> QED
            BY <2>2, <2>5, <3>2 DEF q
    <2> QED
        BY <2>4, <2>5
<1>4. RequestsOK'
    BY <1>2, <1>3 DEF RequestsOK
<1>5. D \subseteq {"containers"} \cup Ports /\ "containers" \in D
    OBVIOUS
<1>6. \A e \in running' : e \in running \/ e.port \in D
    OBVIOUS
<1> HIDE DEF D, Led
<1> QED
    BY <1>1, <1>2, <1>3, <1>4, <1>5, <1>6, ContainersNoted

LEMMA StopInv ==
    ASSUME Inv, NEW c \in running, StopContainer(c)
    PROVE  Inv'
<1> DEFINE D == {"containers"}
<1>1. running' = running \ {c} /\ NoteContainers(D) /\ req' = req
    BY DEF StopContainer
<1>2. RunningOK'
    BY <1>1 DEF Inv, RunningOK
<1>3. RequestsOK'
    BY <1>1 DEF Inv, RequestsOK, RequestOK, SendOK
<1>4. D \subseteq {"containers"} \cup Ports /\ "containers" \in D
    OBVIOUS
<1> HIDE DEF D
<1> QED
    BY <1>1, <1>2, <1>3, <1>4, ContainersNoted

(* A request that is let in finds the container that it asks for.          *)
LEMMA RouteInv ==
    ASSUME Inv, NEW r \in Requests, NEW q \in Queries, NEW header,
           RouteToContainer(r, q, header)
    PROVE  Inv'
<1> DEFINE dest == GetDestination(table, q)
           open == WasOpen(dest.to.location, header)
           sure == dest.to.port \notin since
           sent == [pc      |-> "send",
                    query   |-> q,
                    payload |-> {},
                    dest    |-> dest,
                    asked   |-> Asked(q),
                    open    |-> open,
                    sure    |-> sure]
<1>1. UNCHANGED <<running, configs, table, refresh, since, stored>>
    BY DEF RouteToContainer
<1>2. /\ dest.kind = "proxied"
      /\ Admits(dest.to.config, header)
      /\ req' = [req EXCEPT ![r] = sent]
    BY DEF RouteToContainer
<1> HIDE DEF dest
<1>3. /\ RouteOK(dest.to, since, stored, running)
      /\ dest.to.location \in Asked(q)
    BY <1>2, DestinationIsAsked DEF dest
<1>4. open
    <2> DEFINE s == <<dest.to.location, dest.to.config>>
    <2>1. s \in stored
        BY <1>3 DEF RouteOK
    <2>2. s[1] = dest.to.location /\ s[2] = dest.to.config
        OBVIOUS
    <2> HIDE DEF s
    <2> QED
        BY <1>2, <2>1, <2>2 DEF WasOpen, Admits, AccessChecks
<1>5. sure => \A c \in running : c.port = dest.to.port =>
                 c.loc = {dest.to.location}
    BY <1>3 DEF RouteOK
<1> HIDE DEF open, sure
<1>6. RequestOK(sent, running) /\ sent.pc # "load"
    BY <1>2, <1>3, <1>4, <1>5 DEF RequestOK, SendOK
<1> HIDE DEF sent
<1>7. /\ RequestsOK'
      /\ \A x \in Requests : req'[x] = req[x] \/ req'[x].pc # "load"
    BY <1>1, <1>2, <1>6, OneRequest
<1> QED
    BY <1>1, <1>7, OnlyRequests

(* An internal request is not sent anywhere.                               *)
LEMMA Internally ==
    ASSUME NEW q \in Queries, NEW payload, NEW run, NEW new,
           new = [Free EXCEPT !.pc      = "save",
                              !.query   = q,
                              !.payload = payload]
    PROVE  RequestOK(new, run) /\ new.pc = "save"
<1> DEFINE f1 == [Free EXCEPT !.pc = "save"]
           f2 == [f1 EXCEPT !.query = q]
           f3 == [f2 EXCEPT !.payload = payload]
<1>0. Free = [pc      |-> Free.pc,
              query   |-> Free.query,
              payload |-> Free.payload,
              dest    |-> Free.dest,
              asked   |-> Free.asked,
              open    |-> Free.open,
              sure    |-> Free.sure]
    BY DEF Free
<1>1. f1 = [pc      |-> "save",
            query   |-> Free.query,
            payload |-> Free.payload,
            dest    |-> Free.dest,
            asked   |-> Free.asked,
            open    |-> Free.open,
            sure    |-> Free.sure]
    BY <1>0
<1> HIDE DEF f1
<1>2. f2 = [pc      |-> "save",
            query   |-> q,
            payload |-> Free.payload,
            dest    |-> Free.dest,
            asked   |-> Free.asked,
            open    |-> Free.open,
            sure    |-> Free.sure]
    BY <1>1
<1> HIDE DEF f2
<1>3. f3 = [pc      |-> "save",
            query   |-> q,
            payload |-> payload,
            dest    |-> Free.dest,
            asked   |-> Free.asked,
            open    |-> Free.open,
            sure    |-> Free.sure]
    BY <1>2
<1> HIDE DEF f3
<1>4. /\ f3 = [pc      |-> f3.pc,
               query   |-> f3.query,
               payload |-> f3.payload,
               dest    |-> f3.dest,
               asked   |-> f3.asked,
               open    |-> f3.open,
               sure    |-> f3.sure]
      /\ f3.pc = "save"
      /\ f3.query = q
    BY <1>3
<1>5. RequestOK(f3, run)
    BY <1>4 DEF RequestOK, SendOK
<1>6. new = f3
    BY DEF f1, f2, f3
<1> QED
    BY <1>4, <1>5, <1>6

LEMMA InternalInv ==
    ASSUME Inv, NEW r \in Requests, NEW q \in Queries, NEW header,
           NEW payload, RouteInternally(r, q, header, payload)
    PROVE  Inv'
<1> DEFINE new == [Free EXCEPT !.pc      = "save",
                               !.query   = q,
                               !.payload = payload]
<1>1. UNCHANGED <<running, configs, table, refresh, since, stored>>
    BY DEF RouteInternally
<1>2. req' = [req EXCEPT ![r] = new]
    BY DEF RouteInternally
<1>3. RequestOK(new, running) /\ new.pc = "save"
    BY Internally
<1> HIDE DEF new
<1>4. /\ RequestsOK'
      /\ \A x \in Requests : req'[x] = req[x] \/ req'[x].pc # "load"
    BY <1>1, <1>2, <1>3, OneRequest
<1> QED
    BY <1>1, <1>4, OnlyRequests

(* A slot becomes free, or a refresh starts in it.                         *)
LEMMA AnswerOrStart ==
    ASSUME Inv, UNCHANGED running, NEW r \in Requests,
           Answer(r) \/ StartRefresh(r)
    PROVE  /\ RequestsOK'
           /\ \A x \in Requests : req'[x] = req[x] \/ req'[x].pc # "load"
<1> DEFINE ps == [Free EXCEPT !.pc = "ps"]
<1>1. /\ RequestOK(Free, running) /\ Free.pc # "load"
      /\ RequestOK(ps, running) /\ ps.pc # "load"
    BY FreeOK DEF Free
<1>2. req' = [req EXCEPT ![r] = Free] \/ req' = [req EXCEPT ![r] = ps]
    BY DEF Answer, StartRefresh
<1> HIDE DEF ps
<1> QED
    BY <1>1, <1>2, OneRequest

LEMMA AnswerInv ==
    ASSUME Inv, NEW r \in Requests, Answer(r) \/ StartRefresh(r),
           UNCHANGED <<running, configs, table, refresh, since, stored>>
    PROVE  Inv'
    BY AnswerOrStart, OnlyRequests

(* A file is written to, and the request goes on or is answered.           *)
LEMMA WriteInv ==
    ASSUME Inv, NEW r \in Requests, NEW path, NEW l \in ConfigUrl(path),
           NEW content \in Configs \cup {Empty, Torn}, WriteFile(l, content),
           Move(r, "write") \/ Move(r, "verify") \/ Answer(r)
    PROVE  Inv'
<1>1. l = [repository |-> l.repository, image |-> l.image]
    BY DEF ConfigUrl
<1>2. UNCHANGED running
    BY DEF WriteFile
<1>3. /\ RequestsOK'
      /\ \A x \in Requests : req'[x] = req[x] \/ req'[x].pc # "load"
    <2>1. CASE Answer(r)
        BY <1>2, <2>1, AnswerOrStart
    <2>2. ASSUME NEW pc \in {"write", "verify"}, Move(r, pc)
          PROVE  /\ RequestsOK'
                 /\ \A x \in Requests : req'[x] = req[x] \/ req'[x].pc # "load"
        BY <1>2, <2>2, MovedRequest
    <2> QED
        BY <2>1, <2>2
<1> QED
    BY <1>1, <1>3, ConfigWritten

LEMMA ListInv ==
    ASSUME Inv, NEW r \in Requests, RefreshList(r)
    PROVE  Inv'
<1> DEFINE g == [todo   |-> Managed,
                 table  |-> EmptyTable,
                 since  |-> {},
                 stored |-> Stored]
<1>1. UNCHANGED <<running, configs, table, since, stored>>
    BY DEF RefreshList
<1>2. Move(r, "load") /\ refresh' = [refresh EXCEPT ![r] = g]
    BY DEF RefreshList
<1>3. RequestsOK' /\ \A x \in Requests \ {r} : req'[x] = req[x]
    BY <1>1, <1>2, MovedRequest
<1>4. /\ ViewOK(Managed, EmptyTable, {}, Stored, running)
      /\ StoredOK(Stored, configs)
    BY ViewOfListed DEF Inv
<1>5. /\ g = [todo   |-> g.todo,
              table  |-> g.table,
              since  |-> g.since,
              stored |-> g.stored]
      /\ g.todo = Managed /\ g.table = EmptyTable
      /\ g.since = {} /\ g.stored = Stored
    OBVIOUS
<1> HIDE DEF g
<1>6. RefreshesOK'
    BY <1>1, <1>2, <1>3, <1>4, <1>5, OneRefresh
<1>7. RunningOK' /\ ConfigsOK' /\ ViewOK({}, table', since', stored', running')
    BY <1>1 DEF Inv, RunningOK, ConfigsOK
<1> QED
    BY <1>3, <1>6, <1>7 DEF Inv

LEMMA LoadInv ==
    ASSUME Inv, NEW r \in Requests, NEW c \in refresh[r].todo,
           RefreshLoad(r, c)
    PROVE  Inv'
<1> DEFINE f == refresh[r]
<1>1. UNCHANGED <<running, configs, table, req, since, stored>>
    BY DEF RefreshLoad
<1>2. PICK e \in LoadManagedContainer(c) :
         /\ e.config # Torn
         /\ refresh' = [refresh EXCEPT ![r].todo  = @ \ {c},
                                       ![r].table = Inserted(@, e)]
    BY DEF RefreshLoad
<1>3. Loading(r)
    BY DEF RefreshLoad
<1> DEFINE n == Inserted(f.table, e)
           g == [todo   |-> f.todo \ {c},
                 table  |-> n,
                 since  |-> f.since,
                 stored |-> f.stored]
<1>4. f = [todo   |-> f.todo,
           table  |-> f.table,
           since  |-> f.since,
           stored |-> f.stored]
    BY DEF Inv, RefreshesOK
<1>5. /\ ViewOK(f.todo, f.table, f.since, f.stored, running)
      /\ StoredOK(f.stored, configs)
    BY <1>3 DEF Inv, RefreshesOK
<1>6. ViewOK(f.todo \ {c}, n, f.since, f.stored, running)
    BY <1>2, <1>5, ViewOfLoaded DEF Inv
<1>7. refresh' = [refresh EXCEPT ![r] = g]
    <2> DEFINE T == f.todo \ {c}
               f1 == [f EXCEPT !.todo = T]
               f2 == [f1 EXCEPT !.table = n]
    <2>1. refresh = [x \in Requests |-> refresh[x]]
        BY DEF Inv, RefreshesOK
    <2>2. refresh' = [refresh EXCEPT ![r] = f2]
        BY <1>2, <2>1
    <2> HIDE DEF n, f, T
    <2>3. f1 = [todo   |-> T,
                table  |-> f.table,
                since  |-> f.since,
                stored |-> f.stored]
        BY <1>4
    <2> HIDE DEF f1
    <2>4. f2 = [todo   |-> T,
                table  |-> n,
                since  |-> f.since,
                stored |-> f.stored]
        BY <2>3
    <2> QED
        BY <2>2, <2>4 DEF T
<1> HIDE DEF n, f
<1>8. /\ g = [todo   |-> g.todo,
              table  |-> g.table,
              since  |-> g.since,
              stored |-> g.stored]
      /\ g.todo = f.todo \ {c} /\ g.table = n
      /\ g.since = f.since /\ g.stored = f.stored
    OBVIOUS
<1> HIDE DEF g
<1>9. RefreshesOK'
    BY <1>1, <1>5, <1>6, <1>7, <1>8, OneRefresh
<1>10. /\ RunningOK' /\ ConfigsOK' /\ RequestsOK'
       /\ ViewOK({}, table', since', stored', running')
    BY <1>1 DEF Inv, RunningOK, ConfigsOK, RequestsOK
<1> QED
    BY <1>9, <1>10 DEF Inv

(* What is swapped in is right, whatever has happened since podman ps, and *)
(* whatever another refresh has swapped in before.                         *)
LEMMA SwapInv ==
    ASSUME Inv, NEW r \in Requests, RefreshSwap(r)
    PROVE  Inv'
<1>1. UNCHANGED <<running, configs>> /\ Loading(r) /\ refresh[r].todo = {}
    BY DEF RefreshSwap
<1>2. /\ table' = refresh[r].table
      /\ since' = refresh[r].since
      /\ stored' = refresh[r].stored
    BY DEF RefreshSwap
<1>3. refresh' = [refresh EXCEPT ![r] = NoRefresh] /\ Answer(r)
    BY DEF RefreshSwap
<1>4. RunningOK' /\ ConfigsOK' /\ RequestsOK' /\ RefreshesOK'
    BY <1>1, <1>3, RefreshEnded
<1>5. ViewOK(refresh[r].todo, refresh[r].table, refresh[r].since,
             refresh[r].stored, running)
    BY <1>1 DEF Inv, RefreshesOK
<1>6. ViewOK({}, table', since', stored', running')
    BY <1>1, <1>2, <1>5
<1> QED
    BY <1>4, <1>6 DEF Inv

LEMMA GiveUpInv ==
    ASSUME Inv, NEW r \in Requests, GiveUp(r)
    PROVE  Inv'
<1>1. UNCHANGED <<running, configs, table, since, stored>>
    BY DEF GiveUp
<1>2. refresh' = [refresh EXCEPT ![r] = NoRefresh] /\ Answer(r)
    BY DEF GiveUp
<1>3. RunningOK' /\ ConfigsOK' /\ RequestsOK' /\ RefreshesOK'
    BY <1>1, <1>2, RefreshEnded
<1>4. ViewOK({}, table', since', stored', running')
    BY <1>1 DEF Inv
<1> QED
    BY <1>3, <1>4 DEF Inv

LEMMA InitInv == Init => Inv
<1> SUFFICES ASSUME Init PROVE Inv
    OBVIOUS
<1>1. RunningOK /\ ConfigsOK
    BY DEF Init, RunningOK, ConfigsOK
<1>2. DOMAIN table.path_maps = {} /\ DOMAIN table.domain_maps = {}
    BY DEF Init, EmptyTable
<1>3. ViewOK({}, table, since, stored, running)
    BY <1>2 DEF Init, ViewOK, KeysOK, RoutesOK, Routes, TodoOK, CompleteOK
<1>4. RequestsOK
    BY FreeOK DEF Init, RequestsOK
<1>5. RefreshesOK
    BY DEF Init, RefreshesOK, Loading, Free, NoRefresh
<1> QED
    BY <1>1, <1>3, <1>4, <1>5 DEF Inv

LEMMA NextInv == Inv /\ [Next]_vars => Inv'
<1> SUFFICES ASSUME Inv, [Next]_vars PROVE Inv'
    OBVIOUS
<1>1. ASSUME NEW l \in Locations, NEW p \in Ports, RunContainer(l, p)
      PROVE  Inv'
    <2> DEFINE c == [name |-> ContainerName(l), port |-> p, loc |-> {l}]
    <2>1. c.port = p /\ c.name = ContainerName(l) /\ c.loc = {l}
        OBVIOUS
    <2>2. /\ \A e \in running : e.name # c.name
          /\ FreePort(p)
          /\ running' = running \cup {c}
          /\ HandOut(p)
        BY <1>1 DEF RunContainer
    <2> HIDE DEF c
    <2>3. ContainerOK(c)
        BY <2>1 DEF ContainerOK
    <2> QED
        BY <2>1, <2>2, <2>3, StartedContainer
<1>2. ASSUME NEW n \in Foreign, NEW p \in Ports, RunForeign(n, p)
      PROVE  Inv'
    <2> DEFINE c == [name |-> n, port |-> p, loc |-> {}]
    <2>1. c.port = p /\ c.name = n /\ c.loc = {}
        OBVIOUS
    <2>2. /\ \A e \in running : e.name # c.name
          /\ FreePort(p)
          /\ running' = running \cup {c}
          /\ HandOut(p)
        BY <1>2 DEF RunForeign
    <2> HIDE DEF c
    <2>3. ContainerOK(c)
        BY <2>1 DEF ContainerOK
    <2> QED
        BY <2>1, <2>2, <2>3, StartedContainer
<1>3. ASSUME NEW r \in Requests, TruncateConfig(r) PROVE Inv'
    BY <1>3, WriteInv DEF TruncateConfig
<1>4. ASSUME NEW r \in Requests, WriteConfig(r) PROVE Inv'
    <2>1. PICK l \in ConfigUrl(req[r].query.path), c \in Configs \cup {Torn} :
             WriteFile(l, c)
        BY <1>4 DEF WriteConfig
    <2>2. Move(r, "verify")
        BY <1>4 DEF WriteConfig
    <2> QED
        BY <2>1, <2>2, WriteInv
<1>5. ASSUME NEW r \in Requests, WriteError(r) PROVE Inv'
    <2>1. Answer(r)
        BY <1>5 DEF WriteError
    <2>2. ASSUME NEW l \in ConfigUrl(req[r].query.path), WriteFile(l, Torn)
          PROVE  Inv'
        BY <2>1, <2>2, WriteInv
    <2>3. CASE UNCHANGED <<running, configs, table, refresh, since, stored>>
        BY <2>1, <2>3, AnswerInv
    <2> QED
        BY <1>5, <2>2, <2>3 DEF WriteError
<1>6. ASSUME NEW r \in Requests,
             Send(r) \/ VerifyConfig(r) \/ PushRefresh(r)
      PROVE  Inv'
    <2>1. UNCHANGED <<running, configs, table, refresh, since, stored>>
        BY <1>6 DEF Send, VerifyConfig, PushRefresh
    <2>2. Answer(r) \/ StartRefresh(r)
        BY <1>6 DEF Send, VerifyConfig, PushRefresh
    <2> QED
        BY <2>1, <2>2, AnswerInv
<1>7. CASE UNCHANGED vars
    <2>1. RequestsOK'
        BY <1>7 DEF vars, Inv, RequestsOK
    <2> QED
        BY <1>7, <2>1, OnlyRequests DEF vars
<1> QED
    BY <1>1, <1>2, <1>3, <1>4, <1>5, <1>6, <1>7, StopInv, RouteInv,
       InternalInv, ListInv, LoadInv, SwapInv, GiveUpInv DEF Next

LEMMA AlwaysInv == Spec => []Inv
    BY InitInv, NextInv, PTL DEF Spec

(* Type correctness of the reverse proxy: every route leads to a host port *)
(* and no configuration that does not parse gets into the table.           *)
THEOREM TypeCorrect == Spec => []TypeOK
<1>1. Inv => TypeOK
    <2> SUFFICES ASSUME Inv PROVE TypeOK
        OBVIOUS
    <2>1. \A c \in running : c.port \in Ports /\ c.loc \subseteq Locations
        BY DEF Inv, RunningOK, ContainerOK
    <2>2. /\ \A e \in Routes(table) :
                e.port \in Ports /\ e.config \in Configs \cup {{}}
          /\ since \subseteq {"containers"} \cup Ports
        BY DEF Inv, ViewOK, RoutesOK, RouteOK
    <2>3. \A map \in {table.path_maps, table.domain_maps} :
             \A k \in DOMAIN map : map[k] \in Routes(table)
        BY DEF Routes
    <2>4. \A r \in Requests :
             /\ req[r].pc \in {"free", "send", "save", "write", "verify", "ps",
                               "load"}
             /\ req[r].query \in Queries \cup {NoQuery}
        BY DEF Inv, RequestsOK, RequestOK
    <2> QED
        BY <2>1, <2>2, <2>3, <2>4 DEF Inv, ConfigsOK, TypeOK
<1> QED
    BY <1>1, AlwaysInv, PTL

(* Until podman starts or stops another container, every container that    *)
(* podman ps listed is where a path with its location leads, and the table *)
(* of every refresh is like that, whatever the refreshes do to each other. *)
THEOREM ContainersAreReachable == Spec => []Reachable
    BY AlwaysInv, InvReachable, PTL

(* Whoever listens at the address that route_request has read from the     *)
(* table, however long ago, is a container that the request asks for,      *)
(* unless podman has handed out that very port since.                      *)
THEOREM RequestsReachTheirContainer == Spec => []SentToOwn
<1>1. Inv => SentToOwn
    BY DEF Inv, RequestsOK, RequestOK, SendOK, SentToOwn
<1> QED
    BY <1>1, AlwaysInv, PTL

(* A request gets to a container only if it is let in by a configuration   *)
(* of its location that was stored at some moment since the podman ps of   *)
(* the refresh that made the table.  Nothing more holds: refreshes overlap *)
(* and the last one to swap need not be the last one to load.              *)
THEOREM OnlyAdmittedAreSent == Spec => []AdmittedByStored
<1>1. Inv => AdmittedByStored
    BY DEF Inv, RequestsOK, RequestOK, SendOK, AdmittedByStored
<1> QED
    BY <1>1, AlwaysInv, PTL

-----------------------------------------------------------------------------

(* Whether the path ends in a slash or not, its last segment is the one    *)
(* that split_path_base_url leaves for the end, or does not count.         *)
LEMMA SegmentsOfFront ==
    ASSUME NEW S, NEW p \in Seq(S), p # <<>>
    PROVE  /\ Segments(p) \in Seq(S)
           /\ Segments(Front(p)) \in Seq(S)
           /\ Last(p) \in S
           /\ Segments(p) = Segments(Front(p)) \o
                  (IF Last(p) = <<>> THEN <<>> ELSE <<Last(p)>>)
<1> DEFINE n == Len(p)
           f == SubSeq(p, 1, n - 1)
           I == {i \in 1..n : p[i] # <<>>}
           J == {i \in 1..(n - 1) : f[i] # <<>>}
<1>1. n \in Nat /\ n >= 1 /\ DOMAIN p = 1..n
    BY EmptySeq, LenProperties
<1>2. /\ f \in Seq(S)
      /\ Len(f) = n - 1
      /\ DOMAIN f = 1..(n - 1)
      /\ \A i \in 1..(n - 1) : f[i] = p[i]
    <2>1. \A i \in 1..(n - 1) : p[i] \in S
        BY <1>1, ElementOfSeq
    <2>2. 1 \in Int /\ n - 1 \in Int
        BY <1>1
    <2> HIDE DEF n
    <2>3. /\ f \in Seq(S)
          /\ Len(f) = IF 1 <= n - 1 THEN (n - 1) - 1 + 1 ELSE 0
          /\ \A i \in 1..((n - 1) - 1 + 1) : f[i] = p[1 + i - 1]
        BY <2>1, <2>2, SubSeqProperties
    <2> HIDE DEF f
    <2>4. Len(f) = n - 1 /\ \A i \in 1..(n - 1) : f[i] = p[i]
        BY <1>1, <2>3
    <2> QED
        BY <2>3, <2>4, LenProperties
<1> HIDE DEF f
<1>3. I \ {n} = J
    <2> HIDE DEF n
    <2>1. ASSUME NEW i \in I \ {n} PROVE i \in J
        <3>1. i \in 1..(n - 1)
            BY <1>1
        <3> QED
            BY <1>2, <3>1
    <2>2. ASSUME NEW i \in J PROVE i \in I \ {n}
        BY <1>1, <1>2
    <2> QED
        BY <2>1, <2>2
<1>4. n \in I <=> Last(p) # <<>>
    BY <1>1 DEF Last
<1>5. Segments(p) = Pick(p, I) /\ Segments(Front(p)) = Pick(f, J)
    BY <1>1, <1>2 DEF Segments, Front, f
<1>6. Pick(p, I) \in Seq(S)
    <2>1. Pick(p, I) \in Seq({p[i] : i \in I})
        BY PickAt
    <2>2. {p[i] : i \in I} \subseteq S
        BY <1>1, ElementOfSeq
    <2> QED
        BY <2>1, <2>2, SeqMonotonic
<1>7. Pick(f, J) \in Seq(S)
    <2>1. J \subseteq 1..Len(f)
        BY <1>2
    <2> HIDE DEF J
    <2>2. Pick(f, J) \in Seq({f[i] : i \in J})
        BY <1>2, <2>1, PickAt
    <2>3. {f[i] : i \in J} \subseteq S
        BY <1>2, <2>1, ElementOfSeq
    <2> QED
        BY <2>2, <2>3, SeqMonotonic
<1>8. Pick(p, I) = Pick(f, I \ {n}) \o
                     (IF n \in I THEN <<p[n]>> ELSE <<>>)
    <2>1. I \in SUBSET (1..Len(p))
        OBVIOUS
    <2> HIDE DEF I
    <2> QED
        BY <1>1, <2>1, PickLast DEF f
<1>9. Last(p) \in S
    BY <1>1, ElementOfSeq DEF Last
<1> HIDE DEF I, J
<1> QED
    BY <1>3, <1>4, <1>5, <1>6, <1>7, <1>8, <1>9 DEF Last

(* The path that a container is sent follows the X-Script-Name.            *)
KeepsPath(dest, path) ==
    LET single == Segments(Front(path)) \o <<Last(path)>>
    IN  dest.script \o dest.path =
          CASE dest.script = <<>>     -> path
            [] dest.script = single   -> single \o << <<>> >>
            [] dest.script \notin {<<>>, single} -> single

LEMMA DestinationKeepsPath ==
    ASSUME NEW t, NEW q \in Queries,
           NEW dest, dest = GetDestination(t, q), dest.kind = "proxied"
    PROVE  KeepsPath(dest, q.path)
<1> DEFINE S == Seq(STRING)
           p == q.path
           s == Segments(p)
           first == Segments(Front(p))
           single == first \o <<Last(p)>>
<1>1. p \in Seq(S) /\ p # <<>>
    BY ProxyAssumption
<1>2. \/ dest.script = <<>> /\ dest.path = p
      \/ /\ Len(s) >= 2
         /\ dest.script = <<s[1], s[2]>>
         /\ dest.path = DestinationPath(p, SubSeq(s, 3, Len(s)))
    BY DestinationPathIs
<1> HIDE DEF S, p
<1>3. CASE dest.script = <<>> /\ dest.path = p
    <2>1. <<>> \o p = p
        BY <1>1, ConcatEmptySeq
    <2> QED
        BY <1>3, <2>1 DEF KeepsPath, p
<1>4. CASE /\ Len(s) >= 2
           /\ dest.script = <<s[1], s[2]>>
           /\ dest.path = DestinationPath(p, SubSeq(s, 3, Len(s)))
    <2> DEFINE rest == SubSeq(s, 3, Len(s))
               slash == IF rest = <<>> \/ Last(p) = <<>>
                        THEN << <<>> >> ELSE <<>>
               last == IF Last(p) = <<>> THEN <<>> ELSE <<Last(p)>>
    <2>1. /\ s \in Seq(S)
          /\ first \in Seq(S)
          /\ Last(p) \in S
          /\ s = first \o last
        BY <1>1, SegmentsOfFront
    <2>0. <<>> \in Seq(S) /\ << <<>> >> \in Seq(S)
        BY DEF S
    <2>2. slash \in Seq(S)
        <3> HIDE DEF rest
        <3> QED
            BY <2>0
    <2>3. dest.path = rest \o slash
        <3>1. rest \o <<>> = rest
            <4>1. Len(s) \in Nat
                BY <2>1, LenProperties
            <4>2. \A i \in 3..Len(s) : s[i] \in S
                BY <2>1, <4>1, ElementOfSeq
            <4> HIDE DEF s
            <4>3. rest \in Seq(S)
                BY <4>1, <4>2, SubSeqProperties
            <4> HIDE DEF rest
            <4> QED
                BY <4>3, ConcatEmptySeq
        <3> QED
            BY <1>4, <3>1 DEF DestinationPath, EndsWithSlash
    <2> HIDE DEF slash, last, s, first
    <2>4. Len(s) \in Nat /\ s[1] \in S /\ s[2] \in S
        BY <1>4, <2>1, ElementOfSeq, LenProperties
    <2>5. rest \in Seq(S)
        <3>1. \A i \in 3..Len(s) : s[i] \in S
            BY <2>1, <2>4, ElementOfSeq
        <3> QED
            BY <2>4, <3>1, SubSeqProperties
    <2>6. <<s[1], s[2]>> \in Seq(S) /\ <<s[1], s[2]>> \o rest = s
        <3> DEFINE a == <<s[1], s[2]>>
                   c == SubSeq(s, 1, 2)
        <3>1. /\ a \in Seq(S)
              /\ Len(a) = 2
              /\ a[1] = s[1]
              /\ a[2] = s[2]
            BY <2>4
        <3>2. \A i \in 1..2 : s[i] \in S
            BY <2>4
        <3>3. /\ c \in Seq(S)
              /\ Len(c) = 2
              /\ c[1] = s[1]
              /\ c[2] = s[2]
            <4>1. \A i \in 1..2 : c[i] = s[1 + i - 1]
                BY <3>2, SubSeqProperties
            <4> QED
                BY <3>2, <4>1, SubSeqProperties
        <3> HIDE DEF a, c
        <3>4. a = c
            <4>1. \A i \in 1..2 : a[i] = c[i]
                BY <3>1, <3>3
            <4> QED
                BY <3>1, <3>3, <4>1, SeqEqual
        <3>5. SubSeq(s, 1, 2) \o SubSeq(s, 3, Len(s)) = SubSeq(s, 1, Len(s))
            <4>1. 1 \in 1..(Len(s) + 1) /\ 2 \in 0..Len(s)
                  /\ Len(s) \in 2..Len(s) /\ 2 + 1 = 3 /\ 1 - 1 = 0
                BY <1>4, <2>4
            <4> QED
                BY <2>1, <4>1, ConcatAdjacentSubSeq
        <3>6. SubSeq(s, 1, Len(s)) = s
            BY <2>1, SubSeqFull
        <3> QED
            BY <3>1, <3>4, <3>5, <3>6 DEF a, c
    <2>7. dest.script \o dest.path = s \o slash
        <3> DEFINE a == <<s[1], s[2]>>
        <3>1. dest.script = a
            BY <1>4 DEF s
        <3>2. a \in Seq(S) /\ a \o rest = s
            BY <2>6
        <3> HIDE DEF a, rest
        <3>3. (a \o rest) \o slash = a \o (rest \o slash)
            <4>1. a \in Seq(S) /\ rest \in Seq(S) /\ slash \in Seq(S)
                BY <2>2, <2>5, <3>2
            <4> QED
                BY <4>1, ConcatAssociative
        <3> QED
            BY <2>3, <3>1, <3>2, <3>3, Zenon
    <2>8. /\ single \in Seq(S)
          /\ Len(single) = Len(first) + 1
          /\ Len(first) \in Nat
        <3>1. /\ <<Last(p)>> \in Seq(S)
              /\ Len(<<Last(p)>>) = 1
              /\ Len(first) \in Nat
            BY <2>1, LenProperties
        <3> DEFINE l == <<Last(p)>>
        <3> HIDE DEF l
        <3>2. l \in Seq(S) /\ Len(l) = 1
            BY <3>1 DEF l
        <3>3. first \o l \in Seq(S) /\ Len(first \o l) = Len(first) + Len(l)
            BY <2>1, <3>2, ConcatProperties
        <3>4. single = first \o l
            BY DEF l
        <3> QED
            BY <3>1, <3>2, <3>3, <3>4
    <2>9. dest.script # <<>> /\ Len(dest.script) = 2
        BY <1>4
    <2>10. CASE Last(p) = <<>>
        <3>1. slash = <<Last(p)>> /\ last = <<>>
            BY <2>10 DEF slash, last
        <3>2. s = first
            BY <2>1, <3>1, ConcatEmptySeq
        <3>3. dest.script \o dest.path = single
            BY <2>7, <3>1, <3>2
        <3>4. dest.script # single
            BY <1>4, <2>8, <2>9, <3>2
        <3> HIDE DEF single
        <3> QED
            BY <2>9, <3>3, <3>4 DEF KeepsPath, first, p, single
    <2>11. CASE Last(p) # <<>>
        <3>1. s = single
            BY <2>1, <2>11 DEF last
        <3>2. CASE rest = <<>>
            <4>1. dest.script = single
                <5>1. <<s[1], s[2]>> \o <<>> = <<s[1], s[2]>>
                    BY <2>6, ConcatEmptySeq
                <5> QED
                    BY <1>4, <2>6, <3>1, <3>2, <5>1
            <4>2. dest.script \o dest.path = single \o << <<>> >>
                BY <2>7, <3>1, <3>2 DEF slash
            <4> HIDE DEF single
            <4> QED
                BY <2>9, <4>1, <4>2 DEF KeepsPath, first, p, single
        <3>3. CASE rest # <<>>
            <4>1. dest.script # single
                <5> SUFFICES ASSUME Len(s) = 2 PROVE rest = <<>>
                    BY <2>9, <3>1, <3>3
                <5> QED
                    BY SubSeqEmpty DEF rest
            <4>2. dest.script \o dest.path = single
                <5>1. slash = <<>>
                    BY <2>11, <3>3 DEF slash
                <5>2. single \o <<>> = single
                    <6> HIDE DEF single
                    <6> QED
                        BY <2>8, ConcatEmptySeq
                <5> QED
                    BY <2>7, <3>1, <5>1, <5>2
            <4> HIDE DEF single
            <4> QED
                BY <2>9, <4>1, <4>2 DEF KeepsPath, first, p, single
        <3> QED
            BY <3>2, <3>3
    <2> QED
        BY <2>10, <2>11
<1> QED
    BY <1>2, <1>3, <1>4

(* A request that starts to be sent has just been routed; otherwise it     *)
(* keeps its destination and its path.                                     *)
KeptOrRouted(r) ==
    \/ /\ req'[r].pc    = req[r].pc
       /\ req'[r].dest  = req[r].dest
       /\ req'[r].query = req[r].query
    \/ KeepsPath(req'[r].dest, req'[r].query.path)

(* A request whose slot is left alone, or given up, or goes on to another  *)
(* step of its own, is not one that starts to be sent.                     *)
LEMMA ChangedSlot ==
    ASSUME Inv, NEW r \in Requests, req'[r].pc = "send",
           NEW s \in Requests, NEW q, req' = [req EXCEPT ![s] = q],
           q.pc # "send"
    PROVE  KeptOrRouted(r)
<1>1. req = [x \in Requests |-> req[x]]
    BY DEF Inv, RequestsOK
<1>2. s # r /\ req'[r] = req[r]
    BY <1>1
<1> QED
    BY <1>2 DEF KeptOrRouted

LEMMA NextKeepsOrRoutes ==
    ASSUME Inv, [Next]_vars, NEW r \in Requests, req'[r].pc = "send"
    PROVE  KeptOrRouted(r)
<1>1. /\ req = [s \in Requests |-> req[s]]
      /\ \A s \in Requests : RequestOK(req[s], running)
    BY DEF Inv, RequestsOK
<1>2. ASSUME NEW p \in Ports, HandOut(p) PROVE KeptOrRouted(r)
    <2>1. req'[r] = req[r] \/ req'[r] = [req[r] EXCEPT !.sure = FALSE]
        BY <1>2 DEF HandOut
    <2>2. LET q == req[r] IN
          q = [pc      |-> q.pc,
               query   |-> q.query,
               payload |-> q.payload,
               dest    |-> q.dest,
               asked   |-> q.asked,
               open    |-> q.open,
               sure    |-> q.sure]
        BY <1>1 DEF RequestOK
    <2> DEFINE q == [req[r] EXCEPT !.sure = FALSE]
    <2>3. /\ q.pc = req[r].pc
          /\ q.dest = req[r].dest
          /\ q.query = req[r].query
        BY <2>2, SureIs
    <2> HIDE DEF q
    <2> QED
        BY <2>1, <2>3 DEF KeptOrRouted, q
<1>3. ASSUME NEW s \in Requests, NEW q \in Queries, NEW header,
             RouteToContainer(s, q, header)
      PROVE  KeptOrRouted(r)
    <2> DEFINE dest == GetDestination(table, q)
               sent == [pc      |-> "send",
                        query   |-> q,
                        payload |-> {},
                        dest    |-> dest,
                        asked   |-> Asked(q),
                        open    |-> WasOpen(dest.to.location, header),
                        sure    |-> dest.to.port \notin since]
    <2>1. dest.kind = "proxied" /\ req' = [req EXCEPT ![s] = sent]
        BY <1>3 DEF RouteToContainer
    <2>2. sent.dest = dest /\ sent.query = q
        OBVIOUS
    <2> HIDE DEF dest, sent
    <2>3. KeepsPath(dest, q.path)
        BY <2>1, DestinationKeepsPath DEF dest
    <2>4. req'[r] = req[r] \/ req'[r] = sent
        BY <1>1, <2>1
    <2> QED
        BY <2>2, <2>3, <2>4 DEF KeptOrRouted
<1>4. ASSUME NEW s \in Requests, NEW q \in Queries, NEW header,
             NEW payload, RouteInternally(s, q, header, payload)
      PROVE  KeptOrRouted(r)
    <2> DEFINE new == [Free EXCEPT !.pc      = "save",
                                   !.query   = q,
                                   !.payload = payload]
    <2>1. req' = [req EXCEPT ![s] = new]
        BY <1>4 DEF RouteInternally
    <2>2. new.pc = "save"
        BY Internally
    <2> HIDE DEF new
    <2> QED
        BY <2>1, <2>2, ChangedSlot
<1>5. ASSUME NEW s \in Requests, Answer(s) \/ StartRefresh(s)
      PROVE  KeptOrRouted(r)
    <2> DEFINE ps == [Free EXCEPT !.pc = "ps"]
    <2>1. Free.pc # "send" /\ ps.pc # "send"
        BY DEF Free
    <2>2. req' = [req EXCEPT ![s] = Free] \/ req' = [req EXCEPT ![s] = ps]
        BY <1>5 DEF Answer, StartRefresh
    <2> HIDE DEF ps
    <2> QED
        BY <2>1, <2>2, ChangedSlot
<1>6. ASSUME NEW s \in Requests, NEW pc \in {"write", "verify", "load"},
             Move(s, pc)
      PROVE  KeptOrRouted(r)
    <2> DEFINE q == [req[s] EXCEPT !.pc = pc]
    <2>1. req' = [req EXCEPT ![s] = q]
        BY <1>1, <1>6 DEF Move
    <2>2. q.pc = pc
        BY <1>1 DEF RequestOK
    <2> HIDE DEF q
    <2> QED
        BY <2>1, <2>2, ChangedSlot
<1>7. CASE UNCHANGED req
    BY <1>7 DEF KeptOrRouted
<1>8. ASSUME NEW s \in Requests,
             \/ Send(s)
             \/ WriteError(s)
             \/ VerifyConfig(s)
             \/ PushRefresh(s)
             \/ RefreshSwap(s)
             \/ GiveUp(s)
      PROVE  Answer(s) \/ StartRefresh(s)
    BY <1>8 DEF Send, WriteError, VerifyConfig, PushRefresh, RefreshSwap,
                GiveUp
<1>9. ASSUME NEW s \in Requests,
             TruncateConfig(s) \/ WriteConfig(s) \/ RefreshList(s)
      PROVE  Move(s, "write") \/ Move(s, "verify") \/ Move(s, "load")
    BY <1>9 DEF TruncateConfig, WriteConfig, RefreshList
<1>10. ASSUME NEW s \in Requests, NEW c, RefreshLoad(s, c)
       PROVE  UNCHANGED req
    BY <1>10 DEF RefreshLoad
<1>11. ASSUME NEW l, NEW p \in Ports,
              RunContainer(l, p) \/ RunForeign(l, p)
       PROVE  HandOut(p)
    BY <1>11 DEF RunContainer, RunForeign
<1>12. ASSUME NEW c, StopContainer(c) PROVE UNCHANGED req
    BY <1>12 DEF StopContainer
<1>13. UNCHANGED vars => UNCHANGED req
    BY DEF vars
<1> QED
    BY <1>2, <1>3, <1>4, <1>5, <1>6, <1>7, <1>8, <1>9, <1>10, <1>11, <1>12,
       <1>13 DEF Next

(* A request keeps its destination until it is sent there.                 *)
LEMMA NextKeepsPath ==
    ASSUME Inv, PathPreserved, [Next]_vars
    PROVE  PathPreserved'
<1>1. PathPreserved <=> \A r \in Requests : req[r].pc = "send" =>
                           KeepsPath(req[r].dest, req[r].query.path)
    BY DEF PathPreserved, KeepsPath
<1>2. PathPreserved' <=> \A r \in Requests : req'[r].pc = "send" =>
                            KeepsPath(req'[r].dest, req'[r].query.path)
    BY DEF PathPreserved, KeepsPath
<1>3. ASSUME NEW r \in Requests, req'[r].pc = "send" PROVE KeptOrRouted(r)
    BY <1>3, NextKeepsOrRoutes
<1> QED
    BY <1>1, <1>2, <1>3 DEF KeptOrRouted

(* Nothing of the path of a request is lost, for any path: X-Script-Name   *)
(* and the path that the container is sent make up the path of the request *)
(* without its doubled slashes, its slash at the end included, and with a  *)
(* slash added where it ends in repository and image.                      *)
THEOREM PathsAreKept == Spec => []PathPreserved
<1>1. Init => PathPreserved
    <2>1. Init => \A r \in Requests : req[r].pc # "send"
        BY DEF Init, Free
    <2> QED
        BY <2>1 DEF PathPreserved
<1> QED
    BY <1>1, AlwaysInv, NextKeepsPath, PTL DEF Spec

=============================================================================
