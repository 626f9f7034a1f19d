------------------------------ MODULE Volumes -------------------------------
(***************************************************************************)
(* The host directories that are bound into containers.  An image names    *)
(* its volumes as paths; a path is its segments and whether it starts with *)
(* a slash.                                                                *)
(***************************************************************************)
EXTENDS Naturals, Sequences, FiniteSetsExt, Subsequences

(* Path::components: repeated slashes and dots do not count, except for a  *)
(* dot at the start of a relative path.                                    *)
Components(path) ==
    LET s     == path.segments
        parts == {i \in DOMAIN s : s[i] # ""}
        names == {i \in parts : s[i] # "."}
        first == {i \in parts : i = Min(parts) /\ ~path.absolute}
    IN  Pick(s, names \cup first)

(* Mutant of FromPath: parent directories are followed.                    *)
FromPathParents(path) ==
    {c \in {Components(path)} : \A i \in DOMAIN c : c[i] # "."}

(* VolumeDesc::from_path: {} for a path with anything but names.           *)
FromPath(path) ==
    {c \in {Components(path)} : \A i \in DOMAIN c : c[i] \notin {".", ".."}}

(* ImageConfigJson::volume_iter.                                           *)
VolumeIter(volumes) == UNION {FromPath(path) : path \in volumes}

(* The directory that the file system finds at a path below volumes/: a    *)
(* name counts unless more parent directories than names follow it, up to  *)
(* some place in the path.                                                 *)
Resolve(path) ==
    LET names(i, j)   == Cardinality({k \in i..j : path[k] # ".."})
        parents(i, j) == Cardinality({k \in i..j : path[k] = ".."})
    IN  Pick(path, {i \in DOMAIN path :
                      /\ path[i] # ".."
                      /\ \A j \in DOMAIN path :
                            parents(i + 1, j) <= names(i + 1, j)})

=============================================================================
