------------------------------- MODULE Names --------------------------------
(***************************************************************************)
(* How rockslide names things for podman and in its directories, and how   *)
(* it reads the names back.  A name is a sequence of tokens; a token is a  *)
(* word or one of the characters that the code looks for.                  *)
(***************************************************************************)
EXTENDS Naturals, Sequences, SequencesExt

Prod == <<"prod">>

(* Mutant of ImageTag: image[idx + 1..].                                   *)
ImageTagStripped == Prod

(* image_tag returns image[idx..] of a container of a :prod image, which   *)
(* starts with the colon.                                                  *)
ImageTag == <<":">> \o Prod

(* Mutant of NamespacedDir: the colon is kept.                             *)
NamespacedDirRaw(ref) == ref

(* The last component of namespaced_dir: trim_start_matches(':').          *)
NamespacedDir(ref) == IF Head(ref) = ":" THEN Tail(ref) ELSE ref

(* Mutant of Separator: the one of version 0.1.0.                          *)
SeparatorDash == <<"-">>

Separator == <<"-", "-", "-">>

Prefix == <<"rockslide">> \o Separator

(* The name under which synchronize_container_state runs a location.       *)
ContainerName(l) == Prefix \o l.repository \o Separator \o l.image

(* str::split_once(Separator): {} or the set of the one split at the first *)
(* occurrence.                                                             *)
SplitOnce(s) ==
    LET at == {i \in 1..(Len(s) + 1 - Len(Separator)) :
                  SubSeq(s, i, i + Len(Separator) - 1) = Separator}
    IN  {[left  |-> SubSeq(s, 1, i - 1),
          right |-> SubSeq(s, i + Len(Separator), Len(s))] :
            i \in {j \in at : \A k \in at : j <= k}}

(* ContainerJson::image_location: {} for a container that is not managed.  *)
ImageLocation(name) ==
    IF IsPrefix(Prefix, name)
    THEN {[repository |-> p.left, image |-> p.right] :
            p \in SplitOnce(SubSeq(name, Len(Prefix) + 1, Len(name)))}
    ELSE {}

=============================================================================
