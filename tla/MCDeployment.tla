---------------------------- MODULE MCDeployment ----------------------------
(***************************************************************************)
(* Instances of Deployment for TLC.                                        *)
(***************************************************************************)
EXTENDS Deployment, TLC

CONSTANTS i1, i2, b1, b2

(* The production tag, alone and with another one.                         *)
ProdOnly == {Prod}
MCTags   == {Prod, <<"latest">>}

(* The images share a layer.                                               *)
MCLayersOf == (i1 :> {b1}) @@ (i2 :> {b1, b2})
OneLayer   == (i1 :> {b1})

Abs(segments) == [absolute |-> TRUE, segments |-> segments]
Rel(segments) == [absolute |-> FALSE, segments |-> segments]

(* /data//, ./data, /data, and a path that leaves the directory.            *)
MCVolumesOf ==
    (i1 :> {Abs(<<"data", "", "">>), Rel(<<".", "data">>)})
      @@ (i2 :> {Abs(<<"data">>), Rel(<<"..", "..">>)})
OneVolume == (i1 :> {Abs(<<"data">>)})

File(key, bind) == [master_key |-> key, http_bind |-> bind]

Key   == <<"k", ":", "y">>
Other == <<"o">>

(* A key with a colon in it.                                               *)
OneFile == {File({Key}, {})}

(* The key may change, be locked, and the server listen elsewhere.         *)
SomeFiles == {File({Key}, {}), File({Other}, {"any"}), File({}, {}),
              File({Key}, {"external"})}

(* No header, no credentials, a user without password, and the keys.       *)
MCHeaders == {{}, {[scheme |-> "bearer", data |-> Key]},
              {[scheme |-> "basic", data |-> <<"u">>]},
              BasicHeader(<<"u">>, Key), BasicHeader(<<>>, Other)}

Symmetry == Permutations(Ports) \cup Permutations(Tasks)
              \cup Permutations(Locations)

=============================================================================
