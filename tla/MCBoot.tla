------------------------------- MODULE MCBoot -------------------------------
(* Instances of Boot: layers that offer up to three fields each, in every   *)
(* acceptable and unacceptable type, and manifests of at most two nodes and *)
(* one edge with every defect the validator or the loader knows.            *)
EXTENDS Boot, TLC

Raw(t, v) == [type |-> t, value |-> v]
Switch(b) == Raw("bool", b)
Path(p) == Raw("str", p)
None == [f \in {} |-> 0]

MCTomls ==
    {w @@ s :
        w \in {None} \cup {"replay_window_s" :> r :
                 r \in {Raw("int", 2), Raw("int", 9), Raw("bool", TRUE)}},
        s \in {"manifest_path" :> Path("toml.yaml"),
               "enabled" :> Switch(TRUE) @@ "typo" :> Raw("int", 1),
               "enabled" :> Raw("int", 1) @@ "auto_reconcile" :> Switch(TRUE)}}
MCEnvs ==
    {None, "replay_window_s" :> Raw("int", 8), "replay_window_s" :> Raw("str", "soon"),
     "enabled" :> Raw("int", 1), "enabled" :> Raw("str", "true"),
     "manifest_path" :> Path("env.yaml") @@ "replay_window_s" :> Raw("int", 4)}
MCClis ==
    {None, "manifest_path" :> Path("cli.yaml"),
     "enabled" :> Switch(TRUE) @@ "auto_reconcile" :> Switch(TRUE)}

Surface(n, f) == [name |-> n, file |-> f]
Node(id, ss, r) == [id |-> id, surfaces |-> ss, runner |-> r]
Good == Surface("s", "good")
Lone(id) == Node(id, <<Good>>, "eager")
FirstNodes ==
    {Lone("a"), Lone("core"), Lone("absent"), Node("a", <<Good, Good>>, "none"),
     Node("a", <<Surface("s", "missing")>>, "none"),
     Node("a", <<Surface("absent", "good")>>, "none")}
SecondNodes ==
    {Node("b", <<>>, "bad"), Node("b", <<Surface("t", "good")>>, "eager"),
     Node("b", <<>>, "on_demand"), Node("a", <<>>, "none")}
MCManifests ==
    {[nodes |-> ns, rels |-> es] :
        ns \in {<<x>> : x \in FirstNodes}
               \cup {<<x, y>> : x \in FirstNodes, y \in SecondNodes},
        es \in {{}, {[from |-> "absent", to |-> <<"a", "s">>]}}
               \cup {{[from |-> x, to |-> t]} : x \in {"a", "core"},
                     t \in {<<"a", "s">>, <<"b", "t">>, <<"a">>,
                            <<"core", "s">>, <<"core", "state">>}}}
=============================================================================
