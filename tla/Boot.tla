-------------------------------- MODULE Boot --------------------------------
(***************************************************************************)
(* How Core comes up and goes down: config.load_config lays TOML, the       *)
(* environment and the command line over the defaults, make_app checks the  *)
(* admin token and loads the manifest the validator has only commented on,  *)
(* amain listens, reconciles and then waits for a signal.                   *)
(*                                                                         *)
(* Four of the eleven fields stand for all: an int that is clamped, a path  *)
(* and two switches.  A raw value is [type, value]; a text of the           *)
(* environment that is a numeral has type "int".  Anything read from        *)
(* outside - a layer, the manifest, the token - is picked when it is read.  *)
(***************************************************************************)
EXTENDS Integers, Sequences, FiniteSetsExt, Functions

CONSTANTS
    WindowMin, WindowMax, WindowDefault,
    LegacyToken,    \* LEGACY_ADMIN_TOKEN
    CoreSurfaces,   \* CORE_SURFACE_NAMES, of which the validator has a copy
    Tomls, Envs, Clis, Tokens, Manifests   \* what may be found outside

ASSUME BootAssumption ==
    /\ WindowMin \in Int /\ WindowMax \in Int /\ WindowDefault \in Int
    /\ WindowMin <= WindowDefault /\ WindowDefault <= WindowMax

\* What is found outside is what the parsers can hand over: a replay window of
\* type int is an integer, the command line has no flag for one
\* (_CLI_MAPPINGS), and a manifest's nodes come as a list.
ASSUME OutsideAssumption ==
    /\ \A given \in Tomls \cup Envs :
          "replay_window_s" \in DOMAIN given
              => LET raw == given["replay_window_s"]
                 IN  raw.type = "int" => raw.value \in Int
    /\ \A given \in Clis : "replay_window_s" \notin DOMAIN given
    /\ \A m \in Manifests : m.nodes \in Seq(Range(m.nodes))

VARIABLES
    phase,          \* the next step of load_config, main, make_app or amain
    outcome,        \* why Core ended, if it has
    layers,         \* load_config's layers, by name, until it returns
    value,          \* the Config
    source,         \* Config.sources
    verdict,        \* history: the validator's findings at startup
    manifest,       \* history: the parsed manifest
    decl,           \* nodes_decl: the surfaces of each node
    edges,          \* CoreState.edges
    todo            \* nodes auto-reconcile has still to look at
config == <<layers, value, source>>
registry == <<verdict, manifest, decl, edges>>
vars == <<phase, outcome, config, registry, todo>>

-----------------------------------------------------------------------------
(* config.py *)

Schema == [replay_window_s |-> {"int"}, manifest_path |-> {"str"},
           enabled |-> {"bool"}, auto_reconcile |-> {"bool"}]
Fields == DOMAIN Schema
Defaults == [replay_window_s |-> WindowDefault, manifest_path |-> "",
             enabled |-> FALSE, auto_reconcile |-> FALSE]

\* What each layer makes of a raw value: whether it takes it, and as what.
\* _env_bool takes any text, and only "1" is true.
Takes(layer, f, raw) ==
    CASE layer = "toml" -> raw.type \in Schema[f]
      [] layer = "env" -> Schema[f] = {"int"} => raw.type = "int"
      [] OTHER -> TRUE
Reads(layer, f, raw) ==
    IF layer = "env" /\ Schema[f] = {"bool"}
    THEN raw = [type |-> "int", value |-> 1]
    ELSE raw.value

Offers(layer, given, f) ==
    f \in DOMAIN given /\ Takes(layer, f, given[f])

\* Mutant: setdefault instead of a store, so that the weakest layer wins.
ApplyIfUnset(layer, given) ==
    LET new == {f \in Fields : Offers(layer, given, f) /\ source[f] = "defaults"}
    IN  /\ layers' = [layers EXCEPT ![layer] = given]
        /\ value' = [f \in Fields |-> IF f \in new THEN Reads(layer, f, given[f])
                                      ELSE value[f]]
        /\ source' = [f \in Fields |-> IF f \in new THEN layer ELSE source[f]]

\* _set_field for every field the layer has an acceptable value for; unknown
\* keys are passed over.  A missing or unreadable TOML file is <<>>.
Apply(layer, given) ==
    /\ layers' = [layers EXCEPT ![layer] = given]
    /\ value' = [f \in Fields |-> IF Offers(layer, given, f)
                                  THEN Reads(layer, f, given[f]) ELSE value[f]]
    /\ source' = [f \in Fields |-> IF Offers(layer, given, f)
                                   THEN layer ELSE source[f]]

Nothing == [f \in {} |-> <<>>]
Init ==
    /\ phase = "toml" /\ outcome = "up"
    /\ layers = [l \in {"toml", "env", "cli"} |-> Nothing]
    /\ value = Defaults /\ source = [f \in Fields |-> "defaults"]
    /\ verdict = "none" /\ manifest = [nodes |-> <<>>, rels |-> {}]
    /\ decl = [n \in {} |-> {}] /\ edges = {}
    /\ todo = {}

Step(from, to) == phase = from /\ phase' = to /\ UNCHANGED outcome
End(from, why) == phase = from /\ phase' = "ended" /\ outcome' = why

ApplyToml ==
    /\ Step("toml", "env")
    /\ \E given \in Tomls : Apply("toml", given)
    /\ UNCHANGED <<registry, todo>>
ApplyEnv ==
    /\ Step("env", "cli")
    /\ \E given \in Envs : Apply("env", given)
    /\ UNCHANGED <<registry, todo>>
ApplyCli ==
    /\ Step("cli", "clamp")
    /\ \E given \in Clis : Apply("cli", given)
    /\ UNCHANGED <<registry, todo>>

Clamped(w) == IF w < WindowMin THEN WindowMin
              ELSE IF w > WindowMax THEN WindowMax ELSE w
Clamp ==
    /\ Step("clamp", "resolved")
    /\ value' = [value EXCEPT !.replay_window_s = Clamped(@)]
    /\ UNCHANGED <<layers, source, registry, todo>>

-----------------------------------------------------------------------------
(* manifest_validator.py and load_manifest.  A node is [id, surfaces,       *)
(* runner], a surface [name, file], an edge [from, to] with `to` split at   *)
(* its dots; "absent" stands for a key that is not there.                   *)

Ids(m) == {m.nodes[i].id : i \in DOMAIN m.nodes}
Names(node) == {s.name : s \in Range(node.surfaces)}
Surfaces(m) == UNION {Range(m.nodes[i].surfaces) : i \in DOMAIN m.nodes}
LastOf(m, id) == Max({i \in DOMAIN m.nodes : m.nodes[i].id = id})

\* validate_manifest, which takes a node's surfaces from its last entry.
SchemaErrors(m) ==
    \/ "absent" \in Ids(m) \cup {s.name : s \in Surfaces(m)}
    \/ \E e \in m.rels : e.from = "absent" \/ Len(e.to) # 2
\* Mutant: schema files are not opened.
NodeErrorsUnopened(m) ==
    \/ "core" \in Ids(m)
    \/ Cardinality(Ids(m)) # Len(m.nodes)
    \/ \E i \in DOMAIN m.nodes :
          Cardinality(Names(m.nodes[i])) # Len(m.nodes[i].surfaces)
NodeErrors(m) ==
    \/ "core" \in Ids(m)
    \/ Cardinality(Ids(m)) # Len(m.nodes)
    \/ \E i \in DOMAIN m.nodes :
          Cardinality(Names(m.nodes[i])) # Len(m.nodes[i].surfaces)
    \/ \E s \in Surfaces(m) : s.file # "good"
EdgeErrors(m) ==
    \E e \in m.rels :
        \/ e.from \notin Ids(m)
        \/ /\ Len(e.to) = 2
           /\ IF e.to[1] = "core" THEN e.to[2] \notin CoreSurfaces
              ELSE \/ e.to[1] \notin Ids(m)
                   \/ e.to[2] \notin Names(m.nodes[LastOf(m, e.to[1])])
Errors(m) == SchemaErrors(m) \/ NodeErrors(m) \/ EdgeErrors(m)

\* load_manifest raises on what it subscripts or opens; otherwise the last
\* entry of a node counts, and the built-in core replaces one of that name.
Raises(m) ==
    \/ "absent" \in Ids(m) \cup {s.name : s \in Surfaces(m)}
    \/ \E e \in m.rels : e.from = "absent"
    \/ \E s \in Surfaces(m) : s.file # "good"
Declared(m) ==
    [id \in Ids(m) \cup {"core"} |->
        IF id = "core" THEN CoreSurfaces ELSE Names(m.nodes[LastOf(m, id)])]

-----------------------------------------------------------------------------
(* core.py: main, make_app and amain *)

\* main: --dump-config prints and ends; without a manifest there is no Core.
Dump ==
    /\ End("resolved", "dumped")
    /\ UNCHANGED <<config, registry, todo>>
NoManifest ==
    /\ value.manifest_path = "" /\ End("resolved", "exit 2")
    /\ UNCHANGED <<config, registry, todo>>
Main ==
    /\ value.manifest_path # "" /\ Step("resolved", "app")
    /\ layers' = [l \in DOMAIN layers |-> Nothing]
    /\ UNCHANGED <<value, source, registry, todo>>

\* make_app: admin_token() raises, or the manifest is read, validated (for
\* the record only) and loaded.  A file that cannot be read raises as well.
BadToken ==
    /\ \E t \in Tokens : t \in {"", LegacyToken}
    /\ End("app", "bad token")
    /\ UNCHANGED <<config, registry, todo>>
Unreadable ==
    /\ \E t \in Tokens : t \notin {"", LegacyToken}
    /\ End("app", "unreadable")
    /\ UNCHANGED <<config, registry, todo>>
Validated(m) ==
    /\ \E t \in Tokens : t \notin {"", LegacyToken}
    /\ manifest' = m
    /\ verdict' = IF Errors(m) THEN "errors" ELSE "clean"
    /\ UNCHANGED <<config, todo>>
LoadRaises ==
    \E m \in Manifests :
        /\ Raises(m) /\ End("app", "load raised")
        /\ Validated(m) /\ UNCHANGED <<decl, edges>>
Load ==
    \E m \in Manifests :
        /\ ~Raises(m) /\ Step("app", "loaded")
        /\ Validated(m) /\ decl' = Declared(m) /\ edges' = m.rels

\* amain: bind, then reconcile if both switches are on.
CannotBind ==
    /\ End("loaded", "cannot bind")
    /\ UNCHANGED <<config, registry, todo>>
Reconciles == value.enabled /\ value.auto_reconcile
Listen ==
    /\ Step("loaded", "listening")
    /\ todo' = IF Reconciles THEN Ids(manifest) ELSE {}
    /\ UNCHANGED <<config, registry>>

\* The runner of a node: "bad" makes the resolver raise, which nothing
\* catches; with any other, reconcile goes on, also when the exec fails.
\* What becomes of the children is the business of Supervisor.
Runner(n) == manifest.nodes[LastOf(manifest, n)].runner
Reconcile ==
    \E n \in todo :
        /\ Step("listening", "listening") /\ Runner(n) # "bad"
        /\ todo' = todo \ {n}
        /\ UNCHANGED <<config, registry>>
ResolverRaises ==
    /\ \E n \in todo : Runner(n) = "bad"
    /\ End("listening", "resolver raised")
    /\ UNCHANGED <<config, registry, todo>>

\* Only now SIGTERM has a handler; before, it ends the process where it is.
Serve ==
    /\ todo = {} /\ Step("listening", "serving")
    /\ UNCHANGED <<config, registry, todo>>
Terminated ==
    /\ End("listening", "terminated")
    /\ UNCHANGED <<config, registry, todo>>
\* The signal handler sets the event; on_shutdown swallows what shutdown_all
\* may raise, so the cleanup ends the process either way.
Shutdown ==
    /\ End("serving", "stopped")
    /\ UNCHANGED <<config, registry, todo>>

Next ==
    \/ ApplyToml \/ ApplyEnv \/ ApplyCli \/ Clamp
    \/ Dump \/ NoManifest \/ Main
    \/ BadToken \/ Unreadable \/ LoadRaises \/ Load
    \/ CannotBind \/ Listen \/ Reconcile \/ ResolverRaises
    \/ Serve \/ Terminated \/ Shutdown
Spec == Init /\ [][Next]_vars

-----------------------------------------------------------------------------
(* Properties *)

\* The layers that offer a field an acceptable value, the strongest of them,
\* and what that one wants the field to be.
Offering(f) == {l \in DOMAIN layers : Offers(l, layers[l], f)}
Strongest(f) == IF "cli" \in Offering(f) THEN "cli"
                ELSE IF "env" \in Offering(f) THEN "env" ELSE "toml"
Wanted(f) == Reads(Strongest(f), f, layers[Strongest(f)][f])

\* Precedence, stated without replaying the layers: the value of a field is
\* the one of the strongest layer whose value is acceptable, `sources` names
\* that layer, and only the replay window may differ, by being moved to the
\* nearer bound, between which it then is (config.py:3-7, README.md:63).
Moved(f) ==
    /\ f = "replay_window_s"
    /\ \/ Wanted(f) < value[f] /\ value[f] = WindowMin
       \/ Wanted(f) > value[f] /\ value[f] = WindowMax
Explained ==
    phase = "resolved" =>
        /\ value["replay_window_s"] \in WindowMin .. WindowMax
        /\ \A f \in Fields :
               IF Offering(f) = {}
               THEN source[f] = "defaults" /\ value[f] = Defaults[f]
               ELSE /\ source[f] = Strongest(f)
                    /\ value[f] = Wanted(f) \/ Moved(f)

\* The validator is only a commentator, so what it says must be worth
\* something: a manifest it has no error for loads, every node of it is
\* declared with all its surfaces, and every edge leads from a declared node
\* to a surface that exists (manifest_validator.py:10-27, core.py:274-305).
CleanManifestServes ==
    verdict = "clean" =>
        /\ outcome # "load raised"
        /\ \A i \in DOMAIN manifest.nodes :
              Names(manifest.nodes[i]) = decl[manifest.nodes[i].id]
        /\ \A e \in edges :
              /\ e.from \in DOMAIN decl /\ e.to[1] \in DOMAIN decl
              /\ e.to[2] \in decl[e.to[1]]
=============================================================================
