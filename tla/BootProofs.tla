----------------------------- MODULE BootProofs -----------------------------
(* What is proved of Boot for every choice of what may be found outside:    *)
(* where the resolved configuration comes from, and what a manifest without *)
(* findings is good for.                                                    *)
EXTENDS Boot, FiniteSetTheorems, FunctionTheorems, SequenceTheorems, TLAPS

-----------------------------------------------------------------------------
(* The layers of the configuration                                          *)

Layers == {"toml", "env", "cli"}
\* What the layers read so far make of a field, before the window is clamped.
Traced(f) ==
    IF Offering(f) = {}
    THEN source[f] = "defaults" /\ value[f] = Defaults[f]
    ELSE /\ source[f] = Strongest(f)
         /\ value[f] = Wanted(f)

\* The inductive invariant of load_config: a layer is empty until its turn,
\* and until the clamp every field is traced to the layers read so far.
LayersInv ==
    /\ layers = [l \in Layers |-> layers[l]]
    /\ value = [f \in Fields |-> value[f]]
    /\ source = [f \in Fields |-> source[f]]
    /\ value["replay_window_s"] \in Int
    /\ phase = "toml" => layers["toml"] = Nothing
    /\ phase \in {"toml", "env"} => layers["env"] = Nothing
    /\ phase \in {"toml", "env", "cli"} => layers["cli"] = Nothing
    /\ phase \in {"toml", "env", "cli", "clamp"} => \A f \in Fields : Traced(f)

\* Startup by phases: nothing is validated before the manifest is loaded,
\* and only load_manifest's raise is recorded as such.
StartInv ==
    /\ phase \in {"toml", "env", "cli", "clamp", "resolved", "app"}
          => verdict = "none" /\ edges = {}
    /\ phase # "ended" => outcome = "up"
    /\ verdict = "clean" => manifest \in Manifests /\ ~Errors(manifest)
    /\ verdict = "clean" => outcome # "load raised"
    /\ verdict = "clean" => decl = Declared(manifest) /\ edges = manifest.rels

\* An empty layer offers nothing.
LEMMA NothingOffers == ASSUME NEW l, NEW f PROVE ~Offers(l, Nothing, f)
  BY DEF Offers, Nothing

\* A replay window that a layer offers is an integer.
LEMMA WindowIsInt ==
  ASSUME NEW l \in Layers, NEW given,
         l = "toml" => given \in Tomls, l = "env" => given \in Envs,
         l = "cli" => given \in Clis,
         Offers(l, given, "replay_window_s")
  PROVE  Reads(l, "replay_window_s", given["replay_window_s"]) \in Int
  <1>1. "replay_window_s" \in Fields /\ Schema["replay_window_s"] = {"int"}
    BY DEF Fields, Schema
  <1>2. Schema["replay_window_s"] # {"bool"}
    BY <1>1
  <1>3. l # "cli" /\ given \in Tomls \cup Envs
    BY OutsideAssumption DEF Offers, Layers
  <1>4. given["replay_window_s"].type = "int"
    BY <1>1, <1>3 DEF Offers, Takes, Layers
  <1>5. given["replay_window_s"].value \in Int
    BY <1>3, <1>4, OutsideAssumption DEF Offers
  <1> QED BY <1>2, <1>5 DEF Reads

\* Laying the next layer over the others keeps every field traced.
LEMMA LayerApplied ==
  ASSUME LayersInv, NEW l \in Layers, NEW given, Apply(l, given),
         \A f \in Fields : Traced(f),
         layers["cli"] = Nothing,
         l # "cli" => layers["env"] = Nothing,
         l = "toml" => layers["toml"] = Nothing
  PROVE  \A f \in Fields : Traced(f)'
  <1> SUFFICES ASSUME NEW f \in Fields PROVE Traced(f)'
    OBVIOUS
  <1>1. /\ layers' = [layers EXCEPT ![l] = given]
        /\ value'[f] = IF Offers(l, given, f) THEN Reads(l, f, given[f]) ELSE value[f]
        /\ source'[f] = IF Offers(l, given, f) THEN l ELSE source[f]
    BY DEF Apply
  <1>2. DOMAIN layers = Layers /\ DOMAIN layers' = Layers
    BY <1>1 DEF LayersInv
  <1>3. \A k \in Layers : layers'[k] = IF k = l THEN given ELSE layers[k]
    BY <1>1, <1>2
  <1>4. \A k \in Layers : k \in Offering(f) <=> Offers(k, layers[k], f)
    BY <1>2 DEF Offering
  <1>5. \A k \in Layers : k \in Offering(f)' <=> Offers(k, layers'[k], f)
    BY <1>2 DEF Offering
  <1>6. Offering(f) \subseteq Layers /\ Offering(f)' \subseteq Layers
    BY <1>2 DEF Offering
  <1>7. ~Offers(l, layers[l], f)
    BY NothingOffers DEF Layers
  <1>8. l \notin Offering(f)
    BY <1>4, <1>7
  <1>9. CASE Offers(l, given, f)
    <2>1. l \in Offering(f)'
      BY <1>3, <1>5, <1>9
    <2>2. Strongest(f)' = l
      <3>1. l = "cli" => Strongest(f)' = "cli"
        BY <2>1 DEF Strongest
      <3>2. l # "cli" => "cli" \notin Offering(f)'
        BY <1>3, <1>5, NothingOffers DEF Layers
      <3>3. l = "toml" => "env" \notin Offering(f)'
        BY <1>3, <1>5, NothingOffers DEF Layers
      <3> QED BY <2>1, <3>1, <3>2, <3>3 DEF Strongest, Layers
    <2>3. layers'[Strongest(f)'] = given
      BY <1>3, <2>2
    <2> QED BY <1>1, <1>9, <2>1, <2>2, <2>3 DEF Traced, Wanted
  <1>10. CASE ~Offers(l, given, f)
    <2>1. Offering(f)' = Offering(f)
      BY <1>3, <1>4, <1>5, <1>6, <1>8, <1>10
    <2>2. Strongest(f)' = Strongest(f)
      BY <2>1 DEF Strongest
    <2>3. Offering(f) # {} => Strongest(f) \in Offering(f)
      BY <1>6 DEF Strongest, Layers
    <2>4. Offering(f) # {} => layers'[Strongest(f)] = layers[Strongest(f)]
      BY <1>3, <1>6, <1>8, <2>3
    <2>5. Traced(f)
      OBVIOUS
    <2> QED BY <1>1, <1>10, <2>1, <2>2, <2>4, <2>5 DEF Traced, Wanted
  <1> QED BY <1>9, <1>10

-----------------------------------------------------------------------------
(* The configuration is explained                                           *)

\* Applying a layer keeps load_config's invariant.
LEMMA ApplyKeepsLayers ==
  ASSUME LayersInv, NEW l \in Layers, NEW given, Apply(l, given),
         phase = l, phase' = IF l = "toml" THEN "env"
                             ELSE IF l = "env" THEN "cli" ELSE "clamp",
         l = "toml" => given \in Tomls, l = "env" => given \in Envs,
         l = "cli" => given \in Clis
  PROVE  LayersInv'
  <1>1. DOMAIN layers = Layers
    BY DEF LayersInv
  <1>2. layers' = [k \in Layers |-> IF k = l THEN given ELSE layers[k]]
    BY <1>1 DEF Apply
  <1>3. layers' = [k \in Layers |-> layers'[k]]
    BY <1>2
  <1>4. value' = [f \in Fields |-> value'[f]] /\ source' = [f \in Fields |-> source'[f]]
    BY DEF Apply
  <1>5. value'["replay_window_s"] \in Int
    <2>1. "replay_window_s" \in Fields
      BY DEF Fields, Schema
    <2> QED BY <2>1, WindowIsInt DEF LayersInv, Apply
  <1>6. \A f \in Fields : Traced(f)'
    BY LayerApplied DEF LayersInv, Layers
  <1>7. /\ phase' = "toml" => layers'["toml"] = Nothing
        /\ phase' \in {"toml", "env"} => layers'["env"] = Nothing
        /\ phase' \in {"toml", "env", "cli"} => layers'["cli"] = Nothing
    BY <1>2 DEF LayersInv, Layers
  <1> QED BY <1>3, <1>4, <1>5, <1>6, <1>7 DEF LayersInv

\* load_config's invariant and, once it has returned, what it amounts to.
LEMMA LayersInit == Init => LayersInv /\ Explained
  <1> SUFFICES ASSUME Init PROVE LayersInv /\ Explained
    OBVIOUS
  <1>1. \A l \in Layers : layers[l] = Nothing
    BY DEF Init, Layers
  <1>2. layers = [l \in Layers |-> layers[l]] /\ DOMAIN layers = Layers
    BY DEF Init, Layers
  <1>3. DOMAIN Defaults = Fields /\ Defaults["replay_window_s"] = WindowDefault
    BY DEF Defaults, Fields, Schema
  <1>4. value = [f \in Fields |-> value[f]]
    BY <1>3 DEF Init, Defaults, Fields, Schema
  <1>5. source = [f \in Fields |-> source[f]]
    BY DEF Init
  <1>6. \A f \in Fields : Offering(f) = {}
    BY <1>1, <1>2, NothingOffers DEF Offering
  <1>7. \A f \in Fields : Traced(f)
    BY <1>6 DEF Traced, Init
  <1>8. value["replay_window_s"] \in Int
    BY <1>3, BootAssumption DEF Init
  <1>9. phase = "toml"
    BY DEF Init
  <1> QED BY <1>1, <1>2, <1>4, <1>5, <1>7, <1>8, <1>9 DEF LayersInv, Explained, Layers

\* The clamp moves the replay window, and nothing else, to the nearer bound.
LEMMA ClampExplains == ASSUME LayersInv, Clamp PROVE LayersInv' /\ Explained'
  <1> DEFINE w == "replay_window_s"
  <1>1. w \in Fields /\ Defaults[w] = WindowDefault
    BY DEF Fields, Schema, Defaults
  <1>2. value[w] \in Int /\ DOMAIN value = Fields
    BY DEF LayersInv
  <1>3. value' = [value EXCEPT ![w] = Clamped(value[w])]
    BY <1>2 DEF Clamp
  <1>4. layers' = layers /\ source' = source /\ phase = "clamp" /\ phase' = "resolved"
    BY DEF Clamp, Step
  <1>5. value'[w] = Clamped(value[w])
    BY <1>1, <1>2, <1>3
  <1>6. Clamped(value[w]) \in WindowMin .. WindowMax
    BY <1>2, BootAssumption DEF Clamped
  <1>7. value' = [f \in Fields |-> value'[f]]
    BY <1>2, <1>3
  <1>8. LayersInv'
    BY <1>4, <1>5, <1>6, <1>7, BootAssumption DEF LayersInv
  <1>9. ASSUME NEW f \in Fields
        PROVE  /\ Offering(f)' = Offering(f) /\ Strongest(f)' = Strongest(f)
               /\ Wanted(f)' = Wanted(f)
    BY <1>4 DEF Offering, Strongest, Wanted
  <1>10. ASSUME NEW f \in Fields
         PROVE  IF Offering(f)' = {}
                THEN source'[f] = "defaults" /\ value'[f] = Defaults[f]
                ELSE /\ source'[f] = Strongest(f)'
                     /\ value'[f] = Wanted(f)' \/ Moved(f)'
    <2>1. Traced(f)
      BY <1>4 DEF LayersInv
    <2>2. Offering(f)' = Offering(f) /\ Strongest(f)' = Strongest(f) /\ Wanted(f)' = Wanted(f)
      BY <1>9
    <2>3. CASE f # w
      <3>1. value'[f] = value[f]
        BY <1>2, <1>3, <2>3
      <3> QED BY <1>4, <2>1, <2>2, <3>1 DEF Traced
    <2>4. CASE f = w
      <3>1. CASE Offering(f) = {}
        <4>1. value[f] = WindowDefault /\ source[f] = "defaults"
          BY <1>1, <2>1, <2>4, <3>1 DEF Traced
        <4>2. Clamped(WindowDefault) = WindowDefault
          BY BootAssumption DEF Clamped
        <4> QED BY <1>1, <1>4, <1>5, <2>2, <2>4, <3>1, <4>1, <4>2
      <3>2. CASE Offering(f) # {}
        <4>1. source[f] = Strongest(f) /\ value[f] = Wanted(f)
          BY <2>1, <3>2 DEF Traced
        <4>2. \/ value'[f] = value[f]
              \/ value[f] < value'[f] /\ value'[f] = WindowMin
              \/ value[f] > value'[f] /\ value'[f] = WindowMax
          BY <1>2, <1>5, <2>4, BootAssumption DEF Clamped
        <4>3. value'[f] = Wanted(f)' \/ Moved(f)'
          BY <2>2, <2>4, <4>1, <4>2 DEF Moved
        <4> QED BY <1>4, <2>2, <3>2, <4>1, <4>3
      <3> QED BY <3>1, <3>2
    <2> QED BY <2>3, <2>4
  <1>11. Explained'
    BY <1>5, <1>6, <1>10 DEF Explained
  <1> QED BY <1>8, <1>11

\* A step beside load_config leaves what the configuration is traced to, or
\* is past the phases in which that matters.
LEMMA ElsewhereKept ==
  ASSUME LayersInv, Explained, UNCHANGED <<value, source>>,
         \/ UNCHANGED <<layers, phase>>
         \/ /\ phase' \notin {"toml", "env", "cli", "clamp", "resolved"}
            /\ layers' = [l \in DOMAIN layers |-> layers'[l]]
  PROVE  LayersInv' /\ Explained'
  <1>1. CASE UNCHANGED <<layers, phase>>
    <2>1. ASSUME NEW f \in Fields
          PROVE  /\ Offering(f)' = Offering(f) /\ Strongest(f)' = Strongest(f)
                 /\ Wanted(f)' = Wanted(f)
      BY <1>1 DEF Offering, Strongest, Wanted
    <2>2. ASSUME NEW f \in Fields
          PROVE  (Traced(f) => Traced(f)') /\ (Moved(f) => Moved(f)')
      BY <1>1, <2>1 DEF Traced, Moved
    <2>3. LayersInv'
      BY <1>1, <2>2 DEF LayersInv
    <2>4. Explained'
      BY <1>1, <2>1, <2>2 DEF Explained
    <2> QED BY <2>3, <2>4
  <1>2. CASE /\ phase' \notin {"toml", "env", "cli", "clamp", "resolved"}
             /\ layers' = [l \in DOMAIN layers |-> layers'[l]]
    <2>1. DOMAIN layers = Layers
      BY DEF LayersInv
    <2> QED BY <1>2, <2>1 DEF LayersInv, Explained
  <1> QED BY <1>1, <1>2

\* Every step of Core keeps what LayersInit establishes.
LEMMA LayersStep ==
  ASSUME LayersInv, Explained, [Next]_vars
  PROVE  LayersInv' /\ Explained'
  <1>1. CASE ApplyToml
    <2>1. PICK given \in Tomls : Apply("toml", given)
      BY <1>1 DEF ApplyToml
    <2>2. phase = "toml" /\ phase' = "env"
      BY <1>1 DEF ApplyToml, Step
    <2> QED BY <2>1, <2>2, ApplyKeepsLayers DEF Layers, Explained
  <1>2. CASE ApplyEnv
    <2>1. PICK given \in Envs : Apply("env", given)
      BY <1>2 DEF ApplyEnv
    <2>2. phase = "env" /\ phase' = "cli"
      BY <1>2 DEF ApplyEnv, Step
    <2> QED BY <2>1, <2>2, ApplyKeepsLayers DEF Layers, Explained
  <1>3. CASE ApplyCli
    <2>1. PICK given \in Clis : Apply("cli", given)
      BY <1>3 DEF ApplyCli
    <2>2. phase = "cli" /\ phase' = "clamp"
      BY <1>3 DEF ApplyCli, Step
    <2> QED BY <2>1, <2>2, ApplyKeepsLayers DEF Layers, Explained
  <1>4. CASE Clamp
    BY <1>4, ClampExplains
  <1>5. ASSUME UNCHANGED config,
               phase' \notin {"toml", "env", "cli", "clamp", "resolved"}
        PROVE  LayersInv' /\ Explained'
    BY <1>5, ElsewhereKept DEF config, LayersInv
  <1>6. CASE Main
    BY <1>6, ElsewhereKept DEF Main, Step
  <1>7. CASE Dump \/ NoManifest \/ BadToken \/ Unreadable \/ CannotBind \/ Terminated
    BY <1>5, <1>7 DEF Dump, NoManifest, BadToken, Unreadable, CannotBind, Terminated, End
  <1>8. CASE LoadRaises \/ Load
    BY <1>5, <1>8 DEF LoadRaises, Load, Validated, Step, End
  <1>9. CASE Listen \/ Serve
    BY <1>5, <1>9 DEF Listen, Serve, Step
  <1>10. CASE Reconcile \/ ResolverRaises \/ Shutdown
    BY <1>5, <1>10 DEF Reconcile, ResolverRaises, Shutdown, Step, End
  <1>11. CASE UNCHANGED vars
    BY <1>11, ElsewhereKept DEF vars, config
  <1> QED BY <1>1, <1>2, <1>3, <1>4, <1>6, <1>7, <1>8, <1>9, <1>10, <1>11 DEF Next

\* Whatever the TOML file, the environment and the command line hold, the
\* resolved configuration is what the strongest acceptable layer says, its
\* sources say so, and its replay window is within bounds (config.py).
THEOREM ConfigIsExplained == Spec => []Explained
  <1>1. Init => LayersInv /\ Explained
    BY LayersInit
  <1>2. LayersInv /\ Explained /\ [Next]_vars => LayersInv' /\ Explained'
    BY LayersStep
  <1> QED BY <1>1, <1>2, PTL DEF Spec

-----------------------------------------------------------------------------
(* The manifest                                                             *)

\* A node list with as many names as entries names each of them once, so
\* that the last entry of a name is its only one.
LEMMA NamesAreUnique ==
  ASSUME NEW m \in Manifests, Cardinality(Ids(m)) = Len(m.nodes),
         NEW i \in DOMAIN m.nodes
  PROVE  LastOf(m, m.nodes[i].id) = i
  <1>1. m.nodes \in Seq(Range(m.nodes))
    BY OutsideAssumption
  <1>2. Len(m.nodes) \in Nat /\ DOMAIN m.nodes = 1 .. Len(m.nodes)
    BY <1>1, LenProperties
  <1> DEFINE D == DOMAIN m.nodes
             name == [k \in D |-> m.nodes[k].id]
  <1>3. IsFiniteSet(D) /\ Cardinality(D) = Len(m.nodes)
    BY <1>2, FS_Interval
  <1>4. name \in Surjection(D, Ids(m))
    BY DEF Surjection, Ids
  <1>5. IsFiniteSet(Ids(m))
    BY <1>3, <1>4, FS_Surjection
  <1>6. name \in Injection(D, Ids(m))
    BY <1>3, <1>4, <1>5, FS_SurjSameCardinalityImpliesInj
  <1>7. \A k \in D : m.nodes[k].id = m.nodes[i].id => k = i
    <2> SUFFICES ASSUME NEW k \in D, m.nodes[k].id = m.nodes[i].id PROVE k = i
      OBVIOUS
    <2>1. name[k] = name[i]
      OBVIOUS
    <2> QED BY <1>6, <2>1 DEF Injection, IsInjective
  <1>8. {k \in DOMAIN m.nodes : m.nodes[k].id = m.nodes[i].id} = {i}
    BY <1>7
  <1>9. i \in Int
    BY <1>2
  <1>10. Max({i}) = i
    BY <1>9 DEF Max
  <1> QED BY <1>8, <1>10 DEF LastOf

\* A manifest the validator has no error for is one load_manifest accepts.
LEMMA CleanLoads == ASSUME NEW m, ~Errors(m) PROVE ~Raises(m)
  BY DEF Errors, SchemaErrors, NodeErrors, Raises

\* The nodes of such a manifest are declared with all their surfaces.
LEMMA CleanNodesDeclared ==
  ASSUME NEW m \in Manifests, ~Errors(m), NEW i \in DOMAIN m.nodes
  PROVE  Names(m.nodes[i]) = Declared(m)[m.nodes[i].id]
  <1>1. m.nodes[i].id \in Ids(m)
    BY DEF Ids
  <1>2. m.nodes[i].id # "core" /\ Cardinality(Ids(m)) = Len(m.nodes)
    BY <1>1 DEF Errors, NodeErrors
  <1>3. LastOf(m, m.nodes[i].id) = i
    BY <1>2, NamesAreUnique
  <1> QED BY <1>1, <1>2, <1>3 DEF Declared

\* Every edge of such a manifest joins what is declared.
LEMMA CleanEdgesDeclared ==
  ASSUME NEW m \in Manifests, ~Errors(m), NEW e \in m.rels
  PROVE  /\ e.from \in DOMAIN Declared(m) /\ e.to[1] \in DOMAIN Declared(m)
         /\ e.to[2] \in Declared(m)[e.to[1]]
  <1>1. Len(e.to) = 2
    BY DEF Errors, SchemaErrors
  <1>2. /\ e.from \in Ids(m)
        /\ IF e.to[1] = "core" THEN e.to[2] \in CoreSurfaces
           ELSE e.to[1] \in Ids(m) /\ e.to[2] \in Names(m.nodes[LastOf(m, e.to[1])])
    BY <1>1 DEF Errors, EdgeErrors
  <1> QED BY <1>2 DEF Declared

\* Startup by phases holds at the start and through every step.
LEMMA StartInit == Init => StartInv
  BY DEF Init, StartInv

\* Every step keeps startup in its phases.
LEMMA StartStep == ASSUME StartInv, [Next]_vars PROVE StartInv'
  <1>1. CASE ApplyToml \/ ApplyEnv \/ ApplyCli \/ Clamp
    BY <1>1 DEF ApplyToml, ApplyEnv, ApplyCli, Clamp, Step, registry, StartInv
  <1>2. CASE Dump \/ NoManifest \/ Main \/ BadToken \/ Unreadable \/ CannotBind \/ Terminated
    BY <1>2 DEF Dump, NoManifest, Main, BadToken, Unreadable, CannotBind, Terminated,
                Step, End, registry, StartInv
  <1>3. CASE LoadRaises
    <2>1. PICK m \in Manifests : Raises(m) /\ Validated(m)
      BY <1>3 DEF LoadRaises
    <2>2. verdict' = "errors"
      BY <2>1, CleanLoads DEF Validated
    <2>3. phase = "app" /\ phase' = "ended"
      BY <1>3 DEF LoadRaises, End
    <2> QED BY <2>2, <2>3 DEF StartInv
  <1>4. CASE Load
    <2>1. PICK m \in Manifests : /\ ~Raises(m) /\ Validated(m)
                                 /\ decl' = Declared(m) /\ edges' = m.rels
      BY <1>4 DEF Load
    <2>2. phase = "app" /\ phase' = "loaded" /\ outcome' = outcome
      BY <1>4 DEF Load, Step
    <2>3. manifest' = m /\ (verdict' = "clean" => ~Errors(m))
      BY <2>1 DEF Validated
    <2> QED BY <2>1, <2>2, <2>3 DEF StartInv
  <1>5. CASE Listen \/ Serve \/ Reconcile
    BY <1>5 DEF Listen, Serve, Reconcile, Step, registry, StartInv
  <1>6. CASE ResolverRaises \/ Shutdown
    BY <1>6 DEF ResolverRaises, Shutdown, End, registry, StartInv
  <1>7. CASE UNCHANGED vars
    BY <1>7 DEF vars, registry, StartInv
  <1> QED BY <1>1, <1>2, <1>3, <1>4, <1>5, <1>6, <1>7 DEF Next

\* Of whatever manifests there may be, one the validator finds no error in
\* loads, with every node and every edge in place (manifest_validator.py).
THEOREM CleanIsServed == Spec => []CleanManifestServes
  <1>1. Init => StartInv
    BY StartInit
  <1>2. StartInv /\ [Next]_vars => StartInv'
    BY StartStep
  <1>3. StartInv => CleanManifestServes
    BY CleanNodesDeclared, CleanEdgesDeclared DEF StartInv, CleanManifestServes
  <1> QED BY <1>1, <1>2, <1>3, PTL DEF Spec
=============================================================================
