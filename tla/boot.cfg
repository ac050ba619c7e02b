SPECIFICATION Spec
CONSTANTS
    WindowMin = 3
    WindowMax = 7
    WindowDefault = 5
    LegacyToken = "admin-dev-token"
    CoreSurfaces = {"state", "drain"}
    Tomls <- MCTomls
    Envs <- MCEnvs
    Clis <- MCClis
    Tokens = {"", "admin-dev-token", "secret"}
    Manifests <- MCManifests
INVARIANTS
    Explained
    CleanManifestServes
CHECK_DEADLOCK FALSE
