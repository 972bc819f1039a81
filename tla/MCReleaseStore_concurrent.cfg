SPECIFICATION Spec
CONSTANTS
    h1 = h1  h2 = h2  h3 = h3  e1 = e1  e2 = e2  o1 = o1  o2 = o2
    amd64 = amd64  arm64 = arm64  NoArch = NoArch
    NoSHA = NoSHA  NoManifest = NoManifest  NoRequest = NoRequest
    Shas = {1, 2}
    Archs = {NoArch}
    Hosts = {h1, h2, h3}
    Envs = {e1, e2}
    EnvOf <- Pairwise
    ArchOf <- OneArch
    Ephemeral = {e1}
    Operators = {o1, o2}
    IsApp = TRUE
    Keep = 1
    MaxAttempts = 3
    MaxTime = 1
SYMMETRY Symmetry
VIEW AllButLive
INVARIANT TypeOK HeldPinsSpared RefusalsHaveRivals
PROPERTY ImplementsRegister
