SPECIFICATION Spec
CONSTANTS
    h1 = h1  h2 = h2  h3 = h3  e1 = e1  e2 = e2  o1 = o1  o2 = o2
    amd64 = amd64  arm64 = arm64  NoArch = NoArch
    NoSHA = NoSHA  NoManifest = NoManifest  NoRequest = NoRequest
    Shas = {1, 2, 3}
    Archs = {amd64, arm64}
    Hosts = {h1, h2}
    Envs = {e1}
    EnvOf <- OneEnv
    ArchOf <- TwoArchs
    Ephemeral = {}
    Operators <- Sequential
    IsApp = FALSE
    Keep = 1
    MaxAttempts = 1
    MaxTime = 2
INVARIANT PinnedHasArtifact
PROPERTY SweepIsHonest
