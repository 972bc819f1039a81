SPECIFICATION Spec
CONSTANTS
    Starts <- Layouts
    Env = "env"
    Ports = {80, 81, 443, 5432, 8080, 8442, 9001, 9500, 11443}
    Vanities <- EditedVanities
    Patterns <- EditedPatterns
    Paths <- AskedPaths
    MaxEdits = 2
INVARIANT HealthListenerKept
CHECK_DEADLOCK FALSE
