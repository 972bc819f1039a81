SPECIFICATION FairSpec
CONSTANTS
    secrets = secrets  unit = unit  Nobody = Nobody
    Res = {secrets, unit}
    System = {}
    OpOf <- PlannedOps
    Routine = {secrets}
    Harmless = {}
    BufSize = 1
    MaxChunks = 2
    MaxDiags = 1
INVARIANTS OneWriter ErrorsShownOnce ReportIsTheRun
PROPERTY MainReturns
CHECK_DEADLOCK FALSE
