SPECIFICATION Spec
CONSTANTS
    a = a  b = b
    Services = {a, b}
    Tables = {"t"}
    Keep = 1
    Batch = 1
    MaxEvents = 4
SYMMETRY Symmetry
INVARIANTS MintIsDeclarative ClearedIsDroppable
PROPERTY BackupsSurvive
