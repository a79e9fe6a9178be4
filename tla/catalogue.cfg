SPECIFICATION Spec
CONSTANTS
    Vms = {v1}
    Machines = {m1, m2}
    Tasks = {t1, t2}
    MaxSessions = 2
    MaxConnections = 3
    Statuses = {"available", "running", "offline"}
    NoVm = NoVm
INVARIANTS TypeOK LetVmIsKept EndsOnlyAfterPulling
PROPERTY DeletionIsFinal
SYMMETRY CatalogueSymmetry
CHECK_DEADLOCK FALSE
