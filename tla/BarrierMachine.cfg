SPECIFICATION MCSpec
CONSTANTS
    Tasks = {1, 2, 3}
    Barriers = {1, 2, 3}
    Pids = {1, 2}
    Queues = {1, 2}
    None = 0
INVARIANTS
    MachineTypeOK
    MappingConsistent
    RetiredIsDone
PROPERTIES
    Persistent
CHECK_DEADLOCK FALSE
