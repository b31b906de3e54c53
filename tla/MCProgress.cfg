SPECIFICATION Spec
CONSTANT Worlds = {"queries", "walk", "stub", "varlink", "nss", "dbus", "records", "lookups", "connection"}
INVARIANT IInv
PROPERTIES
    CallsEnd
    StopEndsProcess
    ChangesArrive
CHECK_DEADLOCK FALSE
