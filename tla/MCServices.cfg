SPECIFICATION Spec
CONSTANT Worlds = {"stub", "binding", "varlink", "link_dumps", "cache_dumps",
                   "statistics", "nss", "dbus_loop", "dbus_values", "startup", "records",
                   "lookups", "datagrams", "streams", "walk"}
INVARIANTS
    OverloadCostsOnlyDatagrams
    RepliesMatchRequests
    ResultsAreTrue
    ReadBackIsNoChange
    RestartsAreStable
    StampsCoverRecords
    EveryTargetTried
    AnswersMatch
    RefusedAfterAll
CHECK_DEADLOCK FALSE
