SPECIFICATION Spec
CONSTANT Worlds = {"table", "cache", "flight", "chain", "race", "supreme", "responders", "interfaces",
                   "question", "registry", "catalog", "llmnr"}
INVARIANTS
    OneFetchPerKey
    ServedInTime
    NamesAreUnique
    CacheFollowsRule
    SubscribersConverge
    InflightAccounted
PROPERTIES
    AnswersAreCurrent
    SecureNeverOverwritten
    RenamesSurviveReload
CHECK_DEADLOCK FALSE
