SPECIFICATION Spec
CONSTANT Worlds = {"table", "cache", "hyper", "responders", "question", "catalog", "llmnr"}
PROPERTIES
    CallsEnd
    ChangesTakeEffect
CHECK_DEADLOCK FALSE
