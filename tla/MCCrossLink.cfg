\* As MCQueries: a link's query and the cached answer of another link.
CONSTANTS
    q1 = q1
    q2 = q2
    Threads = {t1, t2}
    Writers = {w1}
    Questions = {q1}
    Links = {0, 1}
    Queries <- TwoClients
    Ids = {1}
    RefusedTypes = {}
    Entries = {e1, e2}
    None = None
    Cache = TRUE
    StaleRetention = TRUE
    NShards = 2
    ShardOf <- OnlyQ1
    MaxPerShard = 1
    MaxQueries = 2
    MaxChanges = 1
SYMMETRY Interchangeable
SPECIFICATION Spec
INVARIANT RepliesKeepToTheirLink
