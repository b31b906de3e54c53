SPECIFICATION Spec
CONSTANTS
    a = a
    b = b
    u = u
    q = q
    dnsA = dnsA
    dnsB = dnsB
    name = name
    plain = plain
    special = special
    NoDns = NoDns
    NoName = NoName
INVARIANTS
    EveryChangePublished
    TablesFollowSources
    ManagedLinksConfigured
PROPERTY ScopesAgree
