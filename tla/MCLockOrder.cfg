SPECIFICATION FairSpec
CONSTANTS
    a = a
    dnsA = dnsA
    name = name
    plain = plain
    special = special
    NoDns = NoDns
    NoName = NoName
    DefaultOption = plain
    Options = {plain, special}
    Names = {name}
    Links = {a}
    Setters = {}
    Queriers = {q}
    DnsLists = {dnsA}
    KernelStates = {"up"}
    FileStates <- OneLink
    MaxEvents = 2
    MaxCalls = 0
PROPERTY SyncsEnd
CHECK_DEADLOCK FALSE
