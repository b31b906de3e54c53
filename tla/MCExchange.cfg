\* Two threads that learn about one server, with fixed modes.
CONSTANTS
    Threads = {t1, t2}
    Servers = {s1}
    NoServer = NoServer
    AttemptsMax = 2
    ConfigAttempts = 1
    FeatureRetryAttempts = 1
    TransportRetryAttempts = 2
    MaxFeatureRetries = 1
    MaxTransportRetries = 0
    DnssecModes = {"allow", "yes"}
    TlsModes = {"no"}
    TsigQueries = {FALSE}
    MaxModeChanges = 0
SYMMETRY Interchangeable
VIEW Relevant
SPECIFICATION Spec
INVARIANTS Recoverable StrictAsksForDnssec ActiveTransportBelowLimit
