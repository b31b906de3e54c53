\* The TLS mode of a link changes once while a thread asks its server; TSIG or not.
CONSTANTS
    Threads = {t1}
    Servers = {s1}
    NoServer = NoServer
    AttemptsMax = 3
    ConfigAttempts = 2
    FeatureRetryAttempts = 1
    TransportRetryAttempts = 1
    MaxFeatureRetries = 1
    MaxTransportRetries = 1
    DnssecModes = {"allow"}
    TlsModes = {"opportunistic", "yes"}
    TsigQueries = {TRUE, FALSE}
    MaxModeChanges = 1
SPECIFICATION Spec
INVARIANT StrictTlsStaysEncrypted
PROPERTY ForcedLevelNeverRises
