SPECIFICATION Spec
CONSTANTS
    Zones <- DualStack
    Operations <- Getaddrinfo
    MaxFaults = 1
INVARIANT GaihListComplete
