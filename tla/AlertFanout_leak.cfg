SPECIFICATION Spec
CONSTANTS
    r1 = r1
    s1 = s1
    s2 = s2
    u1 = u1
    Locations = {l1, l2}
    Sockets <- TwoSockets
    Users <- OneUser
    Replicas <- OneReplica
    HostOf <- HostOne
    UserOf <- UserSame
    MaxAlerts = 2
INVARIANTS
    RegistryHoldsLiveConnections
