SPECIFICATION Spec
CONSTANTS
    r1 = r1
    s1 = s1
    u1 = u1
    Locations = {l1}
    Sockets <- OneSocket
    Users = {u1}
    Replicas = {r1}
    HostOf <- HostOne
    UserOf <- UserOne
    Weathers <- Heat
    MaxCycles = 2
    MaxKills = 1
    MaxAlerts = 2
INVARIANTS
    TypeOK
    AlertsOnTheirWay
    ToldOnceInOrder
PROPERTIES
    StoredReachesClient
    DisconnectsCleanUp
    KeepsPolling
    AlertsGetPublished
