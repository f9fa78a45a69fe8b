SPECIFICATION DeviceSpec
CONSTANTS
    GroupIds = {1, 2}
    Configs <- SomeConfigs
    FirstMacs = {1, 2}
    Packets <- SomePackets
    Peer = 254
    MaxRequests = 5
    MaxPackets = 2
INVARIANTS
    DevicesOfGroups
    BroadcastReachesDevices
    GatewaysAsked
PROPERTIES
    LearnsInOwnVlan
    RequestEnds
CHECK_DEADLOCK FALSE
