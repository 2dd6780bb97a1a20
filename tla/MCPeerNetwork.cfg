SPECIFICATION PeerSpec
CONSTANTS
    peer_a = peer_a
    peer_b = peer_b
    caller = caller
    Listening <- MCListening
    Calling <- MCCalling
    Node <- MCNode
    Known <- MCKnown
    Allowed <- MCAllowed
    EventCapacity = 3
    NumClients = 1
    SoftClients = 0
    SoftNeighbors = 1
INVARIANTS
    MapsAgree
    ScansCanFinish
    DeniedNotConnected
