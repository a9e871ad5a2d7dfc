SPECIFICATION Spec
CONSTANTS
    s1 = s1
    s2 = s2
    s3 = s3
    r1 = r1
    d1 = d1
    d2 = d2
    Stream = {s1, s2, s3}
    Rpc = {r1}
    Device = {d1, d2}
    ElectionId = {0, 1, 2}
    max_connections = 2
    MaxRequests = 2
    MaxPackets = 1
SYMMETRY Symmetry
CHECK_DEADLOCK FALSE
INVARIANTS RolesFollowConnections AdmittedWasMaster
