SPECIFICATION Spec
CONSTANTS
    Nobody = Nobody
    Gpu = {g1, g2, g3}
    Session = {s1, s2, s3}
    Ttl = 2
    Horizon = 5
SYMMETRY Symmetric
INVARIANT TypeOK
PROPERTIES ImplementsGpuLease NotRevived
CHECK_DEADLOCK FALSE
