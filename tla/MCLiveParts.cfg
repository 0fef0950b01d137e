SPECIFICATION Spec
CONSTANTS
    m1 = m1
    m2 = m2
    obs = obs
    probe = probe
    dns = dns
    g1 = g1
    refused = refused
    timeout = timeout
    t1 = t1
CHECK_DEADLOCK FALSE
INVARIANTS
    TypeOK
PROPERTIES
    EverythingEnds
    FilesSettle
