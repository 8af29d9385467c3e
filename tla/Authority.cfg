SPECIFICATION Spec
CONSTANTS
    a = a
    b = b
    c = c
    d = d
    e = e
    f = f
    g = g
    s = s
    t = t
    None = None
    Unparsable = Unparsable
    Keys = {a, b, c, d, e, f, g}
    Subjects = {s, t}
    GeneratedKeys = {d, e}
    Algorithm <- MCAlgorithm
    Assembled <- MCAssembled
    Requests <- MCRequests
    TTLs = {0, 1}
    DefaultCACertificateTTL = 2
    DefaultLeafCerticiateTTL = 1
    DefaultCertTTL = 2
    MaxTime = 2
    MaxResponses = 1
INVARIANTS
    TypeOK
    ResponsesVerify
    CommandsWriteAuthorities
