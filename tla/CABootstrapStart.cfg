SPECIFICATION FairSpec
CONSTANTS
    CAs = {k1, k2, k3}
    None = None
    Empty = Empty
    Partial = Partial
INVARIANTS
    TypeOK
    KeyIsPrivate
    OneAuthority
    PublicIsCurrent
PROPERTY ServesUnlessDamaged
