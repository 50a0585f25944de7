CONSTANTS
    Names <- MCNames
    Lower <- MCLower
    Passwords = {p1, p2}
    Salts = {s1, s2}
    Threads = {t1}
    NoHash = NoHash
    NoSalt = NoSalt
    NoRoot = NoRoot
    NoCount = NoCount
SPECIFICATION Spec
INVARIANTS
    TypeOK
    AuthSound
    UserCanLogIn
    UserCountMatches
PROPERTIES
    RootNeverChanges
    RegistrySpec
