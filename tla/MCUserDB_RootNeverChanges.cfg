CONSTANTS
    Names <- MCNames
    Lower <- MCLower
    Passwords = {p1, p2}
    Salts = {s1, s2}
    Threads = {t1, t2}
    NoHash = NoHash
    NoSalt = NoSalt
    NoRoot = NoRoot
    NoCount = NoCount
SPECIFICATION Spec
PROPERTY
    RootNeverChanges
