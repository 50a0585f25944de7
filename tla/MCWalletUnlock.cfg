CONSTANTS
    Clients = {c1, c2}
    Threads = {t1, t2, t3}
    Timeouts <- MCTimeouts
    StartTime = 1
SPECIFICATION Spec
INVARIANTS
    TypeOK
    ArmedWhileUnlocked
PROPERTIES
    RelockedEventually
