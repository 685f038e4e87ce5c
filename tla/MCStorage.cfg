SPECIFICATION Spec
CONSTANTS
    Users = {u1, u2}
    Tokens = {t1, t2}
    None = None
    LEDGER_BUMP_SHARED = 3
    LEDGER_THRESHOLD_SHARED = 2
    LEDGER_BUMP_USER = 3
    LEDGER_THRESHOLD_USER = 1
    MIN_PERSISTENT_TTL = 2
SYMMETRY MCSymmetry
INVARIANTS
    TypeOK
    UserEntriesKept
    InstanceKept
