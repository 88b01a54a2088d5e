SPECIFICATION Spec
CONSTANTS
    a = a
    b = b
    k1 = k1
    k2 = k2
    k3 = k3
    None = None
    Ids = {a, b}
    Callers = {k1, k2, k3}
    MaxVersions = 2
    MaxRetries = 1
INVARIANTS
    QuitFlushCompletes
