SPECIFICATION MCSpec
CONSTANTS
    p1 = p1
    p2 = p2
    a = a
    b = b
    Procs = {p1, p2}
    Items = {a, b}
    Counts = {0, 2}
    Mortal = {p1}
    MayVanish = TRUE
    t1 = t1
    t2 = t2
    t3 = t3
    A = A
    B = B
    Threads = {t1, t2, t3}
    Names = {A, B}
    KeysLock = KeysLock
    MaxCalls <- MCCalls
INVARIANTS RegistrationIsRight
PROPERTIES Atomic CallsReturn CallsComplete
