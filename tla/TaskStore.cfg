\* Two callers race for one task that may be purged.
CONSTANTS
    None = None
    q1 = q1  q2 = q2  t1 = t1  x1 = x1  x2 = x2  alice = alice  bob = bob
    Callers = {q1, q2}
    Ids = {t1}
    Payloads = {x1, x2}
    Users = {alice, bob}
    Named = {0, 1, 2, 3}
    TaskTTL = 0
    MaxAttempts = 3
    MaxVersion = 3
    MaxTime = 1
    Faults = {"error"}
SPECIFICATION FairSpec
INVARIANTS TypeOK IInv AcknowledgedVersionsDiffer
PROPERTIES ImplementsPromise LifeNeverShortens CallsReturn
CHECK_DEADLOCK FALSE
