\* Two founders issue at once.
CONSTANTS
    t1 = t1
    t2 = t2
    t3 = t3
    t4 = t4
    Tab = {t1, t2, t3, t4}
    Families <- MCFamilies
    Walkers = {t3}
    Callers = {t4}
    Skew <- MCSkew
    TTL = 0
    Life = 0
    MaxRequests = 2
    MaxTime = 1
    Jurisdiction = {1, 2, 3}
    Capitals = {1, 2}
    MaxU64 = 99
    MaxSlots = 4
    Fields = 4
    MinAge = 1
    MaxAge = 2
    MinPeriod = 1
    MaxPeriod = 2
    MAX_DECIMALS = 1
    MAX_BYTES <- MCBytes
    MAX_FEE_BPS = 1
    MAX_ATTESTATION_MAX_AGE = 2
    Currencies = {"USD"}
    Hour = 1
    SIMULATED_JURISDICTION = 2
SPECIFICATION Spec
CHECK_DEADLOCK FALSE
INVARIANTS IssuedAsNamed RouteMirrorsProgram RulebookTells
