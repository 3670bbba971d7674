CONSTANTS
    u1 = u1
    u2 = u2
    u3 = u3
    Nobody = Nobody
    Unparkers <- MCUnparkers
SPECIFICATION FairSpec
INVARIANTS TypeOK NoPanic NoLostWakeup
PROPERTIES ImplementsToken
