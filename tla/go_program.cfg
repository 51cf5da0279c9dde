\* Two requests, and an audit stream that the events of both overrun.
SPECIFICATION FairSpec
CONSTANTS
    Request = {r1, r2}
    AuditCapacity = 1
INVARIANTS
    TypeOK
    AdminsNotTurnedAway
    PanicsOnlyPastTimeouts
PROPERTIES
    StopsEventually
CHECK_DEADLOCK FALSE
