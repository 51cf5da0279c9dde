\* One connection at a time on each of two; the audit stream holds two events.
SPECIFICATION FairSpec
CONSTANTS
    Connection = {k1, k2}
    AuditLimit = 2
    ReportLimit = 1
    MaxValidations = 3
CHECK_DEADLOCK FALSE
INVARIANTS NoServerError ExitsClean AuditKeepsNewest
PROPERTIES StopsEventually
