\* Three requests compete for one permit; everybody is answered without the
\* timeout.
CONSTANTS
    Requests = {r1, r2, r3}
    HeavyTasks = 1
    MaxSources = 1
SPECIFICATION FairSpec
INVARIANTS
    PermitsConserved
    NoIdlePermit
PROPERTIES
    EveryRequestEnds
