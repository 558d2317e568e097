\* The client of one user, started twice.
SPECIFICATION RestartSpec
CONSTANTS
    p1 = p1
    p2 = p2
    alice = alice
    bob = bob
INVARIANTS
    CleanupIsSafe
\* The run ends at the violation.
CHECK_DEADLOCK FALSE
