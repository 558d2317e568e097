SPECIFICATION LoginSpec
CONSTANTS
    p1 = p1
    p2 = p2
    alice = alice
    bob = bob
INVARIANTS
    SessionsDoNotMix AuthenticatedIsBound
PROPERTIES
    NoClientHangs
\* Processes end, and nobody need start another.
CHECK_DEADLOCK FALSE
