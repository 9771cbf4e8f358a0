\* Two instances, two faults.
SPECIFICATION Spec
CONSTANTS
    Keys = {p1, p2}
    MaxFaults = 2
INVARIANTS TypeOK HeartbeatAdvertises KeysAreLeased AbandonedExpires
PROPERTIES ImplementsMembership AbandonedVanishes RunningIsRegistered
CHECK_DEADLOCK FALSE
