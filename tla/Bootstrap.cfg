CONSTANTS
    Options <- MCOptions
    MaxRelease = 2
    MaxFaults = 3
SPECIFICATION BootFairSpec
INVARIANT OkIsVerified
INVARIANT OkIsConsistent
PROPERTY RetrySucceeds
