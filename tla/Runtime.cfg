CONSTANTS
    Procs = {1, 2}
    Versions <- MCVersions
    Jobs <- MCJobs
    Releases <- MCReleases
    Ships <- MCShips
    HasClaude = FALSE
SPECIFICATION Spec
INVARIANT ReadyIsInstalled
INVARIANT RequirementMet
PROPERTY RuntimesAppearComplete
CHECK_DEADLOCK FALSE
