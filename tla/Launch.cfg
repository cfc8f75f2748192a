CONSTANTS
    Dashed <- MCDashed
    Number <- MCNumber
    EnvItem <- MCEnvItem
    Argvs <- MCArgvs
    Environs <- MCEnvirons
    Hosts <- MCHosts
    DaemonEnvs <- MCDaemonEnvs
    GuestCodes <- MCGuestCodes
    Rewrites <- MCRewrites
SPECIFICATION Spec
INVARIANTS
    CommandIsVerbatim
    PolicyReachesGuest
    ExplicitNetworkKept
    LaunchedIsEquipped
    SentAtMostOnce
    SuccessIsEarned
PROPERTIES
    DoctorPredictsLaunch
