\* All inputs: documents around a valid baseline, host strings up to length
\* 4 over {h : / space}, vcs-room strings up to length 5 over {h ;}.
CONSTANTS
    UpdateFromBackend = TRUE
    PlatformKey = "linux_x64"
    MaxHostLen = 4
    MaxRoomsLen = 5
    MaxArgs = 4
SPECIFICATION Spec
INVARIANTS OverridesMatchDocument VcsRoomsRoundTrip ServerOverridesHonoured FetchUrlPerSpec CommandLinePerArgs ThreadRoundTrip DestroysOnlyOnConfirm HostNormalizedPerSpec GlCleanupMatchesAcquired
