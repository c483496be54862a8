\* One fetch in flight at a time (the caller's discipline), in a production
\* installation and in a develop one whose develop file fails validation.
CONSTANTS
    bFull = bFull
    bNoOverrides = bNoOverrides
    bMissingFields = bMissingFields
    bNotJson = bNotJson
    Bodies <- MCBodies
    JsonBodies <- MCJsonBodies
    AcceptedBodies <- MCAcceptedBodies
    OverrideBodies <- MCOverrideBodies
    Environments <- MCEnvironments
    NoFile = NoFile
    NoConfig = NoConfig
    Defaults = Defaults
    MaxRequests = 3
    MaxInFlight = 1
    MaxRestarts = 1
SPECIFICATION Spec
INVARIANTS TypeOK StoreRecoverable
PROPERTIES CallbackDelivered StoreRefinement
