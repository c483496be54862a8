\* CommonMediaLoader under an owner that retries right after an error
\* but does not start a load while one is outstanding.
CONSTANTS
    Kind = "common"
    LoadMetaModes = {"None"}
    OwnerInterrupts = FALSE
    RetryWithoutCancel = TRUE
    MaxCalls = 3
    MaxSeq = 9
SPECIFICATION Spec
INVARIANTS AtMostOneResult ResultMatchesCall
PROPERTIES ResultDelivered
CHECK_DEADLOCK FALSE
