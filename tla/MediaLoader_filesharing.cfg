\* FileSharingLoader, every loadMeta_ mode, under an owner that cancels
\* before it retries after an error and never interrupts a load.
CONSTANTS
    Kind = "filesharing"
    LoadMetaModes = {"BeforePreview", "BeforeMedia", "OnlyForVideo", "None"}
    OwnerInterrupts = FALSE
    RetryWithoutCancel = FALSE
    MaxCalls = 3
    MaxSeq = 9
SPECIFICATION Spec
INVARIANTS AtMostOneResult ResultMatchesCall NoLeakedConnections
CHECK_DEADLOCK FALSE
