\* FileSharingLoader whose owner retries a load right after an error.
CONSTANTS
    Kind = "filesharing"
    LoadMetaModes = {"BeforePreview", "BeforeMedia", "OnlyForVideo", "None"}
    OwnerInterrupts = FALSE
    RetryWithoutCancel = TRUE
    MaxCalls = 3
    MaxSeq = 9
SPECIFICATION Spec
INVARIANT AtMostOneResult
CHECK_DEADLOCK FALSE
