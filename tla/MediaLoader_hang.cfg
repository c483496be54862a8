\* FileSharingLoader: is every preview load answered?
CONSTANTS
    Kind = "filesharing"
    LoadMetaModes = {"BeforePreview", "BeforeMedia", "OnlyForVideo", "None"}
    OwnerInterrupts = FALSE
    RetryWithoutCancel = FALSE
    MaxCalls = 3
    MaxSeq = 9
SPECIFICATION Spec
PROPERTY ResultDelivered
CHECK_DEADLOCK FALSE
