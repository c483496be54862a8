\* FileSaver over a FileSharingLoader in every loadMeta_ mode, with and
\* without PNG export; the saver's parent may destroy it at any step.
CONSTANTS
    ExportAsPngChoices = {FALSE, TRUE}
    Kind = "filesharing"
    LoadMetaModes = {"BeforePreview", "BeforeMedia", "OnlyForVideo", "None"}
    MaxSeq = 3
SPECIFICATION Spec
INVARIANTS CallbackOnceWhileAlive
PROPERTIES CallbackEventually
CHECK_DEADLOCK FALSE
