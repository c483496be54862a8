\* A mail-interop member that is not an object.
CONSTANTS
    UpdateFromBackend = TRUE
    PlatformKey = "linux_x64"
    MaxHostLen = 4
    MaxRoomsLen = 5
    MaxArgs = 4
SPECIFICATION Spec
INVARIANT MailSectionPerSpec
