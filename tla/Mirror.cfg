CONSTANTS
    None = None
    SecretValues <- MCSecretValues
    MirrorKey <- MCMirrorKey
    MirrorEnabled = TRUE
    MaxSourceChanges = 3
    MaxMirrorRestarts = 1
SPECIFICATION Spec
INVARIANT MirrorInSync
CHECK_DEADLOCK FALSE
