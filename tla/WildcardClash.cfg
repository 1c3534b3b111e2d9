CONSTANTS
    None = None
    Names <- MCOneName
    Offers <- MCOffersCert
    Configs <- MCConfigs
    Issuers <- MCIssuers
    IssuerHash <- MCIssuerHash
    EndpointLists <- MCEndpointLists
    Pems <- MCPems
    DynClientIds = {"dyn-1"}
    Cookies = {"cookie-1"}
    TlsEnabled = TRUE
    WildcardSecret = "tls-a"
    MaxAttempts = 1
    MaxChanges = 1
    MaxRestarts = 0
    CrashMidCall = FALSE
    SecretValues <- MCSecretValues
    MaxSourceChanges = 1
    MaxMirrorRestarts = 0
SPECIFICATION SystemSpec
INVARIANT WildcardMirrored
CHECK_DEADLOCK FALSE
