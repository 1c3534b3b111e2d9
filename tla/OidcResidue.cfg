CONSTANTS
    None = None
    Names <- MCOneName
    Offers <- MCOffersOne
    Configs <- MCConfigs
    Issuers <- MCIssuers
    IssuerHash <- MCIssuerHash
    EndpointLists <- MCEndpointLists
    Pems <- MCPems
    DynClientIds = {"dyn-1"}
    Cookies = {"cookie-1"}
    TlsEnabled = TRUE
    WildcardSecret = None
    MaxAttempts = 2
    MaxChanges = 2
    MaxRestarts = 1
    CrashMidCall = FALSE
SPECIFICATION Spec
CHECK_DEADLOCK FALSE
INVARIANT NothingLeftAfterRemoval
