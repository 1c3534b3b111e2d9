CONSTANTS
    None = None
    Names <- MCOneName
    Offers <- MCOffersOne
    Configs <- MCConfigs
    Issuers <- MCIssuers
    IssuerHash <- MCIssuerHash
    EndpointLists <- MCEndpointLists
    Pems <- MCPems
    DynClientIds = {"dyn-1"}
    Cookies = {"cookie-1"}
    TlsEnabled = TRUE
    WildcardSecret = None
    MaxAttempts = 0
    MaxChanges = 1
    MaxRestarts = 0
    CrashMidCall = FALSE
SPECIFICATION Spec
CHECK_DEADLOCK FALSE
PROPERTY EventuallyQuiescent
