CONSTANTS
    None = None
    Names <- MCOneName
    Offers <- MCOffersOne
    Configs <- MCConfigs
    Issuers <- MCIssuers
    IssuerHash <- MCIssuerHash
    EndpointLists <- MCEndpointLists
    Pems <- MCPems
    DynClientIds = {"dyn-1", "dyn-2"}
    Cookies = {"cookie-1", "cookie-2"}
    TlsEnabled = TRUE
    WildcardSecret = None
    MaxAttempts = 2
    MaxChanges = 3
    MaxRestarts = 1
    CrashMidCall = FALSE
SPECIFICATION Spec
CHECK_DEADLOCK FALSE
PROPERTY CredentialsStable
