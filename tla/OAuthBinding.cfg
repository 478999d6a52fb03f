\* One handler: two clients, two verifiers, four redirect URIs, expiry.
CONSTANTS
    None = None
    u1 = u1  u2 = u2  e1 = e1  e2 = e2  k1 = k1  k2 = k2  v1 = v1  v2 = v2
    p1 = p1  p2 = p2  c1 = c1  c2 = c2  read = read  audio = audio
    Uids = {u1}
    Emails = {e1}
    EmailOf <- OneEmail
    Scopes = {read}
    DefaultScopes = {read}
    AllScopes = {read}
    DcrClients = {k2}
    CimdClients = {k1}
    Published <- OneDocument
    Uris <- AllUris
    Submissions <- SomeSubmissions
    MaxRedirectURIs = 2
    Handlers = {p1}
    Codes = {c1}
    Verifiers = {v1, v2}
    Challenges = {"S256(v1)", "S256(v2)"}
    S256 <- TwoVerifiers
    CodeTTL = 0
    AccessTTL = 1
    RefreshTTL = 2
    MaxTime = 1
    MaxAdmin = 2
    Faults = {}
    Paths = {"mcp", "a2a"}
    Required <- MCRequired
SPECIFICATION GatewaySpec
INVARIANTS TypeOK RevocationBites TokensFollowTheirGrant RedirectsAreRegistrable AnnouncedClientsResolve
CHECK_DEADLOCK FALSE
