\* Two concurrent exchanges of one code.
CONSTANTS
    None = None
    u1 = u1  u2 = u2  e1 = e1  e2 = e2  k1 = k1  k2 = k2  v1 = v1  v2 = v2
    p1 = p1  p2 = p2  c1 = c1  c2 = c2  read = read  audio = audio
    Uids = {u1}
    Emails = {e1}
    EmailOf <- OneEmail
    Scopes = {read}
    DefaultScopes = {read}
    AllScopes = {read}
    DcrClients = {}
    CimdClients = {k1}
    Published <- OneDocument
    Uris <- OneUri
    Submissions <- NoSubmissions
    MaxRedirectURIs = 2
    Handlers = {p1, p2}
    Codes = {c1}
    Verifiers = {}
    Challenges = {}
    S256 <- NoDocuments
    CodeTTL = 0
    AccessTTL = 1
    RefreshTTL = 1
    MaxTime = 0
    MaxAdmin = 1
    Faults = {}
SPECIFICATION Spec
INVARIANT SingleUse
CHECK_DEADLOCK FALSE
