-------------------------------- MODULE OAuth --------------------------------
(***************************************************************************)
(* The authorization server of oauth.go: the login callback that issues     *)
(* authorization codes, and the token endpoint that turns a code or a        *)
(* refresh token into signed tokens.                                         *)
(*                                                                         *)
(* Every HTTP request is served by a handler; a handler takes one step per   *)
(* Firestore call, so other handlers, the admin commands, client             *)
(* registration and the clock run between its calls.  Which user, client     *)
(* and code a handler works on, and what it has read so far, is its record    *)
(* in `handler`.                                                             *)
(***************************************************************************)
EXTENDS Directory, ClientRegistry

CONSTANTS Handlers,    \* concurrent request handlers
          Codes,       \* authorization codes a random draw can give
          Verifiers,   \* PKCE code verifiers
          Challenges,  \* PKCE code challenges
          S256,        \* the challenge of each verifier
          AllScopes,   \* allUserScopes of the admin command line
          CodeTTL, AccessTTL, RefreshTTL,  \* lifetimes
          MaxTime,     \* bound: the clock stops here
          MaxAdmin,    \* bound: number of admin command steps
          Faults       \* Firestore calls that may fail: "read", "delete", "write"

CodeDoc == [uid : Uids, client : Clients, redirect : Uris,
            challenge : Challenges \cup {None}, expires : Nat]

\* `grant` is a history field: the code a token descends from, None when the
\* admin command line minted it.
Token == [kind : {"access"}, sub : Uids \cup {None}, client : Clients \cup {None},
          scopes : SUBSET Scopes, exp : Nat, grant : Codes \cup {None}]
         \cup
         [kind : {"refresh"}, sub : Uids \cup {None}, client : Clients,
          scopes : SUBSET Scopes, exp : Nat, grant : Codes]

Idle == [at |-> "idle"]

CallbackState ==
    [at : {"preregistered", "activate", "resolve", "store"},
     uid : Uids, client : Clients, redirect : Uris, challenge : Challenges \cup {None},
     doc : DocIds \cup {None}]

RedeemState ==
    [at : {"delete", "verify"}, uid : Uids, grant : Codes, client : Clients,
     redirect : Uris \cup {None}, verifier : Verifiers \cup {None}]

FetchState ==
    [at : {"fetch"}, by : {"code", "refresh"}, uid : Uids \cup {None}, grant : Codes,
     client : Clients]

IssueState ==
    [at : {"issue"}, by : {"code", "refresh"}, uid : Uids \cup {None}, grant : Codes,
     client : Clients, user : User]

HandlerState == {Idle} \cup CallbackState \cup RedeemState \cup FetchState \cup IssueState

ASSUME OAuthAssumption ==
    /\ S256 \in [Verifiers -> Challenges]
    /\ AllScopes \subseteq Scopes
    /\ CodeTTL \in Nat /\ AccessTTL \in Nat /\ RefreshTTL \in Nat
    /\ MaxTime \in Nat /\ MaxAdmin \in Nat
    /\ None \notin Codes \cup Clients
    /\ None \notin Uris
    /\ None \notin Verifiers
    /\ None \notin Challenges
    /\ None \notin CodeDoc

VARIABLES
    handler,   \* what each handler is doing
    codeDoc,   \* what was written to mcp_auth_codes for each code drawn so far
    live,      \* the codes whose document is there now
    tokens,    \* every token signed so far
    now,       \* the clock
    admin,     \* admin command steps taken
    heldSince  \* history: the scopes the subject of a token request has held
               \* at any time since the handler took the request

oauthVars == <<handler, codeDoc, live, tokens, now, admin, heldSince>>
vars == <<directoryVars, registryVars, oauthVars>>

Init ==
    /\ DirectoryInit
    /\ RegistryInit
    /\ handler = [p \in Handlers |-> Idle]
    /\ codeDoc = [c \in Codes |-> None]
    /\ live = {}
    /\ tokens = {}
    /\ now = 0
    /\ admin = 0
    /\ heldSince = [p \in Handlers |-> {}]

Become(p, state) == handler' = [handler EXCEPT ![p] = state]
Reject(p) == Become(p, Idle)

\* The user was found and is active.
Admissible(user) == user # None /\ user.active

\* The scopes a user may be given: none without a document, or when inactive.
Effective(dir, u) ==
    IF u \in DocIds /\ Admissible(dir[u]) THEN dir[u].scopes ELSE {}

\* History: follow the subject's scopes until the handler has read them.
Observe ==
    heldSince' = [p \in Handlers |->
        CASE handler'[p].at \in {"delete", "verify", "fetch"} ->
                 heldSince[p] \cup Effective(users', handler'[p].uid)
          [] handler'[p].at = "issue" -> heldSince[p]
          [] OTHER -> {}]
------------------------------------------------------------------------------
(* handleAuthCallback.  The uid and the address are those of a Firebase ID token
   whose signature was checked; email_verified is not looked at. *)

\* getUser(uid): any error of the read counts as "not found".
Callback(p, u, c, r, ch) ==
    LET state(step) == [at |-> step, uid |-> u, client |-> c, redirect |-> r,
                        challenge |-> ch, doc |-> None]
    IN  /\ handler[p] = Idle
        /\ \/ Admissible(Stored(u)) /\ Become(p, state("resolve"))
           \/ Stored(u) = None /\ Become(p, state("preregistered"))
           \/ "read" \in Faults /\ Become(p, state("preregistered"))
        /\ UNCHANGED <<directoryVars, registryVars, codeDoc, live, tokens, now, admin>>

\* Mutant: the query does not filter by address.
PreRegisteredAnyone(u) == {d \in Existing : users[d].uid = None}

\* A document with the caller's address whose uid is still empty.
PreRegistered(u) ==
    {d \in Existing : users[d].email = EmailOf[u] /\ users[d].uid = None}

QueryPreRegistered(p) ==
    /\ handler[p].at = "preregistered"
    /\ \/ \E d \in PreRegistered(handler[p].uid) :
              Become(p, [handler[p] EXCEPT !.at = "activate", !.doc = d])
       \/ PreRegistered(handler[p].uid) = {} /\ Reject(p)
       \/ "read" \in Faults /\ Reject(p)
    /\ UNCHANGED <<directoryVars, registryVars, codeDoc, live, tokens, now, admin>>

\* The document found is linked to the caller, whatever it says by now.  A write
\* that reports an error may have been applied.
Activate(p) ==
    LET u == handler[p].uid
        d == handler[p].doc
    IN  /\ handler[p].at = "activate"
        /\ \/ /\ users' = [users EXCEPT ![d] = [@ EXCEPT !.uid = u, !.active = TRUE]]
              /\ \/ Become(p, [handler[p] EXCEPT !.at = "resolve"])
                 \/ "write" \in Faults /\ Reject(p)
           \/ "write" \in Faults /\ Reject(p) /\ UNCHANGED users
        /\ UNCHANGED <<requests, approving, sweep, registryVars, codeDoc, live,
                       tokens, now, admin>>

\* resolveClient and the redirect check.
ResolveClient(p) ==
    LET allowed == \E uri \in Resolved(handler[p].client) :
                       SameRedirect(handler[p].redirect, uri)
    IN  /\ handler[p].at = "resolve"
        /\ \/ allowed /\ Become(p, [handler[p] EXCEPT !.at = "store"])
           \/ ~allowed /\ Reject(p)
           \/ "read" \in Faults /\ Reject(p)
        /\ UNCHANGED <<directoryVars, registryVars, codeDoc, live, tokens, now, admin>>

\* A code never drawn before is stored and returned.
StoreCode(p, c) ==
    /\ handler[p].at = "store"
    /\ codeDoc[c] = None
    /\ \/ /\ codeDoc' = [codeDoc EXCEPT ![c] =
                            [uid |-> handler[p].uid, client |-> handler[p].client,
                             redirect |-> handler[p].redirect,
                             challenge |-> handler[p].challenge,
                             expires |-> now + CodeTTL]]
          /\ live' = live \cup {c}
       \/ "write" \in Faults /\ UNCHANGED <<codeDoc, live>>
    /\ Reject(p)
    /\ UNCHANGED <<directoryVars, registryVars, tokens, now, admin>>

\* The TTL policy removes a code some time after it expired.
PurgeExpired(c) ==
    /\ c \in live
    /\ now > codeDoc[c].expires
    /\ live' = live \ {c}
    /\ UNCHANGED <<directoryVars, registryVars, handler, codeDoc, tokens, now, admin>>
------------------------------------------------------------------------------
(* handleTokenExchange, grant_type=authorization_code. *)

\* The code's document is read; when it is not there the request is refused.
Redeem(p, c, client, r, v) ==
    /\ handler[p] = Idle
    /\ c \in live
    /\ Become(p, [at |-> "delete", uid |-> codeDoc[c].uid, grant |-> c,
                  client |-> client, redirect |-> r, verifier |-> v])
    /\ UNCHANGED <<directoryVars, registryVars, codeDoc, live, tokens, now, admin>>

\* Mutant: the code is left to the TTL policy.
DeleteCodeLater(p) ==
    /\ handler[p].at = "delete"
    /\ Become(p, [handler[p] EXCEPT !.at = "verify"])
    /\ UNCHANGED <<directoryVars, registryVars, codeDoc, live, tokens, now, admin>>

\* It is deleted at once; an error of the Delete is ignored.
DeleteCode(p) ==
    /\ handler[p].at = "delete"
    /\ Become(p, [handler[p] EXCEPT !.at = "verify"])
    /\ \/ live' = live \ {handler[p].grant}
       \/ "delete" \in Faults /\ UNCHANGED live
    /\ UNCHANGED <<directoryVars, registryVars, codeDoc, tokens, now, admin>>

\* Mutant: any client may redeem the code.
VerifiedAnyClient(h, doc) ==
    /\ now <= doc.expires
    /\ doc.redirect # None => doc.redirect = h.redirect
    /\ doc.challenge # None => h.verifier # None /\ S256[h.verifier] = doc.challenge

\* Mutant: expiry is left to the TTL policy.
VerifiedUndated(h, doc) ==
    /\ doc.client = h.client
    /\ doc.redirect # None => doc.redirect = h.redirect
    /\ doc.challenge # None => h.verifier # None /\ S256[h.verifier] = doc.challenge

\* Expiry, client, redirect URI and PKCE, in the code's order; a document without
\* a redirect URI would match any, but StoreCode always writes one.
Verified(h, doc) ==
    /\ now <= doc.expires
    /\ doc.client = h.client
    /\ doc.redirect # None => doc.redirect = h.redirect
    /\ doc.challenge # None => h.verifier # None /\ S256[h.verifier] = doc.challenge

VerifyCode(p) ==
    LET doc == codeDoc[handler[p].grant]
    IN  /\ handler[p].at = "verify"
        /\ IF Verified(handler[p], doc)
           THEN Become(p, [at |-> "fetch", by |-> "code", uid |-> handler[p].uid,
                           grant |-> handler[p].grant, client |-> handler[p].client])
           ELSE Reject(p)
        /\ UNCHANGED <<directoryVars, registryVars, codeDoc, live, tokens, now, admin>>

\* Mutant: the refresh token's own claims are signed again.
RefreshFromClaims(p, t) ==
    /\ handler[p] = Idle
    /\ t.kind = "refresh"
    /\ now < t.exp
    /\ Become(p, [at |-> "issue", by |-> "refresh", uid |-> t.sub, grant |-> t.grant,
                  client |-> t.client,
                  user |-> [uid |-> t.sub, email |-> EmailOf[t.sub], active |-> TRUE,
                            scopes |-> t.scopes]])
    /\ UNCHANGED <<directoryVars, registryVars, codeDoc, live, tokens, now, admin>>

(* handleTokenExchange, grant_type=refresh_token: a valid, unexpired refresh
   token; the client id is the token's own. *)
Refresh(p, t) ==
    /\ handler[p] = Idle
    /\ t.kind = "refresh"
    /\ now < t.exp
    /\ Become(p, [at |-> "fetch", by |-> "refresh", uid |-> t.sub, grant |-> t.grant,
                  client |-> t.client])
    /\ UNCHANGED <<directoryVars, registryVars, codeDoc, live, tokens, now, admin>>

\* Both grants fetch the user again; a missing or inactive user is refused.
FetchUser(p) ==
    LET user == Stored(handler[p].uid)
    IN  /\ handler[p].at = "fetch"
        /\ \/ /\ Admissible(user)
              /\ Become(p, [at |-> "issue", by |-> handler[p].by, uid |-> handler[p].uid,
                            grant |-> handler[p].grant, client |-> handler[p].client,
                            user |-> user])
           \/ ~Admissible(user) /\ Reject(p)
           \/ "read" \in Faults /\ Reject(p)
        /\ UNCHANGED <<directoryVars, registryVars, codeDoc, live, tokens, now, admin>>

\* generateJWT
Signed(kind, user, client, ttl, grant) ==
    [kind |-> kind, sub |-> user.uid, client |-> client, scopes |-> user.scopes,
     exp |-> now + ttl, grant |-> grant]

\* An access token and a refresh token are signed and returned.
IssueTokens(p) ==
    LET h == handler[p]
    IN  /\ h.at = "issue"
        /\ tokens' = tokens \cup {Signed("access", h.user, h.client, AccessTTL, h.grant),
                                  Signed("refresh", h.user, h.client, RefreshTTL, h.grant)}
        /\ Reject(p)
        /\ UNCHANGED <<directoryVars, registryVars, codeDoc, live, now, admin>>
------------------------------------------------------------------------------
\* `eldamo-admin token <uid>` signs an access token for any uid.
MintToken(u) ==
    /\ tokens' = tokens \cup {[kind |-> "access", sub |-> u, client |-> None,
                               scopes |-> AllScopes, exp |-> now + AccessTTL,
                               grant |-> None]}
    /\ UNCHANGED <<directoryVars, registryVars, handler, codeDoc, live, now>>

AdminStep ==
    /\ admin < MaxAdmin
    /\ admin' = admin + 1
    /\ \/ DirectoryNext /\ UNCHANGED <<registryVars, handler, codeDoc, live, tokens, now>>
       \/ \E u \in Uids : MintToken(u)

RegistryStep == RegistryNext /\ UNCHANGED <<directoryVars, handler, codeDoc, live, tokens,
                                            now, admin>>

Tick == /\ now < MaxTime
        /\ now' = now + 1
        /\ UNCHANGED <<directoryVars, registryVars, handler, codeDoc, live, tokens, admin>>

HandlerStep(p) ==
    \/ \E u \in Uids, c \in Clients, r \in Uris, ch \in Challenges \cup {None} :
           Callback(p, u, c, r, ch)
    \/ QueryPreRegistered(p)
    \/ Activate(p)
    \/ ResolveClient(p)
    \/ \E c \in Codes : StoreCode(p, c)
    \/ \E c \in Codes, client \in Clients, r \in Uris \cup {None},
          v \in Verifiers \cup {None} : Redeem(p, c, client, r, v)
    \/ DeleteCode(p)
    \/ VerifyCode(p)
    \/ \E t \in tokens : Refresh(p, t)
    \/ FetchUser(p)
    \/ IssueTokens(p)

Step == \/ \E p \in Handlers : HandlerStep(p)
        \/ \E c \in Codes : PurgeExpired(c)
        \/ AdminStep
        \/ RegistryStep
        \/ Tick

Next == Step /\ Observe

Spec == Init /\ [][Next]_vars
------------------------------------------------------------------------------
TypeOK ==
    /\ DirectoryTypeOK
    /\ RegistryTypeOK
    /\ handler \in [Handlers -> HandlerState]
    /\ codeDoc \in [Codes -> CodeDoc \cup {None}]
    /\ live \subseteq {c \in Codes : codeDoc[c] # None}
    /\ tokens \subseteq Token
    /\ now \in Nat
    /\ admin \in Nat
    /\ heldSince \in [Handlers -> SUBSET Scopes]

\* A document keyed by a uid belongs to that uid; one keyed by an address is
\* unclaimed or claimed by an account whose ID token has that address, whatever
\* commands and first logins interleave (handleAuthCallback, pre-register, add).
KeyedByOwner ==
    \A d \in Existing :
        /\ d \in Uids => users[d].uid = d
        /\ d \in Emails => /\ users[d].email = d
                           /\ users[d].uid # None => EmailOf[users[d].uid] = d

\* The document a first login is about to link is keyed by the caller's own
\* address (what makes KeyedByOwner inductive).
LinksGoToOwnAddress ==
    \A p \in Handlers : handler[p].at = "activate" =>
        /\ handler[p].doc \in Existing
        /\ handler[p].doc = EmailOf[handler[p].uid]

\* A request marked "approved" belongs to a user who has a document: `approve`
\* goes on to mark it only when the document was written, and nothing deletes it.
ApprovedHaveDocument ==
    \A u \in Uids : requests[u] = "approved" => users[u] # None

\* Once tokens were issued for a code, or a handler is past deleting it, no
\* later request finds the code (unless a Delete failed): the comment "enforce
\* single-use" of handleTokenExchange, for requests that follow one another.
SpentCodesAreGone ==
    /\ \A t \in tokens : t.grant \notin live
    /\ \A p \in Handlers :
          handler[p].at \in {"verify", "fetch", "issue"} => handler[p].grant \notin live

\* A token names the user and the client the code at the root of its chain of
\* refreshes was issued to: the checks of the exchange bind the client, and a
\* refresh takes both from the token it was given.
TokensFollowTheirGrant ==
    \A t \in tokens : t.grant # None =>
        /\ codeDoc[t.grant] # None
        /\ t.sub = codeDoc[t.grant].uid
        /\ t.client = codeDoc[t.grant].client

\* The same of the handlers on their way to a token: with KeyedByOwner, what
\* makes TokensFollowTheirGrant inductive.
FollowsGrant(docs, h) ==
    /\ h.at \in {"delete", "verify", "fetch", "issue"} =>
          docs[h.grant] # None /\ h.uid = docs[h.grant].uid
    /\ h.at \in {"fetch", "issue"} => h.client = docs[h.grant].client
    /\ h.at = "issue" => h.user.uid = h.uid

HandlersFollowTheirGrant == \A p \in Handlers : FollowsGrant(codeDoc, handler[p])

\* The scopes about to be signed are scopes the user held, while active, at some
\* time since the request arrived: a revocation or deactivation that precedes a
\* request is never undone by it, however reads and admin commands interleave.
ScopesAreFresh ==
    \A p \in Handlers : handler[p].at = "issue" =>
        handler[p].user.scopes \subseteq heldSince[p]

\* Until the user is read, the history holds what the subject may be given now
\* (what makes ScopesAreFresh inductive).
ScopesAreFollowed ==
    \A p \in Handlers : handler[p].at \in {"delete", "verify", "fetch"} =>
        Effective(users, handler[p].uid) \subseteq heldSince[p]

\* The inductive invariant of OAuthProofs.
IInv ==
    /\ TypeOK
    /\ KeyedByOwner /\ LinksGoToOwnAddress
    /\ HandlersFollowTheirGrant /\ TokensFollowTheirGrant
    /\ ScopesAreFollowed /\ ScopesAreFresh
    /\ "delete" \notin Faults => SpentCodesAreGone

\* A code of a registered client goes to an https or loopback http address even
\* though the authorize flow accepts URIs that were never registered (any port).
RedirectsAreRegistrable ==
    \A c \in Codes : codeDoc[c] # None /\ codeDoc[c].client \in DcrClients =>
        Registrable(codeDoc[c].redirect)

PastVerification(p, c) ==
    /\ handler[p].at \in {"fetch", "issue"}
    /\ handler[p].by = "code"
    /\ handler[p].grant = c

\* Once a code has expired and every exchange that verified it in time is over,
\* no exchange gets past verification with it again.
ExpiryCutsOff ==
    [][\A c \in Codes :
          codeDoc[c] # None /\ now > codeDoc[c].expires =>
              \A p \in Handlers : PastVerification(p, c)' => PastVerification(p, c)]_vars

\* Two exchanges of one code never both reach the point of issuing tokens
\* (oauth.go:744, "Immediate deletion of the authorization code to enforce
\* single-use").  The code does not provide this.
SingleUse ==
    \A p, q \in Handlers : \A c \in Codes :
        handler[p].at = "issue" /\ handler[q].at = "issue"
        /\ PastVerification(p, c) /\ PastVerification(q, c) => p = q

\* An exchange is not refused for a user whom the directory lists as active
\* (eldamo-admin pre-register: "Will activate automatically upon first login at
\* /mcp-auth").  The code does not provide this.
ActiveUsersAreServed ==
    [][\A p \in Handlers :
          handler[p].at = "fetch" /\ handler'[p] = Idle =>
              ~ \E d \in Existing : users[d].uid = handler[p].uid /\ users[d].active]_vars
==============================================================================
