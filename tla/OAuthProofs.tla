----------------------------- MODULE OAuthProofs -----------------------------
(***************************************************************************)
(* Theorems about the authorization server, for any number of users,         *)
(* clients, codes, scopes and concurrent handlers.                           *)
(***************************************************************************)
EXTENDS OAuth, TLAPS

\* The admin commands keep the directory's types.
LEMMA DirectoryTypes ==
    ASSUME DirectoryTypeOK, DirectoryNext
    PROVE  DirectoryTypeOK'
<1> USE DirectoryAssumption
<1>1. ASSUME NEW u \in Uids \cup {None}, NEW e \in Emails, NEW a \in BOOLEAN
      PROVE  NewUser(u, e, a) \in User
  BY <1>1 DEF NewUser, User
\* Writing a user under any id keeps the types, and removes no document.
<1>2. ASSUME NEW d \in DocIds, NEW x \in User, users' = [users EXCEPT ![d] = x],
             UNCHANGED <<requests, sweep>>, approving' \in [Uids -> {"idle", "fetched", "activated"}]
      PROVE  DirectoryTypeOK'
  <2>1. users' \in [DocIds -> User \cup {None}]
    BY <1>2 DEF DirectoryTypeOK
  <2>2. Existing \subseteq Existing'
    BY <1>2 DEF DirectoryTypeOK, Existing
  <2>3. QED
    BY <1>2, <2>1, <2>2 DEF DirectoryTypeOK
<1>3. ASSUME NEW d \in DocIds, users[d] # None,
             NEW x \in User, users' = [users EXCEPT ![d] = x],
             UNCHANGED <<requests, approving, sweep>>
      PROVE  DirectoryTypeOK'
  BY <1>2, <1>3 DEF DirectoryTypeOK
<1>4. \A d \in DocIds : users[d] # None => users[d] \in User
  BY DEF DirectoryTypeOK
<1>5. Uids \subseteq DocIds /\ Emails \subseteq DocIds
  BY DEF DocIds
<1>6. ASSUME NEW u \in Uids, RequestAccess(u) PROVE DirectoryTypeOK'
  BY <1>6 DEF RequestAccess, DirectoryTypeOK, Existing
<1>7. ASSUME NEW u \in Uids, ApproveFetch(u) PROVE DirectoryTypeOK'
  BY <1>7 DEF ApproveFetch, DirectoryTypeOK, Existing
<1>8. ASSUME NEW u \in Uids, NEW e \in Emails, ApproveActivate(u, e) PROVE DirectoryTypeOK'
  <2>1. approving' \in [Uids -> {"idle", "fetched", "activated"}]
    BY <1>8 DEF ApproveActivate, DirectoryTypeOK
  <2>2. NewUser(u, e, TRUE) \in User
    BY <1>1
  <2>3. CASE users' = [users EXCEPT ![u] = NewUser(u, e, TRUE)]
    BY <1>2, <1>5, <1>8, <2>1, <2>2, <2>3 DEF ApproveActivate
  <2>4. CASE UNCHANGED users
    BY <1>8, <2>1, <2>4 DEF ApproveActivate, DirectoryTypeOK, Existing
  <2>5. QED
    BY <1>8, <2>3, <2>4 DEF ApproveActivate
<1>9. ASSUME NEW u \in Uids, ApproveMark(u) PROVE DirectoryTypeOK'
  BY <1>9 DEF ApproveMark, DirectoryTypeOK, Existing
<1>10. ASSUME NEW u \in Uids, NEW e \in Emails, Add(u, e) PROVE DirectoryTypeOK'
  <2>1. NewUser(u, e, TRUE) \in User
    BY <1>1
  <2>2. QED
    BY <1>2, <1>5, <1>10, <2>1 DEF Add, DirectoryTypeOK
<1>11. ASSUME NEW u \in Uids, NEW s \in Scopes, Grant(u, s) PROVE DirectoryTypeOK'
  <2>1. [users[u] EXCEPT !.scopes = @ \cup {s}] \in User
    BY <1>4, <1>5, <1>11 DEF Grant, User
  <2>2. QED
    BY <1>3, <1>5, <1>11, <2>1 DEF Grant, DirectoryTypeOK
<1>12. ASSUME NEW u \in Uids, NEW s \in Scopes, RevokeScope(u, s) PROVE DirectoryTypeOK'
  <2>1. [users[u] EXCEPT !.scopes = @ \ {s}] \in User
    BY <1>4, <1>5, <1>12 DEF RevokeScope, User
  <2>2. QED
    BY <1>3, <1>5, <1>12, <2>1 DEF RevokeScope, DirectoryTypeOK
<1>13. ASSUME NEW e \in Emails, PreRegister(e) PROVE DirectoryTypeOK'
  <2>1. NewUser(None, e, FALSE) \in User
    BY <1>1
  <2>2. QED
    BY <1>2, <1>5, <1>13, <2>1 DEF PreRegister, DirectoryTypeOK
<1>14. ASSUME NEW S \in SUBSET Scopes, GrantAllList(S) PROVE DirectoryTypeOK'
  BY <1>14 DEF GrantAllList, DirectoryTypeOK, Existing, Sweep
<1>15. ASSUME NEW d \in DocIds, GrantAllUpdate(d) PROVE DirectoryTypeOK'
  <2>1. users[d] \in User /\ sweep \in Sweep
    BY <1>4, <1>15 DEF GrantAllUpdate, DirectoryTypeOK, Existing
  <2>2. [users[d] EXCEPT !.scopes = @ \cup sweep.scopes] \in User
    BY <2>1 DEF User, Sweep
  <2>3. users' \in [DocIds -> User \cup {None}] /\ Existing \subseteq Existing'
    <3>1. CASE users' = [users EXCEPT ![d].scopes = @ \cup sweep.scopes]
      <4>1. users' = [users EXCEPT ![d] = [users[d] EXCEPT !.scopes = @ \cup sweep.scopes]]
        BY <2>1, <3>1 DEF User
      <4>2. QED
        BY <1>2, <2>2, <4>1 DEF DirectoryTypeOK, Existing
    <3>2. CASE UNCHANGED users
      BY <3>2 DEF DirectoryTypeOK, Existing
    <3>3. QED
      BY <1>15, <3>1, <3>2 DEF GrantAllUpdate
  <2>4. sweep' \in Sweep /\ sweep'.todo \subseteq sweep.todo
    BY <1>15, <2>1 DEF GrantAllUpdate, Sweep
  <2>5. QED
    BY <1>15, <2>3, <2>4 DEF GrantAllUpdate, DirectoryTypeOK
<1>16. ASSUME NEW d \in DocIds, Deactivate(d) PROVE DirectoryTypeOK'
  <2>1. [users[d] EXCEPT !.active = FALSE] \in User
    BY <1>4, <1>16 DEF Deactivate, User
  <2>2. QED
    BY <1>3, <1>16, <2>1 DEF Deactivate, DirectoryTypeOK
<1>17. ASSUME GrantAllDone PROVE DirectoryTypeOK'
  BY <1>17 DEF GrantAllDone, DirectoryTypeOK, Existing
<1>18. QED
  BY <1>6, <1>7, <1>8, <1>9, <1>10, <1>11, <1>12, <1>13, <1>14, <1>15, <1>16, <1>17
     DEF DirectoryNext

\* What a handler's record holds, by the call it is about to make.
LEMMA HandlerShape ==
    ASSUME TypeOK, NEW p \in Handlers
    PROVE  /\ handler[p].at \in {"preregistered", "activate", "resolve", "store"}
                  => handler[p] \in CallbackState
           /\ handler[p].at \in {"delete", "verify"} => handler[p] \in RedeemState
           /\ handler[p].at = "fetch" => handler[p] \in FetchState
           /\ handler[p].at = "issue" => handler[p] \in IssueState
           /\ handler[p].at = "idle" => handler[p] = Idle
<1>1. handler[p] \in HandlerState
  BY DEF TypeOK
<1>2. Idle.at = "idle"
  BY DEF Idle
<1>3. \A x \in CallbackState : x.at \in {"preregistered", "activate", "resolve", "store"}
  BY DEF CallbackState
<1>4. \A x \in RedeemState : x.at \in {"delete", "verify"}
  BY DEF RedeemState
<1>5. \A x \in FetchState : x.at = "fetch"
  BY DEF FetchState
<1>6. \A x \in IssueState : x.at = "issue"
  BY DEF IssueState
<1>7. QED
  BY <1>1, <1>2, <1>3, <1>4, <1>5, <1>6 DEF HandlerState

\* Giving a handler a well-typed record keeps `handler` well typed (Become).
LEMMA BecomeTypes ==
    ASSUME handler \in [Handlers -> HandlerState], NEW p \in Handlers,
           NEW s \in HandlerState, Become(p, s)
    PROVE  handler' \in [Handlers -> HandlerState]
BY DEF Become

\* Everything TypeOK says but for the history variable.
TypesOfState ==
    /\ DirectoryTypeOK
    /\ RegistryTypeOK
    /\ handler \in [Handlers -> HandlerState]
    /\ codeDoc \in [Codes -> CodeDoc \cup {None}]
    /\ live \subseteq {c \in Codes : codeDoc[c] # None}
    /\ tokens \subseteq Token
    /\ now \in Nat
    /\ admin \in Nat

\* A step that leaves the directory alone keeps its types.
LEMMA FrameTypes ==
    ASSUME TypeOK, UNCHANGED <<directoryVars, registryVars, codeDoc, live, tokens, now, admin>>,
           NEW p \in Handlers, NEW s \in HandlerState, Become(p, s)
    PROVE  TypesOfState'
BY BecomeTypes
   DEF TypeOK, TypesOfState, directoryVars, registryVars, DirectoryTypeOK, RegistryTypeOK, Existing

\* The directory's type predicate depends on its variables only.
LEMMA DirectoryFrame ==
    ASSUME DirectoryTypeOK, UNCHANGED directoryVars
    PROVE  DirectoryTypeOK'
BY DEF directoryVars, DirectoryTypeOK, Existing

\* The registry's type predicate depends on its variables only.
LEMMA RegistryFrame ==
    ASSUME RegistryTypeOK, UNCHANGED registryVars
    PROVE  RegistryTypeOK'
BY DEF registryVars, RegistryTypeOK

\* Dynamic client registration (RegisterWrite, RegisterAnswer) keeps its types.
LEMMA RegistryTypes ==
    ASSUME RegistryTypeOK, RegistryNext
    PROVE  RegistryTypeOK'
<1>1. ASSUME NEW uris \in Submissions PROVE Listed(uris) \in SUBSET Uris
  <2>1. uris \in Seq(Uris)
    BY RegistryAssumption
  <2>2. QED
    BY <2>1 DEF Listed
<1>2. ASSUME NEW c \in DcrClients, NEW uris \in Submissions, RegisterWrite(c, uris)
      PROVE  RegistryTypeOK'
  BY <1>1, <1>2 DEF RegisterWrite, RegistryTypeOK
<1>3. ASSUME NEW c \in DcrClients, RegisterAnswer(c) PROVE RegistryTypeOK'
  BY <1>3 DEF RegisterAnswer, RegistryTypeOK
<1>4. QED
  BY <1>2, <1>3 DEF RegistryNext

\* A token request gives a well-typed handler record.
LEMMA VerifyTypes ==
    ASSUME TypeOK, NEW p \in Handlers, VerifyCode(p)
    PROVE  TypesOfState'
<1>1. handler[p] \in RedeemState
  BY HandlerShape DEF VerifyCode
<1>2. [at |-> "fetch", by |-> "code", uid |-> handler[p].uid,
       grant |-> handler[p].grant, client |-> handler[p].client] \in HandlerState
  BY <1>1 DEF RedeemState, FetchState, HandlerState
<1>3. Idle \in HandlerState
  BY DEF HandlerState
<1>4. CASE Verified(handler[p], codeDoc[handler[p].grant])
  BY <1>2, <1>4, FrameTypes DEF VerifyCode
<1>5. CASE ~Verified(handler[p], codeDoc[handler[p].grant])
  BY <1>3, <1>5, FrameTypes DEF VerifyCode, Reject
<1>6. QED
  BY <1>4, <1>5

\* The second user lookup of handleTokenExchange yields a well-typed record.
LEMMA FetchTypes ==
    ASSUME TypeOK, NEW p \in Handlers, FetchUser(p)
    PROVE  TypesOfState'
<1>1. handler[p] \in FetchState
  BY HandlerShape DEF FetchUser
<1>2. ASSUME Admissible(Stored(handler[p].uid))
      PROVE  [at |-> "issue", by |-> handler[p].by, uid |-> handler[p].uid,
              grant |-> handler[p].grant, client |-> handler[p].client,
              user |-> Stored(handler[p].uid)] \in HandlerState
  <2>1. Stored(handler[p].uid) \in User
    BY <1>2 DEF Admissible, Stored, TypeOK, DirectoryTypeOK
  <2>2. QED
    BY <1>1, <2>1 DEF FetchState, IssueState, HandlerState
<1>3. Idle \in HandlerState
  BY DEF HandlerState
<1>4. CASE Reject(p)
  BY <1>3, <1>4, FrameTypes DEF FetchUser, Reject
<1>5. CASE ~Reject(p)
  BY <1>2, <1>5, FrameTypes DEF FetchUser
<1>6. QED
  BY <1>4, <1>5

\* generateJWT signs well-typed access and refresh tokens.
LEMMA IssueTypes ==
    ASSUME TypeOK, NEW p \in Handlers, IssueTokens(p)
    PROVE  TypesOfState'
<1>1. handler[p] \in IssueState /\ now \in Nat
  BY HandlerShape DEF IssueTokens, TypeOK
<1>2. Signed("access", handler[p].user, handler[p].client, AccessTTL, handler[p].grant) \in Token
  BY <1>1, OAuthAssumption DEF Signed, IssueState, User, Token
<1>3. Signed("refresh", handler[p].user, handler[p].client, RefreshTTL, handler[p].grant) \in Token
  BY <1>1, OAuthAssumption DEF Signed, IssueState, User, Token
<1>4. tokens' \subseteq Token
  BY <1>2, <1>3 DEF IssueTokens, TypeOK
<1>5. Idle \in HandlerState
  BY DEF HandlerState
<1>6. handler' \in [Handlers -> HandlerState]
  BY <1>5, BecomeTypes DEF IssueTokens, Reject, TypeOK
<1>7. DirectoryTypeOK' /\ RegistryTypeOK'
  BY DirectoryFrame, RegistryFrame DEF IssueTokens, TypeOK
<1>8. QED
  BY <1>4, <1>6, <1>7 DEF IssueTokens, TypeOK, TypesOfState

\* The first lookup of handleAuthCallback yields a well-typed record.
LEMMA CallbackTypes ==
    ASSUME TypeOK, NEW p \in Handlers, NEW u \in Uids, NEW c \in Clients, NEW r \in Uris,
           NEW ch \in Challenges \cup {None}, Callback(p, u, c, r, ch)
    PROVE  TypesOfState'
<1> DEFINE state(step) == [at |-> step, uid |-> u, client |-> c, redirect |-> r,
                           challenge |-> ch, doc |-> None]
<1>1. state("resolve") \in HandlerState /\ state("preregistered") \in HandlerState
  BY DEF CallbackState, HandlerState
<1>2. Become(p, state("resolve")) \/ Become(p, state("preregistered"))
  BY DEF Callback
<1> HIDE DEF state
<1>3. QED
  BY <1>1, <1>2, FrameTypes DEF Callback

\* The pre-registration query picks a document id or none.
LEMMA QueryTypes ==
    ASSUME TypeOK, NEW p \in Handlers, QueryPreRegistered(p)
    PROVE  TypesOfState'
<1>1. handler[p] \in CallbackState
  BY HandlerShape DEF QueryPreRegistered
<1>2. ASSUME NEW d \in PreRegistered(handler[p].uid)
      PROVE  [handler[p] EXCEPT !.at = "activate", !.doc = d] \in HandlerState
  BY <1>1, <1>2 DEF CallbackState, HandlerState, PreRegistered, Existing
<1>3. Idle \in HandlerState
  BY DEF HandlerState
<1>4. CASE Reject(p)
  BY <1>3, <1>4, FrameTypes DEF QueryPreRegistered, Reject
<1>5. CASE ~Reject(p)
  <2>1. PICK d \in PreRegistered(handler[p].uid) :
             Become(p, [handler[p] EXCEPT !.at = "activate", !.doc = d])
    BY <1>5 DEF QueryPreRegistered
  <2>2. QED
    BY <1>2, <2>1, FrameTypes DEF QueryPreRegistered
<1>6. QED
  BY <1>4, <1>5

\* The redirect check of handleAuthCallback only moves the handler on or ends it.
LEMMA ResolveTypes ==
    ASSUME TypeOK, NEW p \in Handlers, ResolveClient(p)
    PROVE  TypesOfState'
<1>1. handler[p] \in CallbackState
  BY HandlerShape DEF ResolveClient
<1>2. [handler[p] EXCEPT !.at = "store"] \in HandlerState
  BY <1>1 DEF CallbackState, HandlerState
<1>3. Idle \in HandlerState
  BY DEF HandlerState
<1>4. Become(p, [handler[p] EXCEPT !.at = "store"]) \/ Become(p, Idle)
  BY DEF ResolveClient, Reject
<1>5. QED
  BY <1>2, <1>3, <1>4, FrameTypes DEF ResolveClient

\* Storing a code keeps `live` within the codes that have a document.
LEMMA StoreTypes ==
    ASSUME TypeOK, NEW p \in Handlers, NEW c \in Codes, StoreCode(p, c)
    PROVE  TypesOfState'
<1>1. handler[p] \in CallbackState
  BY HandlerShape DEF StoreCode
<1>2. Idle \in HandlerState
  BY DEF HandlerState
<1>3. handler' \in [Handlers -> HandlerState]
  BY <1>2, BecomeTypes DEF StoreCode, Reject, TypeOK
<1>4. [uid |-> handler[p].uid, client |-> handler[p].client, redirect |-> handler[p].redirect,
       challenge |-> handler[p].challenge, expires |-> now + CodeTTL] \in CodeDoc
  BY <1>1, OAuthAssumption DEF CallbackState, CodeDoc, TypeOK
<1>5. codeDoc' \in [Codes -> CodeDoc \cup {None}]
  BY <1>4 DEF StoreCode, TypeOK
<1>6. live' \subseteq {x \in Codes : codeDoc'[x] # None}
  BY <1>4, OAuthAssumption DEF StoreCode, TypeOK
<1>7. DirectoryTypeOK' /\ RegistryTypeOK'
  BY DirectoryFrame, RegistryFrame DEF StoreCode, TypeOK
<1>8. QED
  BY <1>3, <1>5, <1>6, <1>7 DEF StoreCode, TypeOK, TypesOfState

\* The Get of an authorization code yields a well-typed record.
LEMMA RedeemTypes ==
    ASSUME TypeOK, NEW p \in Handlers, NEW c \in Codes, NEW client \in Clients,
           NEW r \in Uris \cup {None}, NEW v \in Verifiers \cup {None},
           Redeem(p, c, client, r, v)
    PROVE  TypesOfState'
<1>1. codeDoc[c] \in CodeDoc
  BY DEF Redeem, TypeOK
<1>2. [at |-> "delete", uid |-> codeDoc[c].uid, grant |-> c,
       client |-> client, redirect |-> r, verifier |-> v] \in HandlerState
  BY <1>1 DEF CodeDoc, RedeemState, HandlerState
<1>3. QED
  BY <1>2, FrameTypes DEF Redeem

\* The Delete of a code keeps handler and `live` well typed.
LEMMA DeleteTypes ==
    ASSUME TypeOK, NEW p \in Handlers, DeleteCode(p)
    PROVE  TypesOfState'
<1>1. handler[p] \in RedeemState
  BY HandlerShape DEF DeleteCode
<1>2. [handler[p] EXCEPT !.at = "verify"] \in HandlerState
  BY <1>1 DEF RedeemState, HandlerState
<1>3. handler' \in [Handlers -> HandlerState]
  BY <1>2, BecomeTypes DEF DeleteCode, TypeOK
<1>4. DirectoryTypeOK' /\ RegistryTypeOK'
  BY DirectoryFrame, RegistryFrame DEF DeleteCode, TypeOK
<1>5. QED
  BY <1>3, <1>4 DEF DeleteCode, TypeOK, TypesOfState

\* A refresh token yields a well-typed request for a new pair.
LEMMA RefreshTypes ==
    ASSUME TypeOK, NEW p \in Handlers, NEW t \in tokens, Refresh(p, t)
    PROVE  TypesOfState'
<1>1. t \in Token /\ t.kind = "refresh"
  BY DEF Refresh, TypeOK
<1>2. t.sub \in Uids \cup {None} /\ t.client \in Clients /\ t.grant \in Codes
  BY <1>1 DEF Token
<1>3. [at |-> "fetch", by |-> "refresh", uid |-> t.sub, grant |-> t.grant,
       client |-> t.client] \in HandlerState
  BY <1>2 DEF FetchState, HandlerState
<1>4. QED
  BY <1>3, FrameTypes DEF Refresh

\* The activation writes to a document that exists.
LEMMA ActivateTypes ==
    ASSUME TypeOK, LinksGoToOwnAddress, NEW p \in Handlers, Activate(p)
    PROVE  TypesOfState'
<1> DEFINE d == handler[p].doc
           u == handler[p].uid
<1>1. handler[p] \in CallbackState
  BY HandlerShape DEF Activate
<1>2. d \in DocIds /\ users[d] \in User /\ u \in Uids
  BY <1>1 DEF Activate, LinksGoToOwnAddress, Existing, TypeOK, DirectoryTypeOK, CallbackState
<1>3. [users[d] EXCEPT !.uid = u, !.active = TRUE] \in User
  BY <1>2 DEF User
<1>4. users' \in [DocIds -> User \cup {None}] /\ Existing \subseteq Existing'
  BY <1>2, <1>3, DirectoryAssumption DEF Activate, TypeOK, DirectoryTypeOK, Existing
<1>5. DirectoryTypeOK'
  BY <1>4 DEF Activate, TypeOK, DirectoryTypeOK
<1>6. [handler[p] EXCEPT !.at = "resolve"] \in HandlerState /\ Idle \in HandlerState
  BY <1>1 DEF CallbackState, HandlerState
<1>7. Become(p, [handler[p] EXCEPT !.at = "resolve"]) \/ Become(p, Idle)
  BY DEF Activate, Reject
<1>8. handler' \in [Handlers -> HandlerState]
  BY <1>6, <1>7, BecomeTypes DEF TypeOK
<1>9. QED
  BY <1>5, <1>8, RegistryFrame DEF Activate, TypeOK, TypesOfState

\* The admin commands, minting a token included, keep the types.
LEMMA AdminTypes ==
    ASSUME TypeOK, AdminStep
    PROVE  TypesOfState'
<1>1. admin' \in Nat
  BY DEF AdminStep, TypeOK
<1>2. CASE DirectoryNext /\ UNCHANGED <<registryVars, handler, codeDoc, live, tokens, now>>
  BY <1>1, <1>2, DirectoryTypes, RegistryFrame DEF TypeOK, TypesOfState
<1>3. ASSUME NEW u \in Uids, MintToken(u) PROVE TypesOfState'
  <2>1. [kind |-> "access", sub |-> u, client |-> None, scopes |-> AllScopes,
         exp |-> now + AccessTTL, grant |-> None] \in Token
    BY OAuthAssumption DEF Token, TypeOK
  <2>2. QED
    BY <1>1, <1>3, <2>1, DirectoryFrame, RegistryFrame DEF MintToken, TypeOK, TypesOfState
<1>4. QED
  BY <1>2, <1>3 DEF AdminStep

\* One step of anything keeps the types.
LEMMA StepTypes ==
    ASSUME TypeOK, LinksGoToOwnAddress, Step
    PROVE  TypesOfState'
<1>1. ASSUME NEW p \in Handlers, HandlerStep(p) PROVE TypesOfState'
  BY <1>1, CallbackTypes, QueryTypes, ActivateTypes, ResolveTypes, StoreTypes, RedeemTypes,
     DeleteTypes, VerifyTypes, RefreshTypes, FetchTypes, IssueTypes DEF HandlerStep
<1>2. ASSUME NEW c \in Codes, PurgeExpired(c) PROVE TypesOfState'
  BY <1>2, DirectoryFrame, RegistryFrame DEF PurgeExpired, TypeOK, TypesOfState
<1>3. CASE RegistryStep
  BY <1>3, DirectoryFrame, RegistryTypes DEF RegistryStep, TypeOK, TypesOfState
<1>4. CASE Tick
  BY <1>4, DirectoryFrame, RegistryFrame DEF Tick, TypeOK, TypesOfState
<1>5. QED
  BY <1>1, <1>2, <1>3, <1>4, AdminTypes DEF Step

\* The history variable is typed by the state reached.
LEMMA HistoryTypes ==
    ASSUME TypeOK, TypesOfState', Observe
    PROVE  TypeOK'
<1>1. ASSUME NEW u PROVE Effective(users', u) \subseteq Scopes
  BY DEF Effective, Admissible, TypesOfState, DirectoryTypeOK, User
<1>2. heldSince' \in [Handlers -> SUBSET Scopes]
  <2>1. \A p \in Handlers : heldSince[p] \in SUBSET Scopes
    BY DEF TypeOK
  <2>2. QED
    BY <1>1, <2>1 DEF Observe
<1>3. QED
  BY <1>2 DEF TypesOfState, TypeOK

\* The directory's documents stay with their owners under every admin command.
LEMMA DirectoryOwners ==
    ASSUME DirectoryTypeOK, KeyedByOwner, DirectoryNext
    PROVE  KeyedByOwner' /\ Existing \subseteq Existing'
<1> USE DirectoryAssumption DEF KeyedByOwner, Existing
<1>1. Uids \subseteq DocIds /\ Emails \subseteq DocIds
  BY DEF DocIds
<1>2. users \in [DocIds -> User \cup {None}]
  BY DEF DirectoryTypeOK
<1>3. CASE UNCHANGED users
  BY <1>3
\* A document is replaced by a new one of its owner ...
<1>4. ASSUME NEW d \in DocIds, NEW e \in Emails, NEW uid \in Uids \cup {None}, NEW a \in BOOLEAN,
             users' = [users EXCEPT ![d] = NewUser(uid, e, a)],
             d \in Uids => uid = d, d \in Emails => e = d /\ uid = None
      PROVE  KeyedByOwner' /\ Existing \subseteq Existing'
  <2>1. NewUser(uid, e, a) \in User
    BY DEF NewUser, User
  <2>2. NewUser(uid, e, a).uid = uid /\ NewUser(uid, e, a).email = e
    BY DEF NewUser
  <2>3. QED
    BY <1>2, <1>4, <2>1, <2>2
\* ... or keeps its uid and address.
<1>5. ASSUME NEW d \in Existing, NEW x \in User, users' = [users EXCEPT ![d] = x],
             x.uid = users[d].uid, x.email = users[d].email
      PROVE  KeyedByOwner' /\ Existing \subseteq Existing'
  BY <1>2, <1>5
<1>6. \A d \in Existing : d \in DocIds /\ users[d] \in User
  BY <1>2
<1>7. ASSUME NEW u \in Uids, NEW e \in Emails, ApproveActivate(u, e) \/ Add(u, e)
      PROVE  KeyedByOwner' /\ Existing \subseteq Existing'
  <2>1. u \in DocIds /\ u \notin Emails
    BY <1>1
  <2>2. users' = [users EXCEPT ![u] = NewUser(u, e, TRUE)] \/ UNCHANGED users
    BY <1>7 DEF ApproveActivate, Add
  <2> HIDE DEF KeyedByOwner, Existing
  <2>3. QED
    BY <1>3, <1>4, <2>1, <2>2
<1>8. ASSUME NEW e \in Emails, PreRegister(e)
      PROVE  KeyedByOwner' /\ Existing \subseteq Existing'
  BY <1>1, <1>4, <1>8 DEF PreRegister
<1>9. ASSUME NEW u \in Uids, NEW s \in Scopes, Grant(u, s) \/ RevokeScope(u, s)
      PROVE  KeyedByOwner' /\ Existing \subseteq Existing'
  <2>1. u \in Existing
    BY <1>1, <1>9 DEF Grant, RevokeScope
  <2> DEFINE more == [users[u] EXCEPT !.scopes = @ \cup {s}]
             less == [users[u] EXCEPT !.scopes = @ \ {s}]
  <2>2. more \in User /\ more.uid = users[u].uid /\ more.email = users[u].email
    BY <1>6, <2>1 DEF User
  <2>3. less \in User /\ less.uid = users[u].uid /\ less.email = users[u].email
    BY <1>6, <2>1 DEF User
  <2>4. users' = [users EXCEPT ![u] = more] \/ users' = [users EXCEPT ![u] = less]
    BY <1>9 DEF Grant, RevokeScope
  <2> HIDE DEF more, less
  <2>5. QED
    BY <1>5, <2>1, <2>2, <2>3, <2>4
<1>10. ASSUME NEW d \in DocIds, GrantAllUpdate(d) \/ Deactivate(d), ~UNCHANGED users
       PROVE  KeyedByOwner' /\ Existing \subseteq Existing'
  <2>1. d \in Existing
    BY <1>10 DEF GrantAllUpdate, Deactivate, DirectoryTypeOK
  <2>2. sweep # None => sweep.scopes \subseteq Scopes
    BY DEF DirectoryTypeOK, Sweep
  <2> DEFINE more == [users[d] EXCEPT !.scopes = @ \cup sweep.scopes]
             off  == [users[d] EXCEPT !.active = FALSE]
  <2>3. sweep # None => more \in User /\ more.uid = users[d].uid /\ more.email = users[d].email
    BY <1>6, <2>1, <2>2 DEF User
  <2> HIDE DEF KeyedByOwner, Existing
  <2>4. off \in User /\ off.uid = users[d].uid /\ off.email = users[d].email
    BY <1>6, <2>1 DEF User
  <2>5. \/ sweep # None /\ users' = [users EXCEPT ![d] = more]
        \/ users' = [users EXCEPT ![d] = off]
    BY <1>10 DEF GrantAllUpdate, Deactivate
  <2> HIDE DEF more, off
  <2>6. QED
    BY <1>5, <2>1, <2>3, <2>4, <2>5
<1>11. QED
  BY <1>3, <1>7, <1>8, <1>9, <1>10
     DEF DirectoryNext, RequestAccess, ApproveFetch, ApproveMark, GrantAllList, GrantAllDone

\* A handler that neither links a document nor becomes ready to link one
\* disturbs no owner.
LEMMA OwnersFrame ==
    ASSUME TypeOK, KeyedByOwner, LinksGoToOwnAddress, UNCHANGED users,
           NEW p \in Handlers, NEW s \in HandlerState, Become(p, s), s.at # "activate"
    PROVE  KeyedByOwner' /\ LinksGoToOwnAddress'
BY DEF TypeOK, KeyedByOwner, LinksGoToOwnAddress, Existing, Become

\* First logins link a document only to the account whose address it carries.
LEMMA QueryOwners ==
    ASSUME TypeOK, KeyedByOwner, LinksGoToOwnAddress, NEW p \in Handlers, QueryPreRegistered(p)
    PROVE  KeyedByOwner' /\ LinksGoToOwnAddress'
<1>1. handler[p] \in CallbackState
  BY HandlerShape DEF QueryPreRegistered
<1>2. UNCHANGED users
  BY DEF QueryPreRegistered, directoryVars
<1>3. CASE Reject(p)
  BY <1>2, <1>3, OwnersFrame DEF Reject, Idle, HandlerState
<1>4. CASE ~Reject(p)
  <2>1. PICK d \in PreRegistered(handler[p].uid) :
             Become(p, [handler[p] EXCEPT !.at = "activate", !.doc = d])
    BY <1>4 DEF QueryPreRegistered
  <2>2. d \in Existing /\ users[d].email = EmailOf[handler[p].uid] /\ users[d].uid = None
    BY DEF PreRegistered
  <2>3. d \notin Uids
    BY <2>2, DirectoryAssumption DEF KeyedByOwner, DocIds
  <2>4. d = EmailOf[handler[p].uid]
    BY <2>2, <2>3 DEF KeyedByOwner, Existing, DocIds
  <2>5. handler' = [handler EXCEPT ![p] = [handler[p] EXCEPT !.at = "activate", !.doc = d]]
    BY <2>1 DEF Become
  <2>6. handler'[p].doc = d /\ handler'[p].uid = handler[p].uid
    BY <1>1, <2>5 DEF TypeOK, CallbackState
  <2>7. LinksGoToOwnAddress'
    BY <1>2, <2>2, <2>4, <2>5, <2>6 DEF LinksGoToOwnAddress, TypeOK, Existing
  <2>8. QED
    BY <1>2, <2>7 DEF KeyedByOwner, Existing
<1>5. QED
  BY <1>3, <1>4

\* Linking a pre-registered document (Activate) keeps every document with its owner.
LEMMA ActivateOwners ==
    ASSUME TypeOK, KeyedByOwner, LinksGoToOwnAddress, NEW p \in Handlers, Activate(p)
    PROVE  KeyedByOwner' /\ LinksGoToOwnAddress'
<1> DEFINE d == handler[p].doc
           u == handler[p].uid
<1>1. handler[p] \in CallbackState
  BY HandlerShape DEF Activate
<1>2. d \in Existing /\ d = EmailOf[u] /\ u \in Uids
  BY <1>1 DEF Activate, LinksGoToOwnAddress, CallbackState
<1>3. d \in Emails /\ d \notin Uids /\ users[d] \in User
  BY <1>2, DirectoryAssumption DEF TypeOK, DirectoryTypeOK, Existing
<1>4. CASE UNCHANGED users /\ Reject(p)
  BY <1>4, OwnersFrame DEF Reject, Idle, HandlerState
<1>5. CASE /\ users' = [users EXCEPT ![d] = [users[d] EXCEPT !.uid = u, !.active = TRUE]]
           /\ Become(p, [handler[p] EXCEPT !.at = "resolve"]) \/ Reject(p)
  <2>1. [users[d] EXCEPT !.uid = u, !.active = TRUE] \in User
    BY <1>2, <1>3 DEF User
  <2>2. /\ users'[d] \in User
        /\ users'[d].uid = u
        /\ users'[d].email = users[d].email
        /\ \A x \in DocIds \ {d} : users'[x] = users[x]
    BY <1>2, <1>3, <1>5, <2>1 DEF User, TypeOK, DirectoryTypeOK, Existing
  <2>3. users'[d] # None
    BY <2>2, DirectoryAssumption
  <2>4. Existing' = Existing
    BY <1>2, <2>2, <2>3 DEF Existing
  <2>5. KeyedByOwner'
    BY <1>2, <1>3, <2>2, <2>4 DEF KeyedByOwner, Existing
  <2>6. [handler[p] EXCEPT !.at = "resolve"].at = "resolve"
    BY <1>1 DEF CallbackState
  <2>7. Idle.at = "idle"
    BY DEF Idle
  <2>8. PICK s : Become(p, s) /\ s.at # "activate"
    BY <1>5, <2>6, <2>7 DEF Reject
  <2>9. LinksGoToOwnAddress'
    BY <2>4, <2>8 DEF Become, LinksGoToOwnAddress, TypeOK
  <2>10. QED
    BY <2>5, <2>9
<1>6. QED
  BY <1>4, <1>5 DEF Activate

\* What a step may do to the owners of documents.
LEMMA StepOwners ==
    ASSUME TypeOK, KeyedByOwner, LinksGoToOwnAddress, Step
    PROVE  KeyedByOwner' /\ LinksGoToOwnAddress'
<1>1. ASSUME UNCHANGED users, UNCHANGED handler
      PROVE  KeyedByOwner' /\ LinksGoToOwnAddress'
  BY <1>1 DEF KeyedByOwner, LinksGoToOwnAddress, Existing
<1>2. ASSUME NEW p \in Handlers, NEW s, UNCHANGED users, Become(p, s), s.at # "activate"
      PROVE  KeyedByOwner' /\ LinksGoToOwnAddress'
  BY <1>2 DEF TypeOK, KeyedByOwner, LinksGoToOwnAddress, Existing, Become
<1>3. ASSUME NEW p \in Handlers, Reject(p), UNCHANGED users
      PROVE  KeyedByOwner' /\ LinksGoToOwnAddress'
  BY <1>2, <1>3 DEF Reject, Idle
<1>4. ASSUME NEW p \in Handlers, HandlerStep(p), ~QueryPreRegistered(p), ~Activate(p)
      PROVE  KeyedByOwner' /\ LinksGoToOwnAddress'
  <2>1. UNCHANGED users
    BY <1>4 DEF HandlerStep, Callback, ResolveClient, StoreCode, Redeem, DeleteCode,
                VerifyCode, Refresh, FetchUser, IssueTokens, directoryVars
  <2>2. ASSUME ~Reject(p)
        PROVE  \E s : Become(p, s) /\ s.at # "activate"
    <3>1. ASSUME NEW u \in Uids, NEW c \in Clients, NEW r \in Uris,
                 NEW ch \in Challenges \cup {None}, Callback(p, u, c, r, ch)
          PROVE  \E s : Become(p, s) /\ s.at # "activate"
      BY <3>1 DEF Callback
    <3>2. ASSUME ResolveClient(p) PROVE \E s : Become(p, s) /\ s.at # "activate"
      <4>1. handler[p] \in CallbackState
        BY <3>2, HandlerShape DEF ResolveClient
      <4>2. [handler[p] EXCEPT !.at = "store"].at # "activate"
        BY <4>1 DEF CallbackState
      <4>3. QED
        BY <2>2, <3>2, <4>2 DEF ResolveClient
    <3>3. ASSUME NEW c \in Codes, StoreCode(p, c) PROVE FALSE
      BY <2>2, <3>3 DEF StoreCode
    <3>4. ASSUME NEW c \in Codes, NEW client \in Clients, NEW r \in Uris \cup {None},
                 NEW v \in Verifiers \cup {None}, Redeem(p, c, client, r, v)
          PROVE  \E s : Become(p, s) /\ s.at # "activate"
      BY <3>4 DEF Redeem
    <3>5. ASSUME DeleteCode(p) PROVE \E s : Become(p, s) /\ s.at # "activate"
      <4>1. handler[p] \in RedeemState
        BY <3>5, HandlerShape DEF DeleteCode
      <4>2. [handler[p] EXCEPT !.at = "verify"].at # "activate"
        BY <4>1 DEF RedeemState
      <4>3. QED
        BY <3>5, <4>2 DEF DeleteCode
    <3>6. ASSUME VerifyCode(p) PROVE \E s : Become(p, s) /\ s.at # "activate"
      BY <2>2, <3>6 DEF VerifyCode
    <3>7. ASSUME NEW t \in tokens, Refresh(p, t) PROVE \E s : Become(p, s) /\ s.at # "activate"
      BY <3>7 DEF Refresh
    <3>8. ASSUME FetchUser(p) PROVE \E s : Become(p, s) /\ s.at # "activate"
      BY <2>2, <3>8 DEF FetchUser
    <3>9. ASSUME IssueTokens(p) PROVE FALSE
      BY <2>2, <3>9 DEF IssueTokens
    <3>10. QED
      BY <1>4, <3>1, <3>2, <3>3, <3>4, <3>5, <3>6, <3>7, <3>8, <3>9 DEF HandlerStep
  <2>3. QED
    BY <1>2, <1>3, <2>1, <2>2
<1>5. CASE AdminStep
  <2>1. CASE DirectoryNext /\ UNCHANGED handler
    BY <2>1, DirectoryOwners DEF TypeOK, LinksGoToOwnAddress
  <2>2. QED
    BY <1>1, <1>5, <2>1 DEF AdminStep, MintToken, directoryVars
<1>6. QED
  BY <1>1, <1>4, <1>5, QueryOwners, ActivateOwners
     DEF Step, PurgeExpired, RegistryStep, Tick, directoryVars

\* The document of a code, once written, stays as it is.
LEMMA GrantFrame ==
    ASSUME TypeOK, HandlersFollowTheirGrant, TokensFollowTheirGrant,
           NEW p \in Handlers, NEW s, Become(p, s), FollowsGrant(codeDoc', s),
           \A c \in Codes : codeDoc[c] # None => codeDoc'[c] = codeDoc[c]
    PROVE  /\ HandlersFollowTheirGrant'
           /\ tokens' = tokens => TokensFollowTheirGrant'
<1>1. ASSUME NEW q \in Handlers, q # p PROVE FollowsGrant(codeDoc', handler'[q])
  <2>1. handler'[q] = handler[q] /\ FollowsGrant(codeDoc, handler[q])
    BY <1>1 DEF Become, TypeOK, HandlersFollowTheirGrant
  <2>2. handler[q].at \in {"delete", "verify", "fetch", "issue"} => handler[q].grant \in Codes
    BY HandlerShape DEF RedeemState, FetchState, IssueState
  <2>3. QED
    BY <2>1, <2>2 DEF FollowsGrant
<1>2. FollowsGrant(codeDoc', handler'[p])
  BY DEF Become, TypeOK, FollowsGrant
<1>3. HandlersFollowTheirGrant'
  BY <1>1, <1>2 DEF HandlersFollowTheirGrant
<1>4. ASSUME tokens' = tokens PROVE TokensFollowTheirGrant'
  <2>1. \A t \in tokens : t.grant # None => t.grant \in Codes
    BY DEF TypeOK, Token
  <2>2. QED
    BY <1>4, <2>1 DEF TokensFollowTheirGrant
<1>5. QED
  BY <1>3, <1>4

\* A handler that serves nobody follows any grant.
LEMMA IdleFollows ==
    FollowsGrant(codeDoc', Idle)
BY DEF FollowsGrant, Idle

\* Every step keeps users and clients of handlers and tokens those of the code.
LEMMA HandlerGrants ==
    ASSUME TypeOK, KeyedByOwner, HandlersFollowTheirGrant, TokensFollowTheirGrant,
           NEW p \in Handlers, HandlerStep(p)
    PROVE  HandlersFollowTheirGrant' /\ TokensFollowTheirGrant'
<1> DEFINE Kept == \A c \in Codes : codeDoc[c] # None => codeDoc'[c] = codeDoc[c]
           Goal == HandlersFollowTheirGrant' /\ TokensFollowTheirGrant'
<1>1. ASSUME UNCHANGED codeDoc, UNCHANGED tokens, NEW s, Become(p, s), FollowsGrant(codeDoc', s)
      PROVE  Goal
  BY <1>1, GrantFrame
<1>2. ASSUME UNCHANGED codeDoc, UNCHANGED tokens, Reject(p) PROVE Goal
  BY <1>1, <1>2, IdleFollows DEF Reject
<1>3. ASSUME NEW s \in CallbackState PROVE FollowsGrant(codeDoc', s)
  BY DEF FollowsGrant, CallbackState
<1>4. ASSUME NEW u \in Uids, NEW c \in Clients, NEW r \in Uris,
             NEW ch \in Challenges \cup {None}, Callback(p, u, c, r, ch)
      PROVE  Goal
  <2> DEFINE state(step) == [at |-> step, uid |-> u, client |-> c, redirect |-> r,
                             challenge |-> ch, doc |-> None]
  <2>1. state("resolve") \in CallbackState /\ state("preregistered") \in CallbackState
    BY DEF CallbackState
  <2>2. Become(p, state("resolve")) \/ Become(p, state("preregistered"))
    BY <1>4 DEF Callback
  <2> HIDE DEF state
  <2>3. QED
    BY <1>1, <1>3, <1>4, <2>1, <2>2 DEF Callback
<1>5. ASSUME QueryPreRegistered(p) PROVE Goal
  <2>1. handler[p] \in CallbackState
    BY <1>5, HandlerShape DEF QueryPreRegistered
  <2>2. ASSUME NEW d \in PreRegistered(handler[p].uid)
        PROVE  [handler[p] EXCEPT !.at = "activate", !.doc = d] \in CallbackState
    BY <2>1, <2>2 DEF CallbackState, PreRegistered, Existing
  <2>3. QED
    BY <1>1, <1>2, <1>3, <1>5, <2>2 DEF QueryPreRegistered
<1>6. ASSUME Activate(p) PROVE Goal
  <2>1. handler[p] \in CallbackState
    BY <1>6, HandlerShape DEF Activate
  <2>2. [handler[p] EXCEPT !.at = "resolve"] \in CallbackState
    BY <2>1 DEF CallbackState
  <2>3. QED
    BY <1>1, <1>2, <1>3, <1>6, <2>2 DEF Activate
<1>7. ASSUME ResolveClient(p) PROVE Goal
  <2>1. handler[p] \in CallbackState
    BY <1>7, HandlerShape DEF ResolveClient
  <2>2. [handler[p] EXCEPT !.at = "store"] \in CallbackState
    BY <2>1 DEF CallbackState
  <2>3. QED
    BY <1>1, <1>2, <1>3, <1>7, <2>2 DEF ResolveClient
<1>8. ASSUME NEW c \in Codes, StoreCode(p, c) PROVE Goal
  <2>1. Kept
    BY <1>8 DEF StoreCode, TypeOK
  <2>2. QED
    BY <1>8, <2>1, IdleFollows, GrantFrame DEF StoreCode, Reject
<1>9. ASSUME NEW c \in Codes, NEW client \in Clients, NEW r \in Uris \cup {None},
             NEW v \in Verifiers \cup {None}, Redeem(p, c, client, r, v)
      PROVE  Goal
  <2> DEFINE s == [at |-> "delete", uid |-> codeDoc[c].uid, grant |-> c,
                   client |-> client, redirect |-> r, verifier |-> v]
  <2>1. codeDoc[c] # None /\ codeDoc' = codeDoc
    BY <1>9 DEF Redeem, TypeOK
  <2>2. FollowsGrant(codeDoc', s)
    BY <2>1 DEF FollowsGrant
  <2>3. QED
    BY <1>1, <1>9, <2>2 DEF Redeem
<1>10. ASSUME DeleteCode(p) PROVE Goal
  <2>1. handler[p] \in RedeemState /\ codeDoc' = codeDoc /\ FollowsGrant(codeDoc, handler[p])
    BY <1>10, HandlerShape DEF DeleteCode, HandlersFollowTheirGrant
  <2>2. FollowsGrant(codeDoc', [handler[p] EXCEPT !.at = "verify"])
    BY <1>10, <2>1 DEF DeleteCode, FollowsGrant, RedeemState
  <2>3. QED
    BY <1>1, <1>10, <2>2 DEF DeleteCode
<1>11. ASSUME VerifyCode(p) PROVE Goal
  <2> DEFINE s == [at |-> "fetch", by |-> "code", uid |-> handler[p].uid,
                   grant |-> handler[p].grant, client |-> handler[p].client]
  <2>1. codeDoc' = codeDoc /\ FollowsGrant(codeDoc, handler[p])
    BY <1>11 DEF VerifyCode, HandlersFollowTheirGrant
  <2>2. Verified(handler[p], codeDoc[handler[p].grant]) => FollowsGrant(codeDoc', s)
    BY <1>11, <2>1 DEF VerifyCode, Verified, FollowsGrant
  <2>3. QED
    BY <1>1, <1>2, <1>11, <2>2 DEF VerifyCode
<1>12. ASSUME NEW t \in tokens, Refresh(p, t) PROVE Goal
  <2> DEFINE s == [at |-> "fetch", by |-> "refresh", uid |-> t.sub, grant |-> t.grant,
                   client |-> t.client]
  <2>1. t.grant \in Codes
    BY <1>12 DEF Refresh, TypeOK, Token
  <2>2. codeDoc[t.grant] # None /\ t.sub = codeDoc[t.grant].uid
        /\ t.client = codeDoc[t.grant].client
    BY <2>1, OAuthAssumption DEF TokensFollowTheirGrant
  <2>3. FollowsGrant(codeDoc', s)
    BY <1>12, <2>2 DEF Refresh, FollowsGrant
  <2>4. QED
    BY <1>1, <1>12, <2>3 DEF Refresh
<1>13. ASSUME FetchUser(p) PROVE Goal
  <2> DEFINE s == [at |-> "issue", by |-> handler[p].by, uid |-> handler[p].uid,
                   grant |-> handler[p].grant, client |-> handler[p].client,
                   user |-> Stored(handler[p].uid)]
  <2>1. handler[p] \in FetchState /\ codeDoc' = codeDoc /\ FollowsGrant(codeDoc, handler[p])
    BY <1>13, HandlerShape DEF FetchUser, HandlersFollowTheirGrant
  <2>2. handler[p].uid \in Uids
    BY <1>13, <2>1 DEF FetchUser, FollowsGrant, TypeOK, CodeDoc, FetchState
  <2>3. Admissible(Stored(handler[p].uid)) => Stored(handler[p].uid).uid = handler[p].uid
    BY <2>2 DEF Admissible, Stored, KeyedByOwner, Existing, DocIds
  <2>4. Admissible(Stored(handler[p].uid)) => FollowsGrant(codeDoc', s)
    BY <1>13, <2>1, <2>3 DEF FetchUser, FollowsGrant
  <2>5. QED
    BY <1>1, <1>2, <1>13, <2>4 DEF FetchUser
<1>14. ASSUME IssueTokens(p) PROVE Goal
  <2>1. handler[p] \in IssueState /\ codeDoc' = codeDoc /\ FollowsGrant(codeDoc, handler[p])
    BY <1>14, HandlerShape DEF IssueTokens, HandlersFollowTheirGrant
  <2>2. HandlersFollowTheirGrant'
    BY <1>14, IdleFollows, GrantFrame DEF IssueTokens, Reject
  <2>3. \A t \in tokens' \ tokens :
           /\ t.grant = handler[p].grant
           /\ t.sub = handler[p].user.uid
           /\ t.client = handler[p].client
    BY <1>14 DEF IssueTokens, Signed
  <2>4. TokensFollowTheirGrant'
    BY <1>14, <2>1, <2>3 DEF IssueTokens, FollowsGrant, TokensFollowTheirGrant
  <2>5. QED
    BY <2>2, <2>4
<1>15. QED
  BY <1>4, <1>5, <1>6, <1>7, <1>8, <1>9, <1>10, <1>11, <1>12, <1>13, <1>14 DEF HandlerStep

\* Every step keeps the binding of handlers and tokens to their code.
LEMMA StepGrants ==
    ASSUME TypeOK, KeyedByOwner, HandlersFollowTheirGrant, TokensFollowTheirGrant, Step
    PROVE  HandlersFollowTheirGrant' /\ TokensFollowTheirGrant'
<1>1. ASSUME UNCHANGED <<handler, codeDoc>>,
             \A t \in tokens' \ tokens : t.grant = None
      PROVE  HandlersFollowTheirGrant' /\ TokensFollowTheirGrant'
  BY <1>1 DEF HandlersFollowTheirGrant, TokensFollowTheirGrant, FollowsGrant
<1>2. CASE AdminStep
  BY <1>1, <1>2 DEF AdminStep, MintToken
<1>3. QED
  BY <1>1, <1>2, HandlerGrants DEF Step, PurgeExpired, RegistryStep, Tick

(* Scopes.  What one handler's step does to its own request decides; the    *)
(* others see at most a change of the directory, which the history records.  *)

\* A record that waits to read its user is followed by the history.
LEMMA HistoryFollows ==
    ASSUME TypeOK, TypesOfState', Observe, NEW p \in Handlers,
           handler'[p].at \in {"delete", "verify", "fetch"}
    PROVE  Effective(users', handler'[p].uid) \subseteq heldSince'[p]
BY DEF Observe

\* Only FetchUser makes a handler ready to issue, with the user as stored then.
LEMMA ReadyToIssue ==
    ASSUME TypeOK, NEW p \in Handlers, HandlerStep(p),
           NEW q \in Handlers, handler'[q].at = "issue"
    PROVE  \/ handler'[q] = handler[q]
           \/ /\ q = p
              /\ FetchUser(p)
              /\ Admissible(Stored(handler[p].uid))
              /\ handler'[p].user = Stored(handler[p].uid)
<1>1. ASSUME NEW s, Become(p, s), s.at # "issue" PROVE handler'[q] = handler[q]
  BY <1>1 DEF Become, TypeOK
<1>2. ASSUME Reject(p) PROVE handler'[q] = handler[q]
  BY <1>1, <1>2 DEF Reject, Idle
<1>3. ASSUME NEW u \in Uids, NEW c \in Clients, NEW r \in Uris,
             NEW ch \in Challenges \cup {None}, Callback(p, u, c, r, ch)
      PROVE  handler'[q] = handler[q]
  BY <1>1, <1>3 DEF Callback
<1>4. ASSUME QueryPreRegistered(p) \/ Activate(p) \/ ResolveClient(p)
      PROVE  handler'[q] = handler[q]
  <2>1. handler[p] \in CallbackState
    BY <1>4, HandlerShape DEF QueryPreRegistered, Activate, ResolveClient
  <2>2. /\ [handler[p] EXCEPT !.at = "resolve"].at # "issue"
        /\ [handler[p] EXCEPT !.at = "store"].at # "issue"
        /\ \A d : [handler[p] EXCEPT !.at = "activate", !.doc = d].at # "issue"
    BY <2>1 DEF CallbackState
  <2>3. QED
    BY <1>1, <1>2, <1>4, <2>2 DEF QueryPreRegistered, Activate, ResolveClient
<1>5. ASSUME NEW c \in Codes, StoreCode(p, c) PROVE handler'[q] = handler[q]
  BY <1>2, <1>5 DEF StoreCode
<1>6. ASSUME NEW c \in Codes, NEW client \in Clients, NEW r \in Uris \cup {None},
             NEW v \in Verifiers \cup {None}, Redeem(p, c, client, r, v)
      PROVE  handler'[q] = handler[q]
  BY <1>1, <1>6 DEF Redeem
<1>7. ASSUME DeleteCode(p) PROVE handler'[q] = handler[q]
  <2>1. handler[p] \in RedeemState
    BY <1>7, HandlerShape DEF DeleteCode
  <2>2. [handler[p] EXCEPT !.at = "verify"].at # "issue"
    BY <2>1 DEF RedeemState
  <2>3. QED
    BY <1>1, <1>7, <2>2 DEF DeleteCode
<1>8. ASSUME VerifyCode(p) PROVE handler'[q] = handler[q]
  BY <1>1, <1>2, <1>8 DEF VerifyCode
<1>9. ASSUME NEW t \in tokens, Refresh(p, t) PROVE handler'[q] = handler[q]
  BY <1>1, <1>9 DEF Refresh
<1>10. ASSUME IssueTokens(p) PROVE handler'[q] = handler[q]
  BY <1>2, <1>10 DEF IssueTokens
<1>11. ASSUME FetchUser(p), handler'[q] # handler[q]
       PROVE  /\ q = p
              /\ Admissible(Stored(handler[p].uid))
              /\ handler'[p].user = Stored(handler[p].uid)
  <2>1. ~Reject(p)
    BY <1>2, <1>11
  <2>2. QED
    BY <1>11, <2>1 DEF FetchUser, Become, TypeOK
<1>12. QED
  BY <1>3, <1>4, <1>5, <1>6, <1>7, <1>8, <1>9, <1>10, <1>11 DEF HandlerStep

\* Every step keeps the scopes about to be signed within those held since the request.
LEMMA StepScopes ==
    ASSUME TypeOK, TypesOfState', ScopesAreFollowed, ScopesAreFresh, Step, Observe
    PROVE  ScopesAreFollowed' /\ ScopesAreFresh'
<1>1. ScopesAreFollowed'
  BY HistoryFollows DEF ScopesAreFollowed
<1>2. ASSUME NEW q \in Handlers, handler'[q].at = "issue"
      PROVE  handler'[q].user.scopes \subseteq heldSince'[q]
  <2>1. heldSince'[q] = heldSince[q]
    BY <1>2 DEF Observe
  <2>2. CASE handler'[q] = handler[q]
    BY <1>2, <2>1, <2>2 DEF ScopesAreFresh
  <2>3. CASE /\ FetchUser(q)
             /\ Admissible(Stored(handler[q].uid))
             /\ handler'[q].user = Stored(handler[q].uid)
    <3>1. Stored(handler[q].uid).scopes = Effective(users, handler[q].uid)
      BY <2>3 DEF Admissible, Stored, Effective
    <3>2. QED
      BY <2>1, <2>3, <3>1 DEF FetchUser, ScopesAreFollowed
  <2>4. CASE \E p \in Handlers : HandlerStep(p)
    BY <1>2, <2>2, <2>3, <2>4, ReadyToIssue
  <2>5. CASE UNCHANGED handler
    BY <2>2, <2>5
  <2>6. QED
    BY <2>4, <2>5 DEF Step, PurgeExpired, RegistryStep, Tick, AdminStep, MintToken
<1>3. QED
  BY <1>1, <1>2 DEF ScopesAreFresh

Spending(h) == h.at \in {"verify", "fetch", "issue"}

\* Where the grant of a handler that is past deleting its code comes from.
LEMMA GrantOrigin ==
    ASSUME TypeOK, "delete" \notin Faults, NEW p \in Handlers, HandlerStep(p),
           NEW q \in Handlers, Spending(handler'[q])
    PROVE  \/ Spending(handler[q]) /\ handler'[q].grant = handler[q].grant
           \/ \E t \in tokens : handler'[q].grant = t.grant
           \/ handler'[q].grant \notin live'
<1> DEFINE Origin == \/ Spending(handler[q]) /\ handler'[q].grant = handler[q].grant
                     \/ \E t \in tokens : handler'[q].grant = t.grant
                     \/ handler'[q].grant \notin live'
<1> USE DEF Spending
<1>1. ASSUME q # p PROVE Origin
  <2>1. \A s : Become(p, s) => handler'[q] = handler[q]
    BY <1>1 DEF Become, TypeOK
  <2>2. \E s : Become(p, s)
    BY DEF HandlerStep, Callback, QueryPreRegistered, Activate, ResolveClient, StoreCode,
           Redeem, DeleteCode, VerifyCode, Refresh, FetchUser, IssueTokens, Reject
  <2>3. QED
    BY <2>1, <2>2
<1>2. ASSUME q = p, NEW s, Become(p, s) PROVE handler'[q] = s
  BY <1>2 DEF Become, TypeOK
<1>3. ASSUME q = p, Reject(p) PROVE FALSE
  BY <1>2, <1>3 DEF Reject, Idle
<1>4. ASSUME q = p, NEW u \in Uids, NEW c \in Clients, NEW r \in Uris,
             NEW ch \in Challenges \cup {None}, Callback(p, u, c, r, ch)
      PROVE  FALSE
  BY <1>2, <1>4 DEF Callback
<1>5. ASSUME q = p, QueryPreRegistered(p) \/ Activate(p) \/ ResolveClient(p)
      PROVE  FALSE
  <2>1. handler[p] \in CallbackState
    BY <1>5, HandlerShape DEF QueryPreRegistered, Activate, ResolveClient
  <2>2. /\ [handler[p] EXCEPT !.at = "resolve"].at = "resolve"
        /\ [handler[p] EXCEPT !.at = "store"].at = "store"
        /\ \A d : [handler[p] EXCEPT !.at = "activate", !.doc = d].at = "activate"
    BY <2>1 DEF CallbackState
  <2>3. QED
    BY <1>2, <1>3, <1>5, <2>2 DEF QueryPreRegistered, Activate, ResolveClient
<1>6. ASSUME q = p, NEW c \in Codes, NEW client \in Clients, NEW r \in Uris \cup {None},
             NEW v \in Verifiers \cup {None}, Redeem(p, c, client, r, v)
      PROVE  FALSE
  BY <1>2, <1>6 DEF Redeem
<1>7. ASSUME q = p, DeleteCode(p) PROVE Origin
  <2>1. handler[p] \in RedeemState
    BY <1>7, HandlerShape DEF DeleteCode
  <2>2. [handler[p] EXCEPT !.at = "verify"].grant = handler[p].grant
    BY <2>1 DEF RedeemState
  <2>3. QED
    BY <1>2, <1>7, <2>2 DEF DeleteCode
<1>8. ASSUME q = p, VerifyCode(p) PROVE Origin
  BY <1>2, <1>3, <1>8 DEF VerifyCode
<1>9. ASSUME q = p, NEW t \in tokens, Refresh(p, t) PROVE Origin
  BY <1>2, <1>9 DEF Refresh
<1>10. ASSUME q = p, FetchUser(p) PROVE Origin
  BY <1>2, <1>3, <1>10 DEF FetchUser
<1>11. QED
  BY <1>1, <1>3, <1>4, <1>5, <1>6, <1>7, <1>8, <1>9, <1>10
     DEF HandlerStep, StoreCode, IssueTokens

\* When Deletes succeed, no step leaves a spent code stored.
LEMMA StepSpent ==
    ASSUME TypeOK, HandlersFollowTheirGrant, TokensFollowTheirGrant,
           "delete" \notin Faults, SpentCodesAreGone, Step
    PROVE  SpentCodesAreGone'
<1> USE DEF Spending
\* A document that appears is that of a code nothing descends from yet.
<1>1. ASSUME NEW g \in Codes, g \notin live, codeDoc[g] # None PROVE g \notin live'
  BY <1>1 DEF Step, HandlerStep, Callback, QueryPreRegistered, Activate, ResolveClient, StoreCode,
     Redeem, DeleteCode, VerifyCode, Refresh, FetchUser, IssueTokens, PurgeExpired, RegistryStep,
     Tick, AdminStep, MintToken
<1>2. None \notin live'
  <2>1. live' \subseteq Codes
    BY DEF Step, HandlerStep, Callback, QueryPreRegistered, Activate, ResolveClient, StoreCode,
     Redeem, DeleteCode, VerifyCode, Refresh, FetchUser, IssueTokens, PurgeExpired, RegistryStep,
     Tick, AdminStep, MintToken, TypeOK
  <2>2. QED
    BY <2>1, OAuthAssumption
<1>3. ASSUME NEW t \in tokens PROVE t.grant \notin live'
  <2>1. t.grant \in Codes \cup {None}
    BY DEF TypeOK, Token
  <2>2. QED
    BY <1>1, <1>2, <2>1, OAuthAssumption DEF TokensFollowTheirGrant, SpentCodesAreGone
<1>4. ASSUME NEW q \in Handlers, Spending(handler[q]) PROVE handler[q].grant \notin live'
  <2>1. handler[q].grant \in Codes
    BY <1>4, HandlerShape DEF RedeemState, FetchState, IssueState
  <2>2. codeDoc[handler[q].grant] # None
    BY <1>4 DEF HandlersFollowTheirGrant, FollowsGrant
  <2>3. QED
    BY <1>1, <1>4, <2>1, <2>2 DEF SpentCodesAreGone
<1>5. ASSUME NEW q \in Handlers, Spending(handler'[q]) PROVE handler'[q].grant \notin live'
  <2>1. CASE UNCHANGED handler
    BY <1>4, <1>5, <2>1
  <2>2. CASE \E p \in Handlers : HandlerStep(p)
    BY <1>3, <1>4, <1>5, <2>2, GrantOrigin
  <2>3. QED
    BY <2>1, <2>2 DEF Step, PurgeExpired, RegistryStep, Tick, AdminStep, MintToken
<1>6. ASSUME NEW t \in tokens', t \notin tokens PROVE t.grant \notin live'
  <2>1. CASE \E u \in Uids : MintToken(u)
    BY <1>2, <1>6, <2>1 DEF MintToken
  <2>2. ASSUME NEW p \in Handlers, IssueTokens(p) PROVE t.grant \notin live'
    <3>1. t.grant = handler[p].grant
      BY <1>6, <2>2 DEF IssueTokens, Signed
    <3>2. QED
      BY <1>4, <2>2, <3>1 DEF IssueTokens
  <2>3. QED
    BY <1>6, <2>1, <2>2
       DEF Step, HandlerStep, Callback, QueryPreRegistered, Activate, ResolveClient, StoreCode,
           Redeem, DeleteCode, VerifyCode, Refresh, FetchUser, PurgeExpired, RegistryStep,
           Tick, AdminStep
<1>7. QED
  BY <1>3, <1>5, <1>6 DEF SpentCodesAreGone
------------------------------------------------------------------------------
\* IInv holds in every reachable state: the types, and the five properties below
\* with the strengthenings that make them inductive.
THEOREM Invariance == Spec => []IInv
<1>1. Init => IInv
  <2> SUFFICES ASSUME Init PROVE IInv
    OBVIOUS
  <2>1. TypeOK
    BY DirectoryAssumption, OAuthAssumption
       DEF Init, DirectoryInit, RegistryInit, TypeOK, DirectoryTypeOK, RegistryTypeOK,
           HandlerState, Existing
  <2>2. KeyedByOwner
    BY DEF Init, DirectoryInit, KeyedByOwner, Existing
  <2>3. LinksGoToOwnAddress /\ HandlersFollowTheirGrant /\ ScopesAreFollowed
        /\ ScopesAreFresh /\ SpentCodesAreGone /\ TokensFollowTheirGrant
    BY DEF Init, Idle, LinksGoToOwnAddress, HandlersFollowTheirGrant, FollowsGrant,
           ScopesAreFollowed, ScopesAreFresh, SpentCodesAreGone, TokensFollowTheirGrant
  <2>4. QED
    BY <2>1, <2>2, <2>3 DEF IInv
<1>2. IInv /\ [Next]_vars => IInv'
  <2> SUFFICES ASSUME IInv, [Next]_vars PROVE IInv'
    OBVIOUS
  <2>1. CASE Next
    <3>1. TypesOfState'
      BY <2>1, StepTypes DEF Next, IInv
    <3>2. TypeOK'
      BY <2>1, <3>1, HistoryTypes DEF Next, IInv
    <3>3. KeyedByOwner' /\ LinksGoToOwnAddress'
      BY <2>1, StepOwners DEF Next, IInv
    <3>4. HandlersFollowTheirGrant' /\ TokensFollowTheirGrant'
      BY <2>1, StepGrants DEF Next, IInv
    <3>5. ScopesAreFollowed' /\ ScopesAreFresh'
      BY <2>1, <3>1, StepScopes DEF Next, IInv
    <3>6. "delete" \notin Faults => SpentCodesAreGone'
      BY <2>1, StepSpent DEF Next, IInv
    <3>7. QED
      BY <3>2, <3>3, <3>4, <3>5, <3>6 DEF IInv
  <2>2. CASE UNCHANGED vars
    <3>1. TypeOK'
      BY <2>2, DirectoryFrame, RegistryFrame DEF vars, oauthVars, IInv, TypeOK
    <3>2. QED
      BY <2>2, <3>1
         DEF vars, oauthVars, directoryVars, IInv, KeyedByOwner, Existing, LinksGoToOwnAddress,
             HandlersFollowTheirGrant, FollowsGrant, TokensFollowTheirGrant, ScopesAreFollowed,
             Effective, ScopesAreFresh, SpentCodesAreGone
  <2>3. QED
    BY <2>1, <2>2
<1>3. QED
  BY <1>1, <1>2, PTL DEF Spec

\* Every variable keeps its type.
THEOREM TypeCorrect == Spec => []TypeOK
BY Invariance, PTL DEF IInv

\* Documents of authorized_users stay with their owners under any interleaving of
\* admin commands and first logins.
THEOREM OwnersKept == Spec => []KeyedByOwner
BY Invariance, PTL DEF IInv

\* Every token names the user and the client its authorization code was issued to.
THEOREM TokensBound == Spec => []TokensFollowTheirGrant
BY Invariance, PTL DEF IInv

\* A revocation or deactivation that precedes a token request is honoured by it.
THEOREM RevocationHonoured == Spec => []ScopesAreFresh
BY Invariance, PTL DEF IInv

\* When no Delete fails, a code that has given tokens is no longer stored.
THEOREM SpentOnce == ("delete" \notin Faults) /\ Spec => []SpentCodesAreGone
<1>1. "delete" \notin Faults /\ IInv => SpentCodesAreGone
  BY DEF IInv
<1>2. CASE "delete" \notin Faults
  <2>1. IInv => SpentCodesAreGone
    BY <1>1, <1>2
  <2>2. QED
    BY <2>1, Invariance, PTL
<1>3. CASE ~("delete" \notin Faults)
  BY <1>3
<1>4. QED
  BY <1>2, <1>3

\* A code's document, once written, never changes; time only passes.
LEMMA ExpiryHandler ==
    ASSUME TypeOK, NEW p \in Handlers, HandlerStep(p), NEW c \in Codes,
           codeDoc[c] # None, now > codeDoc[c].expires,
           NEW q \in Handlers, PastVerification(q, c)'
    PROVE  PastVerification(q, c)
<1>1. PICK s : Become(p, s)
  BY DEF HandlerStep, Callback, QueryPreRegistered, Activate, ResolveClient, StoreCode, Redeem,
         DeleteCode, VerifyCode, Refresh, FetchUser, IssueTokens, Reject
<1>2. CASE q # p
  BY <1>1, <1>2 DEF Become, TypeOK, PastVerification
<1>3. CASE q = p
  <2>1. ASSUME NEW x, Become(p, x)
        PROVE  handler'[p] = x
    BY <2>1 DEF Become, TypeOK
  <2>2. handler'[p].at \in {"fetch", "issue"} /\ handler'[p].by = "code" /\ handler'[p].grant = c
    BY <1>3 DEF PastVerification
  <2>3. ~Reject(p)
    BY <2>1, <2>2 DEF Reject, Idle
  <2>4. ASSUME NEW u \in Uids, NEW d \in Clients, NEW r \in Uris,
               NEW ch \in Challenges \cup {None}, Callback(p, u, d, r, ch)
        PROVE  FALSE
    BY <2>1, <2>2, <2>4 DEF Callback
  <2>5. ~QueryPreRegistered(p)
    <3> SUFFICES ASSUME QueryPreRegistered(p) PROVE FALSE
      OBVIOUS
    <3>1. handler[p] \in CallbackState
      BY HandlerShape DEF QueryPreRegistered
    <3>2. PICK d \in PreRegistered(handler[p].uid) :
             Become(p, [handler[p] EXCEPT !.at = "activate", !.doc = d])
      BY <2>3 DEF QueryPreRegistered
    <3>3. handler'[p].at = "activate"
      BY <2>1, <3>1, <3>2 DEF CallbackState
    <3>4. QED
      BY <2>2, <3>3
  <2>6. ~Activate(p)
    <3> SUFFICES ASSUME Activate(p) PROVE FALSE
      OBVIOUS
    <3>1. handler[p] \in CallbackState
      BY HandlerShape DEF Activate
    <3>2. Become(p, [handler[p] EXCEPT !.at = "resolve"])
      BY <2>3 DEF Activate
    <3>3. handler'[p].at = "resolve"
      BY <2>1, <3>1, <3>2 DEF CallbackState
    <3>4. QED
      BY <2>2, <3>3
  <2>7. ~ResolveClient(p)
    <3> SUFFICES ASSUME ResolveClient(p) PROVE FALSE
      OBVIOUS
    <3>1. handler[p] \in CallbackState
      BY HandlerShape DEF ResolveClient
    <3>2. Become(p, [handler[p] EXCEPT !.at = "store"])
      BY <2>3 DEF ResolveClient
    <3>3. handler'[p].at = "store"
      BY <2>1, <3>1, <3>2 DEF CallbackState
    <3>4. QED
      BY <2>2, <3>3
  <2>8. ASSUME NEW d \in Codes, NEW client \in Clients, NEW r \in Uris \cup {None},
               NEW v \in Verifiers \cup {None}, Redeem(p, d, client, r, v)
        PROVE  FALSE
    BY <2>1, <2>2, <2>8 DEF Redeem
  <2>9. ~DeleteCode(p)
    <3> SUFFICES ASSUME DeleteCode(p) PROVE FALSE
      OBVIOUS
    <3>1. handler[p] \in RedeemState
      BY HandlerShape DEF DeleteCode
    <3>2. handler'[p].at = "verify"
      BY <2>1, <3>1 DEF RedeemState, DeleteCode
    <3>3. QED
      BY <2>2, <3>2
  \* Verification refuses a code past its expiry: the check that matters.
  <2>10. ~VerifyCode(p)
    <3> SUFFICES ASSUME VerifyCode(p) PROVE FALSE
      OBVIOUS
    <3>1. Verified(handler[p], codeDoc[handler[p].grant])
      BY <2>3 DEF VerifyCode
    <3>2. handler'[p].grant = handler[p].grant
      BY <2>1, <3>1 DEF VerifyCode
    <3>3. codeDoc[c] \in CodeDoc /\ now \in Nat
      BY DEF TypeOK
    <3>4. codeDoc[c].expires \in Nat
      BY <3>3 DEF CodeDoc
    <3>5. now <= codeDoc[c].expires
      BY <2>2, <3>1, <3>2 DEF Verified
    <3>6. QED
      BY <3>3, <3>4, <3>5
  <2>11. ASSUME NEW t \in tokens, Refresh(p, t) PROVE FALSE
    BY <2>1, <2>2, <2>11 DEF Refresh
  \* The user is fetched by a handler that was past verification already.
  <2>12. ASSUME FetchUser(p) PROVE PastVerification(p, c)
    <3>1. handler'[p].by = handler[p].by /\ handler'[p].grant = handler[p].grant
      BY <2>1, <2>3, <2>12 DEF FetchUser
    <3>2. QED
      BY <2>2, <2>12, <3>1 DEF FetchUser, PastVerification
  <2>13. QED
    BY <1>3, <2>3, <2>4, <2>5, <2>6, <2>7, <2>8, <2>9, <2>10, <2>11, <2>12
       DEF HandlerStep, StoreCode, IssueTokens
<1>4. QED
  BY <1>2, <1>3

\* Once a code has expired no further exchange gets past verification with it,
\* whichever handlers hold the document they read before (handleTokenExchange).
THEOREM ExpiryEndsCodes == Spec => ExpiryCutsOff
<1> DEFINE Cut ==
        \A c \in Codes :
          codeDoc[c] # None /\ now > codeDoc[c].expires =>
              \A p \in Handlers : PastVerification(p, c)' => PastVerification(p, c)
<1>1. ASSUME IInv, [Next]_vars PROVE [Cut]_vars
  <2>1. ASSUME UNCHANGED handler PROVE Cut
    BY <2>1 DEF PastVerification
  <2>2. ASSUME NEW p \in Handlers, HandlerStep(p) PROVE Cut
    BY <1>1, <2>2, ExpiryHandler DEF IInv
  <2>3. CASE Next
    BY <2>1, <2>2, <2>3
       DEF Next, Step, PurgeExpired, AdminStep, MintToken, RegistryStep, Tick
  <2>4. QED
    BY <1>1, <2>3
<1>2. QED
  BY <1>1, Invariance, PTL DEF Spec, ExpiryCutsOff
==============================================================================
