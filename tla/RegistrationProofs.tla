-------------------------- MODULE RegistrationProofs --------------------------
(***************************************************************************)
(* Theorems about how users and clients are admitted to the authorization     *)
(* server: access requests, client registration, and the redirect URIs that    *)
(* codes go to.                                                              *)
(***************************************************************************)
EXTENDS OAuthProofs

\* `approve` comes to mark a request after it wrote a document.
ActivatedHaveDocument ==
    \A u \in Uids : approving[u] = "activated" => users[u] # None

\* What was written to registered_clients is a valid registration.
WrittenAreValid ==
    \A c \in DcrClients :
        /\ enrolment[c] \in {"written", "announced"} => registered[c] # {}
        /\ \A uri \in registered[c] : Registrable(uri)

\* The redirect URI that a handler is about to store has been compared.
ComparedAreRegistrable ==
    \A p \in Handlers :
        handler[p].at = "store" /\ handler[p].client \in DcrClients =>
            Registrable(handler[p].redirect)

\* Why ApprovedHaveDocument, AnnouncedClientsResolve and RedirectsAreRegistrable hold.
AInv ==
    /\ ActivatedHaveDocument /\ ApprovedHaveDocument
    /\ WrittenAreValid
    /\ ComparedAreRegistrable /\ RedirectsAreRegistrable

\* The admin commands remove no document and mark a request after writing one.
LEMMA DirectoryAdmits ==
    ASSUME DirectoryTypeOK, KeyedByOwner, DirectoryNext,
           ActivatedHaveDocument, ApprovedHaveDocument
    PROVE  ActivatedHaveDocument' /\ ApprovedHaveDocument'
<1>1. Uids \subseteq DocIds
  BY DEF DocIds
<1>2. \A u \in Uids : users[u] # None => users'[u] # None
  BY <1>1, DirectoryOwners DEF Existing
<1>3. ASSUME NEW u \in Uids, NEW e \in Emails, ApproveActivate(u, e)
      PROVE  ActivatedHaveDocument' /\ ApprovedHaveDocument'
  <2>1. NewUser(u, e, TRUE) \in User /\ None \notin User
    BY DirectoryAssumption DEF NewUser, User
  <2>2. approving'[u] = "idle" \/ users'[u] # None
    BY <1>1, <1>3, <2>1 DEF ApproveActivate, DirectoryTypeOK
  <2>3. \A v \in Uids : v # u => approving'[v] = approving[v]
    BY <1>3 DEF ApproveActivate, DirectoryTypeOK
  <2> QED
    BY <1>2, <1>3, <2>2, <2>3 DEF ApproveActivate, ActivatedHaveDocument, ApprovedHaveDocument
<1>4. ASSUME NEW u \in Uids, ApproveMark(u)
      PROVE  ActivatedHaveDocument' /\ ApprovedHaveDocument'
  <2>1. users[u] # None
    BY <1>4 DEF ApproveMark, ActivatedHaveDocument
  <2>2. \A v \in Uids : v # u => approving'[v] = approving[v] /\ requests'[v] = requests[v]
    BY <1>4 DEF ApproveMark, DirectoryTypeOK
  <2>3. approving'[u] = "idle"
    BY <1>4 DEF ApproveMark, DirectoryTypeOK
  <2> QED
    BY <1>2, <2>1, <2>2, <2>3 DEF ActivatedHaveDocument, ApprovedHaveDocument
<1>5. ASSUME NEW u \in Uids, ApproveFetch(u)
      PROVE  ActivatedHaveDocument' /\ ApprovedHaveDocument'
  <2>1. \A v \in Uids : v # u => approving'[v] = approving[v]
    BY <1>5 DEF ApproveFetch, DirectoryTypeOK
  <2>2. approving'[u] = "fetched"
    BY <1>5 DEF ApproveFetch, DirectoryTypeOK
  <2> QED
    BY <1>2, <1>5, <2>1, <2>2 DEF ApproveFetch, ActivatedHaveDocument, ApprovedHaveDocument
<1>6. ASSUME NEW u \in Uids, RequestAccess(u)
      PROVE  ActivatedHaveDocument' /\ ApprovedHaveDocument'
  <2>1. \A v \in Uids : v # u => requests'[v] = requests[v]
    BY <1>6 DEF RequestAccess, DirectoryTypeOK
  <2>2. requests'[u] = "pending"
    BY <1>6 DEF RequestAccess, DirectoryTypeOK
  <2> QED
    BY <1>2, <1>6, <2>1, <2>2 DEF RequestAccess, ActivatedHaveDocument, ApprovedHaveDocument
<1>7. ASSUME UNCHANGED <<requests, approving>>
      PROVE  ActivatedHaveDocument' /\ ApprovedHaveDocument'
  BY <1>2, <1>7 DEF ActivatedHaveDocument, ApprovedHaveDocument
<1> QED
  BY <1>3, <1>4, <1>5, <1>6, <1>7
     DEF DirectoryNext, Add, Grant, RevokeScope, PreRegister, GrantAllList,
         GrantAllUpdate, GrantAllDone, Deactivate

LEMMA StepAdmitsUsers ==
    ASSUME TypeOK, KeyedByOwner, LinksGoToOwnAddress, Step,
           ActivatedHaveDocument, ApprovedHaveDocument
    PROVE  ActivatedHaveDocument' /\ ApprovedHaveDocument'
<1>1. CASE DirectoryNext
  BY <1>1, DirectoryAdmits DEF TypeOK
<1>2. CASE UNCHANGED directoryVars
  BY <1>2 DEF directoryVars, ActivatedHaveDocument, ApprovedHaveDocument
<1>3. ASSUME NEW p \in Handlers, Activate(p), ~UNCHANGED users
      PROVE  ActivatedHaveDocument' /\ ApprovedHaveDocument'
  <2> DEFINE d == handler[p].doc
             x == [users[d] EXCEPT !.uid = handler[p].uid, !.active = TRUE]
  <2>1. d \in Existing
    BY <1>3 DEF Activate, LinksGoToOwnAddress
  <2>2. handler[p] \in CallbackState
    BY <1>3, HandlerShape DEF Activate
  <2>3. x \in User /\ None \notin User
    <3>1. users[d] \in User
      BY <2>1 DEF TypeOK, DirectoryTypeOK, Existing
    <3>2. handler[p].uid \in Uids
      BY <2>2 DEF CallbackState
    <3> QED
      BY <3>1, <3>2, DirectoryAssumption DEF User
  <2>4. users' = [users EXCEPT ![d] = x] /\ UNCHANGED <<requests, approving>>
    BY <1>3 DEF Activate
  <2> HIDE DEF x
  <2>5. \A u \in DocIds : users[u] # None => users'[u] # None
    BY <2>3, <2>4 DEF TypeOK, DirectoryTypeOK
  <2>6. Uids \subseteq DocIds
    BY DEF DocIds
  <2> QED
    BY <2>4, <2>5, <2>6 DEF ActivatedHaveDocument, ApprovedHaveDocument
<1>4. ASSUME NEW p \in Handlers, Activate(p), UNCHANGED users
      PROVE  UNCHANGED <<users, requests, approving>>
  BY <1>4 DEF Activate
<1>5. CASE UNCHANGED <<users, requests, approving>>
  BY <1>5 DEF ActivatedHaveDocument, ApprovedHaveDocument
<1> QED
  BY <1>1, <1>2, <1>3, <1>4, <1>5
     DEF Step, HandlerStep, Callback, QueryPreRegistered, ResolveClient, StoreCode, Redeem,
         DeleteCode, VerifyCode, Refresh, FetchUser, IssueTokens, PurgeExpired, AdminStep,
         MintToken, RegistryStep, Tick

\* Registration writes valid lists, once for each id.
LEMMA RegistryAdmits ==
    ASSUME RegistryTypeOK, RegistryNext, WrittenAreValid
    PROVE  WrittenAreValid'
<1>1. PICK c \in DcrClients :
         (\E uris \in Submissions : RegisterWrite(c, uris)) \/ RegisterAnswer(c)
  BY DEF RegistryNext
<1>2. ASSUME NEW uris \in Submissions, RegisterWrite(c, uris)  PROVE WrittenAreValid'
  <2>1. /\ \A b \in DcrClients : b # c =>
              registered'[b] = registered[b] /\ enrolment'[b] = enrolment[b]
        /\ \/ registered'[c] = Listed(uris)
           \/ registered'[c] = registered[c] /\ enrolment'[c] = "failed"
    BY <1>2 DEF RegisterWrite, RegistryTypeOK
  <2>2. Listed(uris) # {} /\ \A uri \in Listed(uris) : Registrable(uri)
    <3>1. uris \in Seq(Uris) /\ uris # <<>>
      BY <1>2, RegistryAssumption DEF RegisterWrite, ValidRegistration
    <3>2. 1 \in 1..Len(uris)
      BY <3>1
    <3> QED
      BY <1>2, <3>2 DEF RegisterWrite, ValidRegistration, Listed
  <2> QED
    BY <2>1, <2>2 DEF WrittenAreValid
<1>3. CASE RegisterAnswer(c)
  BY <1>3 DEF RegisterAnswer, RegistryTypeOK, WrittenAreValid
<1> QED
  BY <1>1, <1>2, <1>3

\* A URI that compares equal to a registrable one is registrable.
LEMMA SameIsRegistrable ==
    ASSUME NEW requested, NEW allowed, SameRedirect(requested, allowed), Registrable(allowed)
    PROVE  Registrable(requested)
  BY DEF SameRedirect, Registrable

LEMMA StepAdmitsRedirects ==
    ASSUME TypeOK, Step, WrittenAreValid, ComparedAreRegistrable, RedirectsAreRegistrable
    PROVE  ComparedAreRegistrable' /\ RedirectsAreRegistrable'
<1>1. DcrClients \cap CimdClients = {}
  BY RegistryAssumption
<1>2. ASSUME UNCHANGED codeDoc  PROVE RedirectsAreRegistrable'
  BY <1>2 DEF RedirectsAreRegistrable
<1>3. ASSUME NEW p \in Handlers, NEW s, Become(p, s), s.at # "store"
      PROVE  ComparedAreRegistrable'
  BY <1>3 DEF TypeOK, Become, ComparedAreRegistrable
<1>4. ASSUME UNCHANGED handler  PROVE ComparedAreRegistrable'
  BY <1>4 DEF ComparedAreRegistrable
<1>5. ASSUME NEW p \in Handlers, ResolveClient(p)  PROVE ComparedAreRegistrable'
  <2>1. handler[p] \in CallbackState
    BY <1>5, HandlerShape DEF ResolveClient
  <2>2. CASE Reject(p)
    BY <1>3, <2>2 DEF Reject, Idle
  <2>3. CASE ~Reject(p)
    <3> DEFINE s == [handler[p] EXCEPT !.at = "store"]
    <3>1. Become(p, s) /\ \E uri \in Resolved(handler[p].client) :
                              SameRedirect(handler[p].redirect, uri)
      BY <1>5, <2>3 DEF ResolveClient
    <3>2. s.client = handler[p].client /\ s.redirect = handler[p].redirect
      BY <2>1 DEF CallbackState
    <3>3. ASSUME handler[p].client \in DcrClients  PROVE Registrable(handler[p].redirect)
      <4>1. Resolved(handler[p].client) = registered[handler[p].client]
        BY <1>1, <3>3 DEF Resolved
      <4> QED
        BY <3>1, <3>3, <4>1, SameIsRegistrable DEF WrittenAreValid
    <3> HIDE DEF s
    <3>4. handler'[p] = s /\ \A q \in Handlers : q # p => handler'[q] = handler[q]
      BY <3>1 DEF TypeOK, Become
    <3> QED
      BY <3>2, <3>3, <3>4 DEF ComparedAreRegistrable
  <2> QED
    BY <2>2, <2>3
<1>6. ASSUME NEW p \in Handlers, NEW c \in Codes, StoreCode(p, c)
      PROVE  ComparedAreRegistrable' /\ RedirectsAreRegistrable'
  <2>1. ComparedAreRegistrable'
    BY <1>3, <1>6 DEF StoreCode, Reject, Idle
  <2>2. CASE UNCHANGED codeDoc
    BY <1>2, <2>1, <2>2
  <2>3. CASE ~UNCHANGED codeDoc
    <3>1. /\ codeDoc'[c].client = handler[p].client
          /\ codeDoc'[c].redirect = handler[p].redirect
          /\ \A b \in Codes : b # c => codeDoc'[b] = codeDoc[b]
      BY <1>6, <2>3 DEF StoreCode, TypeOK
    <3> QED
      BY <1>6, <2>1, <3>1 DEF StoreCode, ComparedAreRegistrable, RedirectsAreRegistrable
  <2> QED
    BY <2>2, <2>3
<1>7. ASSUME NEW p \in Handlers,
             \/ \E u \in Uids, c \in Clients, r \in Uris, ch \in Challenges \cup {None} :
                    Callback(p, u, c, r, ch)
             \/ \E c \in Codes, client \in Clients, r \in Uris \cup {None},
                   v \in Verifiers \cup {None} : Redeem(p, c, client, r, v)
             \/ \E t \in tokens : Refresh(p, t)
      PROVE  UNCHANGED codeDoc /\ ComparedAreRegistrable'
  <2>1. ASSUME NEW u, NEW c, NEW r, NEW ch, Callback(p, u, c, r, ch)
        PROVE  \E s : Become(p, s) /\ s.at # "store"
    BY <2>1 DEF Callback
  <2>2. ASSUME NEW c, NEW client, NEW r, NEW v, Redeem(p, c, client, r, v)
        PROVE  \E s : Become(p, s) /\ s.at # "store"
    <3> DEFINE s == [at |-> "delete", uid |-> codeDoc[c].uid, grant |-> c,
                     client |-> client, redirect |-> r, verifier |-> v]
    <3>1. Become(p, s) /\ s.at # "store"
      BY <2>2 DEF Redeem
    <3> QED
      BY <3>1
  <2>3. ASSUME NEW t, Refresh(p, t)  PROVE \E s : Become(p, s) /\ s.at # "store"
    <3> DEFINE s == [at |-> "fetch", by |-> "refresh", uid |-> t.sub, grant |-> t.grant,
                     client |-> t.client]
    <3>1. Become(p, s) /\ s.at # "store"
      BY <2>3 DEF Refresh
    <3> QED
      BY <3>1
  <2>4. PICK s : Become(p, s) /\ s.at # "store"
    BY <1>7, <2>1, <2>2, <2>3
  <2>5. UNCHANGED codeDoc
    BY <1>7 DEF Callback, Redeem, Refresh
  <2> QED
    BY <1>3, <2>4, <2>5
<1>8. ASSUME NEW p \in Handlers, VerifyCode(p) \/ FetchUser(p) \/ IssueTokens(p)
      PROVE  UNCHANGED codeDoc /\ ComparedAreRegistrable'
  <2>1. Idle.at # "store"
    BY DEF Idle
  <2>2. PICK s : Become(p, s) /\ s.at # "store"
    BY <1>8, <2>1 DEF VerifyCode, FetchUser, IssueTokens, Reject
  <2> QED
    BY <1>3, <1>8, <2>2 DEF VerifyCode, FetchUser, IssueTokens
<1>9. ASSUME NEW p \in Handlers, QueryPreRegistered(p) \/ Activate(p) \/ DeleteCode(p)
      PROVE  UNCHANGED codeDoc /\ ComparedAreRegistrable'
  <2>1. handler[p] \in CallbackState \cup RedeemState
    BY <1>9, HandlerShape DEF QueryPreRegistered, Activate, DeleteCode
  <2>2. /\ \A d : [handler[p] EXCEPT !.at = "activate", !.doc = d].at = "activate"
        /\ [handler[p] EXCEPT !.at = "resolve"].at = "resolve"
        /\ [handler[p] EXCEPT !.at = "verify"].at = "verify"
        /\ Idle.at # "store"
    BY <2>1 DEF CallbackState, RedeemState, Idle
  <2>3. PICK s : Become(p, s) /\ s.at # "store"
    BY <1>9, <2>2 DEF QueryPreRegistered, Activate, DeleteCode, Reject
  <2> QED
    BY <1>3, <1>9, <2>3 DEF QueryPreRegistered, Activate, DeleteCode
<1>10. ASSUME NEW p \in Handlers, HandlerStep(p)
       PROVE  ComparedAreRegistrable' /\ RedirectsAreRegistrable'
  <2>1. ASSUME ResolveClient(p)  PROVE ComparedAreRegistrable' /\ RedirectsAreRegistrable'
    BY <1>2, <1>5, <2>1 DEF ResolveClient
  <2> QED
    BY <1>2, <1>6, <1>7, <1>8, <1>9, <1>10, <2>1 DEF HandlerStep
<1>11. ASSUME UNCHANGED <<handler, codeDoc>>
       PROVE  ComparedAreRegistrable' /\ RedirectsAreRegistrable'
  BY <1>2, <1>4, <1>11
<1> QED
  BY <1>10, <1>11 DEF Step, PurgeExpired, AdminStep, MintToken, RegistryStep, Tick

LEMMA AInvHolds == Spec => []AInv
<1>1. Init => AInv
  <2> SUFFICES ASSUME Init  PROVE AInv
    OBVIOUS
  <2>1. ActivatedHaveDocument /\ ApprovedHaveDocument
    BY DirectoryAssumption
       DEF Init, DirectoryInit, ActivatedHaveDocument, ApprovedHaveDocument
  <2>2. WrittenAreValid
    BY DEF Init, RegistryInit, WrittenAreValid
  <2>3. ComparedAreRegistrable /\ RedirectsAreRegistrable
    BY DEF Init, Idle, ComparedAreRegistrable, RedirectsAreRegistrable
  <2> QED
    BY <2>1, <2>2, <2>3 DEF AInv
<1>2. IInv /\ AInv /\ [Next]_vars => AInv'
  <2> SUFFICES ASSUME IInv, AInv, [Next]_vars  PROVE AInv'
    OBVIOUS
  <2>1. CASE Step
    <3>1. TypeOK /\ KeyedByOwner /\ LinksGoToOwnAddress
      BY DEF IInv
    <3>2. ActivatedHaveDocument' /\ ApprovedHaveDocument'
      BY <2>1, <3>1, StepAdmitsUsers DEF AInv
    <3>3. ComparedAreRegistrable' /\ RedirectsAreRegistrable'
      BY <2>1, <3>1, StepAdmitsRedirects DEF AInv
    <3>4. WrittenAreValid'
      <4>1. CASE RegistryNext
        BY <3>1, <4>1, RegistryAdmits DEF TypeOK, AInv
      <4>2. CASE UNCHANGED registryVars
        BY <4>2 DEF registryVars, AInv, WrittenAreValid
      <4> QED
        BY <2>1, <4>1, <4>2
           DEF Step, HandlerStep, Callback, QueryPreRegistered, Activate, ResolveClient,
               StoreCode, Redeem, DeleteCode, VerifyCode, Refresh, FetchUser, IssueTokens,
               PurgeExpired, AdminStep, MintToken, RegistryStep, Tick
    <3> QED
      BY <3>2, <3>3, <3>4 DEF AInv
  <2>2. CASE UNCHANGED vars
    BY <2>2 DEF vars, directoryVars, registryVars, oauthVars, AInv, ActivatedHaveDocument,
                ApprovedHaveDocument, WrittenAreValid, ComparedAreRegistrable,
                RedirectsAreRegistrable
  <2> QED
    BY <2>1, <2>2 DEF Next
<1> QED
  BY <1>1, <1>2, Invariance, PTL DEF Spec
------------------------------------------------------------------------------
\* Whoever's request is marked "approved" has a document in authorized_users,
\* whatever commands run at the same time and whichever of their calls fail.
THEOREM ApprovedAreAuthorized == Spec => []ApprovedHaveDocument
BY AInvHolds, PTL DEF AInv

\* A client that was told its id resolves to at least one redirect URI.
THEOREM AnnouncedResolve == Spec => []AnnouncedClientsResolve
<1>1. AInv => AnnouncedClientsResolve
  BY DEF AInv, WrittenAreValid, AnnouncedClientsResolve
<1> QED
  BY <1>1, AInvHolds, PTL

\* No code of a registered client is bound to a URI that registration refuses.
THEOREM CodesGoToRegistrable == Spec => []RedirectsAreRegistrable
BY AInvHolds, PTL DEF AInv
===============================================================================
