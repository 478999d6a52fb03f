---------------------------- MODULE GatewayProofs ----------------------------
(***************************************************************************)
(* Theorems about the bearer check, for any users, clients, lifetimes and      *)
(* number of concurrent requests.                                             *)
(***************************************************************************)
EXTENDS Gateway, OAuthProofs

\* The clock does not run backwards, and a new access token that descends from a code is
\* one a handler has just signed with what it read.
LEMMA SignedNow ==
    ASSUME TypeOK, Step
    PROVE  /\ now' \in Nat /\ now' >= now
           /\ \A t \in tokens' \ tokens : t.kind = "access" /\ t.grant # None =>
                 \E p \in Handlers :
                    /\ handler[p].at = "issue"
                    /\ t.sub = handler[p].user.uid
                    /\ t.scopes = handler[p].user.scopes
                    /\ t.exp = now + AccessTTL
<1> DEFINE Goal ==
      /\ now' \in Nat /\ now' >= now
      /\ \A t \in tokens' \ tokens : t.kind = "access" /\ t.grant # None =>
            \E p \in Handlers :
               /\ handler[p].at = "issue"
               /\ t.sub = handler[p].user.uid
               /\ t.scopes = handler[p].user.scopes
               /\ t.exp = now + AccessTTL
<1>0. now \in Nat
  BY DEF TypeOK
<1>1. ASSUME tokens' = tokens, now' = now PROVE Goal
  BY <1>0, <1>1
<1>2. ASSUME NEW p \in Handlers, IssueTokens(p) PROVE Goal
  <2>1. now' = now /\ handler[p].at = "issue"
    BY <1>2 DEF IssueTokens
  <2>2. \A t \in tokens' \ tokens : t.kind = "access" =>
          /\ t.sub = handler[p].user.uid
          /\ t.scopes = handler[p].user.scopes
          /\ t.exp = now + AccessTTL
    <3>1. SUFFICES ASSUME NEW t \in tokens' \ tokens, t.kind = "access"
                   PROVE  t = Signed("access", handler[p].user, handler[p].client, AccessTTL,
                                     handler[p].grant)
      BY DEF Signed
    <3>2. Signed("refresh", handler[p].user, handler[p].client, RefreshTTL,
                 handler[p].grant).kind = "refresh"
      BY DEF Signed
    <3> QED
      BY <1>2, <3>1, <3>2 DEF IssueTokens
  <2> QED
    BY <1>0, <2>1, <2>2
<1>3. ASSUME NEW p \in Handlers, HandlerStep(p) PROVE Goal
  <2>1. CASE IssueTokens(p)
    BY <1>2, <2>1
  <2>2. CASE ~IssueTokens(p)
    <3>1. tokens' = tokens /\ now' = now
      BY <1>3, <2>2 DEF HandlerStep, Callback, QueryPreRegistered, Activate, ResolveClient,
         StoreCode, Redeem, DeleteCode, VerifyCode, Refresh, FetchUser
    <3> QED
      BY <1>1, <3>1
  <2> QED
    BY <2>1, <2>2
<1>4. ASSUME NEW u \in Uids, MintToken(u) PROVE Goal
  BY <1>0, <1>4 DEF MintToken
<1>5. CASE AdminStep
  <2>1. \/ tokens' = tokens /\ now' = now
        \/ \E u \in Uids : MintToken(u)
    BY <1>5 DEF AdminStep
  <2> QED
    BY <1>1, <1>4, <2>1
<1>6. CASE \E c \in Codes : PurgeExpired(c)
  BY <1>1, <1>6 DEF PurgeExpired
<1>7. CASE RegistryStep
  BY <1>1, <1>7 DEF RegistryStep
<1>8. CASE Tick
  BY <1>0, <1>8 DEF Tick
<1> QED
  BY <1>3, <1>5, <1>6, <1>7, <1>8 DEF Step

\* The user a token descends from is a user.
LEMMA SubjectsAreUsers ==
    ASSUME TypeOK, TokensFollowTheirGrant, NEW t \in tokens, t.grant # None
    PROVE  t.sub \in Uids /\ t.scopes \subseteq Scopes /\ t.exp \in Nat
<1>1. t \in Token
  BY DEF TypeOK
<1>2. t.grant \in Codes /\ t.scopes \subseteq Scopes /\ t.exp \in Nat
  BY <1>1 DEF Token
<1>3. codeDoc[t.grant] \in CodeDoc
  BY <1>2 DEF TypeOK, TokensFollowTheirGrant
<1>4. codeDoc[t.grant].uid \in Uids
  BY <1>3 DEF CodeDoc
<1> QED
  BY <1>2, <1>4 DEF TokensFollowTheirGrant

\* Every step keeps the history in line with the directory, the handlers and the tokens.
LEMMA GatewayStep ==
    ASSUME IInv, IInv', GatewayIInv, GatewayNext
    PROVE  GatewayIInv'
<1>1. /\ now \in Nat /\ now' \in Nat /\ now' >= now
      /\ AccessTTL \in Nat
  BY SignedNow, OAuthAssumption DEF IInv, TypeOK, GatewayNext, Next
<1>2. \A u \in Uids, s \in Scopes :
        /\ lastAlive'[u][s] = IF Alive(u, s)' THEN now' ELSE lastAlive[u][s]
        /\ lastAlive[u][s] \in Int /\ lastAlive[u][s] <= now
  BY DEF GatewayNext, Follow, GatewayIInv, LastAliveOK
<1>3. \A u \in Uids, s \in Scopes : lastAlive'[u][s] >= lastAlive[u][s]
  BY <1>1, <1>2
<1>4. LastAliveOK'
  <2>1. lastAlive' \in [Uids -> [Scopes -> Int]]
    BY <1>1, <1>2 DEF GatewayNext, Follow
  <2> QED
    BY <1>1, <1>2, <2>1 DEF LastAliveOK
<1>5. AliveIsFollowed'
  BY <1>2 DEF AliveIsFollowed
<1>6. TokensAreRecent'
  <2>1. SUFFICES ASSUME NEW t \in tokens', t.kind = "access", t.grant # None,
                        NEW s \in t.scopes
                 PROVE  t.exp <= lastAlive'[t.sub][s] + AccessTTL
    BY DEF TokensAreRecent
  <2>2. t.sub \in Uids /\ s \in Scopes /\ t.exp \in Nat
    <3>1. TypeOK' /\ TokensFollowTheirGrant'
      BY DEF IInv
    <3>2. t \in Token
      BY <3>1 DEF TypeOK
    <3>3. t.grant \in Codes /\ t.scopes \subseteq Scopes /\ t.exp \in Nat
      BY <2>1, <3>2 DEF Token
    <3>4. codeDoc'[t.grant] \in CodeDoc /\ t.sub = codeDoc'[t.grant].uid
      BY <2>1, <3>1, <3>3 DEF TypeOK, TokensFollowTheirGrant
    <3> QED
      BY <2>1, <3>3, <3>4 DEF CodeDoc
  <2>3. CASE t \in tokens
    <3>1. t.exp <= lastAlive[t.sub][s] + AccessTTL
      BY <2>1, <2>3 DEF GatewayIInv, TokensAreRecent
    <3> QED
      BY <1>1, <1>2, <1>3, <2>2, <3>1
  <2>4. CASE t \notin tokens
    <3>1. PICK p \in Handlers : /\ handler[p].at = "issue"
                                /\ t.sub = handler[p].user.uid
                                /\ t.scopes = handler[p].user.scopes
                                /\ t.exp = now + AccessTTL
      BY <2>1, <2>4, SignedNow DEF IInv, GatewayNext, Next
    <3>2. t.sub = handler[p].uid /\ s \in heldSince[p]
      BY <2>1, <3>1 DEF IInv, HandlersFollowTheirGrant, FollowsGrant, ScopesAreFresh
    <3>3. Alive(t.sub, s)
      BY <3>1, <3>2 DEF Alive
    <3>4. lastAlive[t.sub][s] = now
      BY <2>2, <3>3 DEF GatewayIInv, AliveIsFollowed
    <3> QED
      BY <1>1, <1>2, <1>3, <2>2, <3>1, <3>4
  <2> QED
    BY <2>3, <2>4
<1> QED
  BY <1>4, <1>5, <1>6 DEF GatewayIInv

\* Nobody holds anything at first.
LEMMA GatewayInitHolds == GatewayInit => GatewayIInv
<1> SUFFICES ASSUME GatewayInit
             PROVE  GatewayIInv
  OBVIOUS
<1>1. /\ now = 0 /\ tokens = {}
      /\ \A p \in Handlers : handler[p] = Idle
      /\ \A d \in DocIds : users[d] = None
      /\ lastAlive = [u \in Uids |-> [s \in Scopes |-> -1]]
  BY DEF GatewayInit, Init, DirectoryInit
<1>2. \A u, s : ~Alive(u, s)
  BY <1>1 DEF Alive, Idle, Effective, Admissible
<1> QED
  BY <1>1, <1>2 DEF GatewayIInv, LastAliveOK, AliveIsFollowed, TokensAreRecent

\* For every client and however it refreshes, a token that descends from a sign-in opens
\* nothing later than one access token lifetime after its user last held what the endpoint
\* asks for (oauth.go, oauthMiddleware; main.go, gate).
THEOREM RevocationReaches == GatewaySpec => []RevocationBites
<1>1. GatewaySpec => Spec
  <2>1. GatewayInit => Init
    BY DEF GatewayInit
  <2>2. [GatewayNext]_gatewayVars => [Next]_vars
    BY DEF GatewayNext, gatewayVars
  <2> QED
    BY <2>1, <2>2, PTL DEF GatewaySpec, Spec
<1>2. Spec => []IInv
  BY Invariance
<1>3. GatewayIInv /\ IInv /\ IInv' /\ [GatewayNext]_gatewayVars => GatewayIInv'
  <2>1. CASE GatewayNext
    BY <2>1, GatewayStep
  <2>2. CASE UNCHANGED gatewayVars
    BY <2>2 DEF gatewayVars, vars, directoryVars, oauthVars, GatewayIInv, LastAliveOK,
       AliveIsFollowed, TokensAreRecent, Alive, Effective, Admissible
  <2> QED
    BY <2>1, <2>2
<1>4. GatewayIInv /\ IInv => RevocationBites
  <2>1. SUFFICES ASSUME GatewayIInv, IInv, NEW t \in tokens, NEW path \in Paths,
                        Serves(path, t), t.grant # None, NEW s \in Required[path]
                 PROVE  now < lastAlive[t.sub][s] + AccessTTL
    BY DEF RevocationBites
  <2>2. now < t.exp /\ t.kind = "access" /\ s \in t.scopes
    BY <2>1 DEF Serves, Authenticated, authorizeScopes
  <2>3. t.exp <= lastAlive[t.sub][s] + AccessTTL
    BY <2>1, <2>2 DEF GatewayIInv, TokensAreRecent
  <2>4. t.sub \in Uids /\ s \in Scopes /\ t.exp \in Nat
    BY <2>1, <2>2, SubjectsAreUsers DEF IInv
  <2>5. now \in Nat /\ AccessTTL \in Nat /\ lastAlive[t.sub][s] \in Int
    BY <2>1, <2>4, OAuthAssumption DEF IInv, TypeOK, GatewayIInv, LastAliveOK
  <2> QED
    BY <2>2, <2>3, <2>4, <2>5
<1> QED
  BY <1>1, <1>2, <1>3, <1>4, GatewayInitHolds, PTL DEF GatewaySpec
==============================================================================
