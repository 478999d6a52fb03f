------------------------------- MODULE Gateway -------------------------------
(***************************************************************************)
(* The bearer check in front of the MCP and A2A endpoints: oauthMiddleware    *)
(* and the lexicon:read gate, over the tokens that OAuth's handlers sign.       *)
(*                                                                         *)
(* A token is never looked up: what it grants was read from the directory when  *)
(* it was signed.  How long a revocation takes to reach the endpoints is what    *)
(* the history `lastAlive` is for.                                              *)
(***************************************************************************)
EXTENDS OAuth, Integers

CONSTANTS Paths,     \* protected endpoints
          Required   \* the scopes the gate in front of each path asks for

ASSUME GatewayAssumption == Required \in [Paths -> SUBSET Scopes]

VARIABLE lastAlive  \* history: when each user last held each scope, or had a token
                    \* request under way that was made while holding it; -1 for never

gatewayVars == <<vars, lastAlive>>

\* The user holds the scope, or a request made while holding it is not over.
Alive(u, s) ==
    \/ s \in Effective(users, u)
    \/ \E p \in Handlers :
          /\ handler[p].at \in {"delete", "verify", "fetch", "issue"}
          /\ handler[p].uid = u
          /\ s \in heldSince[p]

GatewayInit ==
    /\ Init
    /\ lastAlive = [u \in Uids |-> [s \in Scopes |-> -1]]

Follow ==
    lastAlive' = [u \in Uids |-> [s \in Scopes |->
                    IF Alive(u, s)' THEN now' ELSE lastAlive[u][s]]]

GatewayNext == Next /\ Follow

GatewaySpec == GatewayInit /\ [][GatewayNext]_gatewayVars
------------------------------------------------------------------------------
\* A mutant: the type of the token is not looked at.
AuthenticatedAnyType(t) == now < t.exp

\* oauthMiddleware: signed by the server, not expired, an access token.
Authenticated(t) == now < t.exp /\ t.kind = "access"

authorizeScopes(t, s) == s \in t.scopes

\* A request for the path that bears the token reaches the handler behind the gate.
Serves(path, t) ==
    /\ Authenticated(t)
    /\ \A s \in Required[path] : authorizeScopes(t, s)
------------------------------------------------------------------------------
LastAliveOK ==
    /\ lastAlive \in [Uids -> [Scopes -> Int]]
    /\ \A u \in Uids, s \in Scopes : lastAlive[u][s] <= now

\* Now is the last instant for what is alive now (what makes RevocationBites inductive).
AliveIsFollowed ==
    \A u \in Uids, s \in Scopes : Alive(u, s) => lastAlive[u][s] = now

\* A token that a request for tokens was answered with expires at most one lifetime
\* after its user last held its scopes.
TokensAreRecent ==
    \A t \in tokens : t.kind = "access" /\ t.grant # None =>
        \A s \in t.scopes : t.exp <= lastAlive[t.sub][s] + AccessTTL

\* A revocation or deactivation reaches the endpoints within one access token lifetime
\* of the end of the token requests then under way, however often the client refreshes
\* in the meantime; only what an administrator signed by hand is served longer.
RevocationBites ==
    \A t \in tokens, path \in Paths : Serves(path, t) /\ t.grant # None =>
        \A s \in Required[path] : now < lastAlive[t.sub][s] + AccessTTL

\* The inductive invariant of GatewayProofs, on top of OAuth's.
GatewayIInv == LastAliveOK /\ AliveIsFollowed /\ TokensAreRecent
==============================================================================
