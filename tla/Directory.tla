------------------------------ MODULE Directory ------------------------------
(***************************************************************************)
(* The authorized_users and access_requests collections, and the           *)
(* eldamo-admin commands that write them (cmd/eldamo-admin/main.go).        *)
(*                                                                         *)
(* A document of authorized_users is keyed by a Firebase UID or, when       *)
(* `pre-register` made it, by an e-mail address.  Every command is a        *)
(* process of its own: `approve` and `grant-all` make several Firestore     *)
(* calls, and anything else may happen between two of them.                 *)
(***************************************************************************)
EXTENDS Naturals

CONSTANTS Uids,           \* Firebase UIDs
          Emails,         \* e-mail addresses
          EmailOf,        \* the address in each Firebase account's ID tokens
          Scopes,         \* permission scopes
          DefaultScopes,  \* what a new user is given
          None            \* no document, no parameter, the empty uid ""

DocIds == Uids \cup Emails

User == [uid    : Uids \cup {None},
         email  : Emails,
         active : BOOLEAN,
         scopes : SUBSET Scopes]

Sweep == [scopes : SUBSET Scopes, todo : SUBSET DocIds]

ASSUME DirectoryAssumption ==
    /\ EmailOf \in [Uids -> Emails]
    /\ DefaultScopes \subseteq Scopes
    /\ Uids \cap Emails = {}
    /\ None \notin DocIds \cup User \cup Sweep
    /\ None \notin {"pending", "approved"}

VARIABLES
    users,      \* authorized_users: document id -> User or None
    requests,   \* access_requests: uid -> None, "pending" or "approved"
    approving,  \* how far a running `requests approve <uid>` has got
    sweep       \* the running `grant-all`: its scopes and the documents left

directoryVars == <<users, requests, approving, sweep>>

DirectoryInit ==
    /\ users = [d \in DocIds |-> None]
    /\ requests = [u \in Uids |-> None]
    /\ approving = [u \in Uids |-> "idle"]
    /\ sweep = None

Existing == {d \in DocIds : users[d] # None}

\* Doc(id).Get: the empty id names no document.
Stored(id) == IF id \in DocIds THEN users[id] ELSE None

\* Mutant: the uid is left out of the new document.
NewUserWithoutUid(uid, email, active) ==
    [uid |-> None, email |-> email, active |-> active, scopes |-> DefaultScopes]

NewUser(uid, email, active) ==
    [uid |-> uid, email |-> email, active |-> active, scopes |-> DefaultScopes]
------------------------------------------------------------------------------
\* A signed-in visitor asks for access on the portal (a web page outside src).
RequestAccess(u) ==
    /\ requests[u] = None
    /\ requests' = [requests EXCEPT ![u] = "pending"]
    /\ UNCHANGED <<users, approving, sweep>>

\* `requests approve <uid>`: read the request ...
ApproveFetch(u) ==
    /\ approving[u] = "idle"
    /\ requests[u] # None
    /\ approving' = [approving EXCEPT ![u] = "fetched"]
    /\ UNCHANGED <<users, requests, sweep>>

\* Mutant: an error of the write does not end the command.
ApproveActivateUnchecked(u, e) ==
    /\ approving[u] = "fetched"
    /\ \/ users' = [users EXCEPT ![u] = NewUser(u, e, TRUE)]
       \/ UNCHANGED users
    /\ approving' = [approving EXCEPT ![u] = "activated"]
    /\ UNCHANGED <<requests, sweep>>

\* ... overwrite the user's document, with the address e the request names; an
\* error ends the command, whether or not the write was applied ...
ApproveActivate(u, e) ==
    /\ approving[u] = "fetched"
    /\ \/ /\ users' = [users EXCEPT ![u] = NewUser(u, e, TRUE)]
          /\ \E next \in {"activated", "idle"} :
                approving' = [approving EXCEPT ![u] = next]
       \/ UNCHANGED users /\ approving' = [approving EXCEPT ![u] = "idle"]
    /\ UNCHANGED <<requests, sweep>>

\* ... and mark the request; an error of this last call is ignored.
ApproveMark(u) ==
    /\ approving[u] = "activated"
    /\ \/ requests' = [requests EXCEPT ![u] = "approved"]
       \/ UNCHANGED requests
    /\ approving' = [approving EXCEPT ![u] = "idle"]
    /\ UNCHANGED <<users, sweep>>

\* `add <uid> <email>` overwrites the document keyed by the uid.
Add(u, e) ==
    /\ users' = [users EXCEPT ![u] = NewUser(u, e, TRUE)]
    /\ UNCHANGED <<requests, approving, sweep>>

\* `pre-register <email>` overwrites the document keyed by the address.
PreRegister(e) ==
    /\ users' = [users EXCEPT ![e] = NewUser(None, e, FALSE)]
    /\ UNCHANGED <<requests, approving, sweep>>

\* `grant <uid-or-email> <scope>`: an address is first resolved to the uid by
\* Firebase Auth; the Update fails when no document is keyed by that uid.
Grant(u, s) ==
    /\ users[u] # None
    /\ users' = [users EXCEPT ![u].scopes = @ \cup {s}]
    /\ UNCHANGED <<requests, approving, sweep>>

\* `revoke-scope <uid-or-email> <scope>`.
RevokeScope(u, s) ==
    /\ users[u] # None
    /\ users' = [users EXCEPT ![u].scopes = @ \ {s}]
    /\ UNCHANGED <<requests, approving, sweep>>

\* Mutant: the accounts are listed instead of their documents.
GrantAllAccounts(S) ==
    /\ sweep = None
    /\ sweep' = [scopes |-> S, todo |-> Uids]
    /\ UNCHANGED <<users, requests, approving>>

\* `grant-all <scope>...` lists the documents ...
GrantAllList(S) ==
    /\ sweep = None
    /\ sweep' = [scopes |-> S, todo |-> Existing]
    /\ UNCHANGED <<users, requests, approving>>

\* ... and updates them one after the other; a failed update is skipped.
GrantAllUpdate(d) ==
    /\ sweep # None
    /\ d \in sweep.todo
    /\ \/ users' = [users EXCEPT ![d].scopes = @ \cup sweep.scopes]
       \/ UNCHANGED users
    /\ sweep' = [sweep EXCEPT !.todo = @ \ {d}]
    /\ UNCHANGED <<requests, approving>>

GrantAllDone ==
    /\ sweep # None
    /\ sweep.todo = {}
    /\ sweep' = None
    /\ UNCHANGED <<users, requests, approving>>

\* An administrator clears `active` in the Firestore console; the command
\* line has no command for it.
Deactivate(d) ==
    /\ users[d] # None
    /\ users[d].active
    /\ users' = [users EXCEPT ![d].active = FALSE]
    /\ UNCHANGED <<requests, approving, sweep>>

DirectoryNext ==
    \/ \E u \in Uids : \/ RequestAccess(u)
                       \/ ApproveFetch(u)
                       \/ ApproveMark(u)
                       \/ \E e \in Emails : ApproveActivate(u, e) \/ Add(u, e)
                       \/ \E s \in Scopes : Grant(u, s) \/ RevokeScope(u, s)
    \/ \E e \in Emails : PreRegister(e)
    \/ \E S \in (SUBSET Scopes) \ {{}} : GrantAllList(S)
    \/ \E d \in DocIds : GrantAllUpdate(d) \/ Deactivate(d)
    \/ GrantAllDone
------------------------------------------------------------------------------
DirectoryTypeOK ==
    /\ users \in [DocIds -> User \cup {None}]
    /\ requests \in [Uids -> {None, "pending", "approved"}]
    /\ approving \in [Uids -> {"idle", "fetched", "activated"}]
    /\ sweep \in Sweep \cup {None}
    /\ sweep # None => sweep.todo \subseteq Existing
==============================================================================
