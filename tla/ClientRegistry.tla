---------------------------- MODULE ClientRegistry ----------------------------
(***************************************************************************)
(* The two ways a client becomes known to the authorization server          *)
(* (oauth.go): Dynamic Client Registration, which stores a document in       *)
(* registered_clients, and Client ID Metadata Documents, fetched from the    *)
(* client's own URL whenever they are needed.  Both end in a set of          *)
(* redirect URIs, against which the authorize flow compares.                 *)
(***************************************************************************)
EXTENDS Naturals, Sequences, FiniteSets

CONSTANTS DcrClients,     \* ids that registration may draw at random
          CimdClients,    \* client ids that are URLs
          Published,      \* what each such URL serves
          Uris,           \* redirect URIs
          Submissions,    \* redirect_uris lists a registration request carries
          MaxRedirectURIs \* maxRedirectURIs (10)

Clients == DcrClients \cup CimdClients

\* The parts of a URI the server looks at.
Uri == [scheme : STRING, host : STRING, port : Nat, path : STRING]

\* A fetched metadata document, with the scheme and host of its own URL.
Metadata == [scheme : STRING, host : STRING, clientId : Clients, uris : SUBSET Uris]

ASSUME RegistryAssumption ==
    /\ DcrClients \cap CimdClients = {}
    /\ Uris \subseteq Uri
    /\ Published \in [CimdClients -> Metadata]
    /\ Submissions \subseteq Seq(Uris)
    /\ MaxRedirectURIs \in Nat

VARIABLES
    registered, \* registered_clients: the stored redirect URIs, {} if no document
    enrolment   \* how far the registration that drew an id has got

registryVars == <<registered, enrolment>>

RegistryInit ==
    /\ registered = [c \in DcrClients |-> {}]
    /\ enrolment = [c \in DcrClients |-> "unused"]

Loopback(u) == u.host \in {"localhost", "127.0.0.1"}

\* validateRedirectURIForRegistration
Registrable(u) == \/ u.scheme = "https"
                  \/ u.scheme = "http" /\ Loopback(u)

\* The elements of a redirect_uris list.
Listed(uris) == {uris[i] : i \in 1..Len(uris)}

\* buildClientRegistration accepts the request
ValidRegistration(uris) ==
    /\ uris # <<>>
    /\ Len(uris) <= MaxRedirectURIs
    /\ \A u \in Listed(uris) : Registrable(u)

\* Mutant: the schemes of two loopback URIs are not compared.
SameRedirectAnyScheme(requested, allowed) ==
    \/ requested = allowed
    \/ /\ Loopback(requested) /\ Loopback(allowed)
       /\ requested.path = allowed.path

\* compareRedirectURIs: equal, or both loopback and equal up to host and port
SameRedirect(requested, allowed) ==
    \/ requested = allowed
    \/ /\ Loopback(requested) /\ Loopback(allowed)
       /\ requested.scheme = allowed.scheme
       /\ requested.path = allowed.path

\* FetchAndValidateCIMD: the URIs of a document that passes validation
Fetched(c) ==
    LET doc == Published[c]
    IN  IF (doc.scheme = "https" \/ Loopback(doc)) /\ doc.clientId = c
        THEN doc.uris
        ELSE {}

\* resolveClient; {} stands for its errors, one of them an empty list
Resolved(c) == IF c \in CimdClients THEN Fetched(c) ELSE registered[c]
------------------------------------------------------------------------------
\* Mutant: an error of the write is ignored.
RegisterWriteUnchecked(c, uris) ==
    /\ enrolment[c] = "unused"
    /\ ValidRegistration(uris)
    /\ \/ registered' = [registered EXCEPT ![c] = Listed(uris)]
       \/ UNCHANGED registered
    /\ enrolment' = [enrolment EXCEPT ![c] = "written"]

\* handleClientRegistration draws an id no one has and writes the document.
\* A write that reports an error may have been applied.  (A process without a
\* Firestore client announces without storing; it cannot issue codes and is left out.)
RegisterWrite(c, uris) ==
    /\ enrolment[c] = "unused"
    /\ ValidRegistration(uris)
    /\ \/ /\ registered' = [registered EXCEPT ![c] = Listed(uris)]
          /\ \E s \in {"written", "failed"} : enrolment' = [enrolment EXCEPT ![c] = s]
       \/ /\ UNCHANGED registered
          /\ enrolment' = [enrolment EXCEPT ![c] = "failed"]

\* Only then does it answer 201 with the id.
RegisterAnswer(c) ==
    /\ enrolment[c] = "written"
    /\ enrolment' = [enrolment EXCEPT ![c] = "announced"]
    /\ UNCHANGED registered

RegistryNext == \E c \in DcrClients :
    \/ \E uris \in Submissions : RegisterWrite(c, uris)
    \/ RegisterAnswer(c)
------------------------------------------------------------------------------
RegistryTypeOK ==
    /\ registered \in [DcrClients -> SUBSET Uris]
    /\ enrolment \in [DcrClients -> {"unused", "written", "failed", "announced"}]

\* A client that was told its id can be resolved from then on: the document was
\* stored before the 201 left, and it lists at least one redirect URI.
AnnouncedClientsResolve ==
    \A c \in DcrClients : enrolment[c] = "announced" => registered[c] # {}
===============================================================================
