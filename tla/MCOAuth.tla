------------------------------- MODULE MCOAuth -------------------------------
(***************************************************************************)
(* Small instances of OAuth for TLC.                                         *)
(***************************************************************************)
EXTENDS OAuth, TLC

CONSTANTS u1, u2, e1, e2, k1, k2, v1, v2, p1, p2, c1, c2, read, audio

https    == [scheme |-> "https", host |-> "app.example", port |-> 443, path |-> "/cb"]
loopback == [scheme |-> "http", host |-> "localhost", port |-> 80, path |-> "/cb"]
ephemeral == [loopback EXCEPT !.host = "127.0.0.1", !.port = 5000]
custom   == [loopback EXCEPT !.scheme = "cursor"]

OneEmail == u1 :> e1
TwoEmails == u1 :> e1 @@ u2 :> e2

OneVerifier == v1 :> "S256(v1)"
TwoVerifiers == v1 :> "S256(v1)" @@ v2 :> "S256(v2)"

\* One client, whose URL serves a valid metadata document.
OneDocument ==
    k1 :> [scheme |-> "https", host |-> "client.example", clientId |-> k1,
           uris |-> {loopback}]
NoDocuments == <<>>

OneUri == {loopback}
AllUris == {https, loopback, ephemeral, custom}
NoSubmissions == {}
SomeSubmissions == {<<>>, <<loopback>>, <<https, loopback>>, <<custom>>,
                    <<https, loopback, ephemeral>>}

Symmetry == Permutations(Handlers) \cup Permutations(Codes)
==============================================================================
