------------------------------- MODULE MCAgent -------------------------------
(* An instance of Agent for TLC. *)
EXTENDS Agent

MCWords == {"w"}

\* Every combination of triggers with all scopes, with all but one and with none;
\* a call without claims.
MCCalls ==
    [claims : {TRUE}, asks : SUBSET Skills, concepts : {2},
     scopes : {{}, Scopes} \cup {Scopes \ {s} : s \in Scopes \ {"skill:name-generate"}}]
    \cup [claims : {TRUE}, asks : {{"name"}}, concepts : {1, 3},
          scopes : {Scopes, Scopes \ {"skill:name-generate"}}]
    \cup {[claims |-> FALSE, scopes |-> {}, asks |-> {"name"}, concepts |-> 1]}

MCChunks ==
    [translate |-> {<<>>, <<"w">>, <<Blank>>, <<Newline>>, <<"w", Stop>>},
     neologism |-> {<<>>, <<"w">>, <<Blank>>, <<Practical>>, <<Poetic>>}]
=============================================================================
