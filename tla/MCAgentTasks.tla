----------------------------- MODULE MCAgentTasks -----------------------------
EXTENDS AgentTasks

From(user, context) == [user |-> user, context |-> context]

\* One caller with a task in one context and later ones in another; two callers.
MCSenders ==
    {[t1 |-> From("alice", "c1"), t2 |-> From("alice", "c2"), t3 |-> From("alice", "c2")],
     [t1 |-> From("alice", "c1"), t2 |-> From("bob", "c1"), t3 |-> From("", "c2")]}
==============================================================================
