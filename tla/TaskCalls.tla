------------------------------ MODULE TaskCalls ------------------------------
(***************************************************************************)
(* The calls of taskstore.Store as its users make them: what a call asks     *)
(* for and what it is answered.                                              *)
(***************************************************************************)
EXTENDS Naturals

CONSTANTS Callers,   \* request handlers and task executions that use the store
          Ids,       \* task ids
          Payloads,  \* task contents
          Users,     \* authenticated users, "" included
          Named,     \* versions an update may name, Missing included
          None

\* taskstore.TaskVersionMissing: "whatever version is stored".
Missing == 0

Request ==
    [op : {"create"}, id : Ids, payload : Payloads, user : Users]
    \cup [op : {"update"}, id : Ids, payload : Payloads, prev : Named]
    \cup [op : {"get"}, id : Ids]

Answer ==
    [result : {"ok"}, version : Nat, payload : Payloads]
    \cup [result : {"exists", "missing", "conflict", "error"}]

Ok(version, payload) == [result |-> "ok", version |-> version, payload |-> payload]
Refused(why) == [result |-> why]

\* A task as its users see it.
Task == [payload : Payloads, version : Nat, user : Users]

ASSUME CallsAssumption == Named \subseteq Nat /\ None \notin Task
==============================================================================
