------------------------------ MODULE TaskStore ------------------------------
(***************************************************************************)
(* FirestoreTaskStore (taskstore_firestore.go): A2A tasks in the a2a_tasks    *)
(* collection.  Create and Update run as Firestore transactions: a closure     *)
(* reads the document and stages a write, and the commit is refused when the    *)
(* document was written since; the client then runs the closure again.         *)
(***************************************************************************)
EXTENDS TaskCalls

CONSTANTS TaskTTL,      \* taskTTL
          MaxAttempts,  \* attempts of the Firestore client at a transaction
          MaxVersion,   \* bound: no update is begun beyond this version
          MaxTime,      \* bound: the clock stops here
          Faults        \* may contain "error": Firestore calls may fail

\* a2aTaskDoc.  A version is never Missing.
Doc == [payload : Payloads, version : Nat \ {Missing}, user : Users, expires : Nat]

ASSUME StoreAssumption ==
    /\ TaskTTL \in Nat
    /\ MaxAttempts \in Nat \ {0}
    /\ MaxVersion \in Nat /\ MaxTime \in Nat
    /\ None \notin Doc

Idle == [at |-> "idle"]

Call == {Idle}
        \cup [at : {"begun"}, req : Request, tries : 1..MaxAttempts]
        \cup [at : {"staged", "stale"}, req : Request, tries : 1..MaxAttempts, write : Doc]
        \cup [at : {"answered"}, req : Request, answer : Answer]

VARIABLES
    store,    \* a2a_tasks: id -> Doc or None
    call,     \* what each caller is doing; a staged write is stale once the
              \* document was written after the transaction read it
    purged,   \* ids whose document the TTL policy has removed
    now       \* the clock

vars == <<store, call, purged, now>>

Init ==
    /\ store = [i \in Ids |-> None]
    /\ call = [p \in Callers |-> Idle]
    /\ purged = {}
    /\ now = 0

AnswerWith(p, answer) ==
    call' = [call EXCEPT ![p] = [at |-> "answered", req |-> call[p].req,
                                 answer |-> answer]]

\* A write to a document spoils the transactions that have read it.
Spoil(calls, i) ==
    [p \in Callers |-> IF calls[p].at = "staged" /\ calls[p].req.id = i
                       THEN [calls[p] EXCEPT !.at = "stale"]
                       ELSE calls[p]]

\* The call is under way.
Busy(c) == c.at \in {"begun", "staged", "stale"}
------------------------------------------------------------------------------
\* Task ids are drawn afresh, so the id of a purged task is not created again.
Begin(p, req) ==
    /\ call[p] = Idle
    /\ req.op = "create" => req.id \notin purged
    /\ req.op = "update" /\ store[req.id] # None => store[req.id].version < MaxVersion
    /\ call' = [call EXCEPT ![p] = [at |-> "begun", req |-> req, tries |-> 1]]
    /\ UNCHANGED <<store, purged, now>>

\* Mutant: versions start at 0.
newDocFromZero(payload, version, user) ==
    [payload |-> payload, version |-> version - 1, user |-> user,
     expires |-> now + TaskTTL]

newDoc(payload, version, user) ==
    [payload |-> payload, version |-> version, user |-> user, expires |-> now + TaskTTL]

Stage(p, doc) ==
    call' = [call EXCEPT ![p] = [at |-> "staged", req |-> call[p].req,
                                 tries |-> call[p].tries, write |-> doc]]

\* Mutant: the document is written whether or not there is one.
CreateClosureBlind(p) ==
    LET r == call[p].req
    IN  /\ call[p].at = "begun" /\ r.op = "create"
        /\ Stage(p, newDoc(r.payload, 1, r.user))
        /\ UNCHANGED <<store, purged, now>>

\* The closure of Create: the read, and what follows from it.
CreateClosure(p) ==
    LET r == call[p].req
    IN  /\ call[p].at = "begun" /\ r.op = "create"
        /\ \/ store[r.id] # None /\ AnswerWith(p, Refused("exists"))
           \/ store[r.id] = None /\ Stage(p, newDoc(r.payload, 1, r.user))
        /\ UNCHANGED <<store, purged, now>>

\* Mutant: the new version is counted from the one the caller names.
UpdateClosureFromPrev(p) ==
    LET r == call[p].req
        stored == store[r.id]
    IN  /\ call[p].at = "begun" /\ r.op = "update"
        /\ \/ stored = None /\ AnswerWith(p, Refused("missing"))
           \/ /\ stored # None
              /\ r.prev # Missing /\ stored.version # r.prev
              /\ AnswerWith(p, Refused("conflict"))
           \/ /\ stored # None
              /\ r.prev = Missing \/ stored.version = r.prev
              /\ Stage(p, newDoc(r.payload, r.prev + 1, stored.user))
        /\ UNCHANGED <<store, purged, now>>

\* The closure of Update: the stored owner is kept, the expiry is renewed.
UpdateClosure(p) ==
    LET r == call[p].req
        stored == store[r.id]
    IN  /\ call[p].at = "begun" /\ r.op = "update"
        /\ \/ stored = None /\ AnswerWith(p, Refused("missing"))
           \/ /\ stored # None
              /\ r.prev # Missing /\ stored.version # r.prev
              /\ AnswerWith(p, Refused("conflict"))
           \/ /\ stored # None
              /\ r.prev = Missing \/ stored.version = r.prev
              /\ Stage(p, newDoc(r.payload, stored.version + 1, stored.user))
        /\ UNCHANGED <<store, purged, now>>

\* Mutant: a plain Set after the read, outside a transaction.
CommitUnchecked(p) ==
    LET i == call[p].req.id
        doc == call[p].write
    IN  /\ call[p].at \in {"staged", "stale"}
        /\ store' = [store EXCEPT ![i] = doc]
        /\ call' = Spoil([call EXCEPT ![p] =
                            [at |-> "answered", req |-> call[p].req,
                             answer |-> Ok(doc.version, doc.payload)]], i)
        /\ UNCHANGED <<purged, now>>

\* The commit applies the write; its answer may still be lost.
Commit(p) ==
    LET i == call[p].req.id
        doc == call[p].write
    IN  /\ call[p].at = "staged"
        /\ store' = [store EXCEPT ![i] = doc]
        /\ \E a \in {Ok(doc.version, doc.payload), Refused("error")} :
               /\ a = Refused("error") => "error" \in Faults
               /\ call' = Spoil([call EXCEPT ![p] = [at |-> "answered", req |-> call[p].req,
                                                     answer |-> a]], i)
        /\ UNCHANGED <<purged, now>>

\* Mutant: attempts are not counted.
AbortUncounted(p) ==
    /\ call[p].at \in {"staged", "stale"}
    /\ call' = [call EXCEPT ![p] = [at |-> "begun", req |-> call[p].req,
                                    tries |-> call[p].tries]]
    /\ UNCHANGED <<store, purged, now>>

\* Firestore aborts a transaction that has lost a race, and may abort others;
\* RunTransaction tries again a few times.
Abort(p) ==
    /\ call[p].at \in {"staged", "stale"}
    /\ \/ /\ call[p].tries < MaxAttempts
          /\ call' = [call EXCEPT ![p] = [at |-> "begun", req |-> call[p].req,
                                          tries |-> call[p].tries + 1]]
       \/ /\ call[p].tries = MaxAttempts
          /\ AnswerWith(p, Refused("error"))
    /\ UNCHANGED <<store, purged, now>>

\* Any other error of a read or a commit ends the call.
Fail(p) ==
    /\ "error" \in Faults
    /\ Busy(call[p])
    /\ AnswerWith(p, Refused("error"))
    /\ UNCHANGED <<store, purged, now>>

\* Get is one read, outside any transaction.
Get(p) ==
    LET stored == store[call[p].req.id]
    IN  /\ call[p].at = "begun" /\ call[p].req.op = "get"
        /\ \/ stored = None /\ AnswerWith(p, Refused("missing"))
           \/ stored # None /\ AnswerWith(p, Ok(stored.version, stored.payload))
        /\ UNCHANGED <<store, purged, now>>

Return(p) ==
    /\ call[p].at = "answered"
    /\ call' = [call EXCEPT ![p] = Idle]
    /\ UNCHANGED <<store, purged, now>>

\* A Create of i that has not been answered.
Creating(c, i) == Busy(c) /\ c.req.op = "create" /\ c.req.id = i

\* The TTL policy on expiresAt, at some time after the expiry.  Creating a task
\* does not take as long as its lifetime.
Purge(i) ==
    /\ store[i] # None
    /\ now > store[i].expires
    /\ \A p \in Callers : ~Creating(call[p], i)
    /\ store' = [store EXCEPT ![i] = None]
    /\ call' = Spoil(call, i)
    /\ purged' = purged \cup {i}
    /\ UNCHANGED now

Tick == now < MaxTime /\ now' = now + 1 /\ UNCHANGED <<store, call, purged>>

\* The steps a call takes without anyone's help.
Proceed(p) ==
    CreateClosure(p) \/ UpdateClosure(p) \/ Commit(p) \/ Abort(p) \/ Fail(p) \/ Get(p)

Next ==
    \/ \E p \in Callers :
          \/ \E req \in Request : Begin(p, req)
          \/ Proceed(p)
          \/ Return(p)
    \/ \E i \in Ids : Purge(i)
    \/ Tick

Spec == Init /\ [][Next]_vars

\* Firestore answers and the client goes on.
FairSpec == Spec /\ \A p \in Callers : WF_vars(Proceed(p))
------------------------------------------------------------------------------
TypeOK ==
    /\ store \in [Ids -> Doc \cup {None}]
    /\ call \in [Callers -> Call]
    /\ purged \subseteq Ids
    /\ now \in Nat

\* The write of c is the one its request calls for on the document stored now.
Fits(c) ==
    LET r == c.req
        old == store[r.id]
        new == c.write
    IN  /\ new.payload = r.payload
        /\ \/ r.op = "create" /\ old = None /\ new.version = 1 /\ new.user = r.user
           \/ /\ r.op = "update" /\ old # None
              /\ r.prev \in {Missing, old.version}
              /\ new.version = old.version + 1
              /\ new.user = old.user

\* A staged write that is not stale fits: what the transactions of Create
\* and Update guarantee, and what makes each of them take effect at its commit.
StagedFits ==
    \A p \in Callers : call[p].at = "staged" => Fits(call[p])

\* Only a create or an update stages a write.
StagedIsWrite ==
    \A p \in Callers : call[p].at = "staged" => call[p].req.op \in {"create", "update"}

\* The write of c outlives the document it replaces, not taskTTL from now.
InOrder(c) ==
    LET old == store[c.req.id]
    IN  /\ c.write.expires <= now + TaskTTL
        /\ old # None => old.expires <= c.write.expires

\* Why LifeNeverShortens holds.
ExpiriesInOrder ==
    /\ \A i \in Ids : store[i] # None => store[i].expires <= now + TaskTTL
    /\ \A p \in Callers : call[p].at = "staged" => InOrder(call[p])

\* A purged task does not come back.
PurgedForGood ==
    \A i \in purged : store[i] = None /\ \A p \in Callers : ~Creating(call[p], i)

\* c is a write answered with success.
Acknowledged(c) == c.at = "answered" /\ c.answer.result = "ok" /\ c.req.op # "get"

\* An acknowledged write is stored, or later ones are, until the task is purged.
AcknowledgedAreStored ==
    \A p \in Callers : Acknowledged(call[p]) =>
        LET i == call[p].req.id
        IN  \/ i \in purged
            \/ store[i] # None /\ store[i].version >= call[p].answer.version

\* Of the writes of a task that were answered with success no two have the same
\* version: one Create wins, and two updates from the same version never both
\* do, however their transactions are interleaved, aborted and retried.
AcknowledgedVersionsDiffer ==
    \A p, q \in Callers :
        /\ p # q /\ Acknowledged(call[p]) /\ Acknowledged(call[q])
        /\ call[p].req.id = call[q].req.id
        => call[p].answer.version # call[q].answer.version

\* The inductive invariant of TaskStoreProofs.
IInv == /\ TypeOK
        /\ StagedFits /\ StagedIsWrite
        /\ ExpiriesInOrder
        /\ PurgedForGood /\ AcknowledgedAreStored /\ AcknowledgedVersionsDiffer

\* A write never brings a task's expiry forward, although the expiry is computed
\* when the closure runs and not when the commit is applied (newDoc).
LifeNeverShortens ==
    [][\A i \in Ids : store[i] # None /\ store'[i] # None =>
          store'[i].expires >= store[i].expires]_vars

\* Every call is answered: a transaction that keeps losing races gives up.
CallsReturn ==
    \A p \in Callers : call[p].at = "begun" ~> call[p].at = "answered"

\* The store implements VersionedTasks: the document without its expiry is the
\* task, and a call is "asked" until its commit, or the read that refuses it.
Abstract(doc) ==
    IF doc = None THEN None
    ELSE [payload |-> doc.payload, version |-> doc.version, user |-> doc.user]

Pending(c) ==
    IF Busy(c) THEN [at |-> "asked", req |-> c.req] ELSE c

Promise == INSTANCE VersionedTasks
    WITH tasks <- [i \in Ids |-> Abstract(store[i])],
         calls <- [p \in Callers |-> Pending(call[p])]

\* Every step of the transactions is a step of the promise, or none.
ImplementsPromise == Promise!AbsSpec
==============================================================================
