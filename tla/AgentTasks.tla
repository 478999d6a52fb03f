------------------------------ MODULE AgentTasks ------------------------------
(***************************************************************************)
(* The tasks of the A2A agent, from the message that starts one to the day    *)
(* its document is purged: executors that follow TaskLife (what Agent          *)
(* implements), the SDK that saves each of their events, the task store        *)
(* (VersionedTasks, what TaskStore implements, and List) that newA2AHandler     *)
(* chooses, and servers that stop.  Each task has one executor, so that a save  *)
(* is one step here.                                                          *)
(***************************************************************************)
EXTENDS Integers, Sequences, FiniteSets, FiniteSetsExt, SequencesExt, Lists

CONSTANTS Ids,        \* task ids
          Users,      \* authenticated users, "" included
          Contexts,   \* context ids
          Senders,    \* id -> [user, context] of its message: the cases considered
          TaskTTL,    \* taskTTL, in days
          PageSize,   \* defaultListSize
          MaxPage,    \* the largest page size a caller may ask for (100)
          OverFetch,  \* documents read for each task of a page (4)
          MaxVersion, \* bound: the longest execution
          Faults,     \* may contain "error" (Firestore fails), "stop" (a server does)
          None

States == {"submitted", "working", "completed", "failed"}

Ended(state) == state \in {"completed", "failed"}

\* The documents of an in-memory store do not expire.
Forever == -1

Doc == [state : States, artifacts : 0..2, version : Nat \ {0},
        user : Users, context : Contexts, life : Nat \cup {Forever}]

ASSUME AgentTasksAssumption ==
    /\ Senders \subseteq [Ids -> [user : Users, context : Contexts]]
    /\ "" \notin Contexts
    /\ TaskTTL \in Nat \ {0} /\ MaxVersion \in Nat \ {0, 1}
    /\ PageSize \in 1..MaxPage /\ MaxPage \in Nat /\ OverFetch \in Nat \ {0}
    /\ None \notin Doc

\* What an executor and the SDK know of their task.
View == [at : {"running"}, state : States, artifacts : 0..2, version : Nat \ {0}]

Waiting == [at |-> "waiting"]
Over == [at |-> "over"]

VARIABLES
    sender,    \* who sends what
    durable,   \* firestoreClient is there: tasks are in Firestore, else in memory
    docs,      \* the store: id -> Doc or None; life: days to the expiry
    recent,    \* the ids stored, by updatedAt, newest first
    run        \* id -> its message waits, its executor is over, or the View it has

vars == <<sender, durable, docs, recent, run>>

\* newA2AHandler chooses the store.
Init ==
    /\ sender \in Senders
    /\ durable \in BOOLEAN
    /\ docs = [i \in Ids |-> None]
    /\ recent = <<>>
    /\ run = [i \in Ids |-> Waiting]

Running == {i \in Ids : run[i].at = "running"}

Stored == {i \in Ids : docs[i] # None}
------------------------------------------------------------------------------
(* The store *)

\* Mutant: a document without an expiry is left alone by the TTL policy.
newDocForever(i, t, version, user) ==
    [state |-> t.state, artifacts |-> t.artifacts, version |-> version,
     user |-> user, context |-> sender[i].context, life |-> Forever]

newDoc(i, t, version, user) ==
    [state |-> t.state, artifacts |-> t.artifacts, version |-> version,
     user |-> user, context |-> sender[i].context,
     life |-> IF durable THEN TaskTTL ELSE Forever]

\* The order of the documents but for i.
Others(i) ==
    IF docs[i] = None THEN recent
    ELSE LET k == CHOOSE n \in DOMAIN recent : recent[n] = i
         IN  SubSeq(recent, 1, k - 1) \o SubSeq(recent, k + 1, Len(recent))

\* The owner is the caller at first, and stays.
Write(i, t, version) ==
    LET user == IF version = 1 THEN sender[i].user ELSE docs[i].user
    IN  /\ docs' = [docs EXCEPT ![i] = newDoc(i, t, version, user)]
        /\ recent' = <<i>> \o Others(i)

\* Create, or Update naming the version last seen, accepts the write.
Accepts(i, version) ==
    IF version = 1 THEN docs[i] = None
    ELSE docs[i] # None /\ docs[i].version = version - 1

\* What List is asked; "" is no filter.
ListRequest == [size : 0..MaxPage + 1, context : Contexts \cup {""},
                state : States \cup {""}, artifacts : BOOLEAN]

SizeOf(req) == IF req.size <= 0 \/ req.size > MaxPage THEN PageSize ELSE req.size

Matching(req) ==
    {i \in Stored : /\ req.context = "" \/ docs[i].context = req.context
                    /\ req.state = "" \/ docs[i].state = req.state}

OwnedBy(user) == {i \in Stored : docs[i].user = user}

UpTo(n, s) == SubSeq(s, 1, Min({n, Len(s)}))

Shaped(i, req) ==
    [id |-> i, state |-> docs[i].state,
     artifacts |-> IF req.artifacts THEN docs[i].artifacts ELSE 0]

\* Mutant: no more documents are read than the page has room for.
FetchedPage(user, req) ==
    UpTo(SizeOf(req), Within(recent, OwnedBy(user)))

\* The query: some of the user's documents, the newest.
Fetched(user, req) ==
    UpTo(OverFetch * SizeOf(req), Within(recent, OwnedBy(user)))

\* List, for a user other than "", who is refused: the filters are applied to
\* what was fetched.
List(user, req) ==
    LET kept == UpTo(SizeOf(req), Within(Fetched(user, req), Matching(req)))
    IN  [j \in DOMAIN kept |-> Shaped(kept[j], req)]
------------------------------------------------------------------------------
(* Executors, and the SDK that saves what they yield *)

\* The events that may follow, as TaskLife has them.
After(t) ==
    {u \in [state : States, artifacts : 0..2] :
        \/ u.state = "working" /\ t.artifacts = 0 /\ u.artifacts = 0
        \/ /\ t.state = "working"
           /\ \/ u.state = "working" /\ u.artifacts = t.artifacts + 1
              \/ u.state = "failed" /\ t.artifacts = 0 /\ u.artifacts = 0
              \/ u.state = "completed" /\ t.artifacts > 0 /\ u.artifacts = t.artifacts}

SeenAs(t, version) ==
    [at |-> "running", state |-> t.state, artifacts |-> t.artifacts, version |-> version]

GoOn(i, t, version) ==
    run' = [run EXCEPT ![i] = IF Ended(t.state) THEN Over ELSE SeenAs(t, version)]

GiveUp(i) == run' = [run EXCEPT ![i] = Over]

\* Mutant: the executor goes on when an event could not be saved.
SaveHeedless(i, t, version) ==
    \/ Accepts(i, version) /\ Write(i, t, version) /\ GoOn(i, t, version)
    \/ /\ durable /\ "error" \in Faults
       /\ UNCHANGED <<docs, recent>> /\ GoOn(i, t, version - 1)

\* An event is saved, and the executor goes on; or the store refuses or fails,
\* and it does not, whether or not the write was applied.
Save(i, t, version) ==
    \/ Accepts(i, version) /\ Write(i, t, version) /\ GoOn(i, t, version)
    \/ ~Accepts(i, version) /\ UNCHANGED <<docs, recent>> /\ GiveUp(i)
    \/ /\ durable /\ "error" \in Faults
       /\ \/ Accepts(i, version) /\ Write(i, t, version)
          \/ UNCHANGED <<docs, recent>>
       /\ GiveUp(i)

\* The submitted event: a task with a fresh id.
Submit(i) ==
    /\ run[i] = Waiting
    /\ Save(i, [state |-> "submitted", artifacts |-> 0], 1)
    /\ UNCHANGED <<sender, durable>>

\* Any later event.  Near the bound an executor comes to its end.
Advance(i) ==
    /\ i \in Running
    /\ \E t \in After(run[i]) :
          /\ run[i].version >= MaxVersion =>
                Ended(t.state) \/ t.artifacts > run[i].artifacts
          /\ Save(i, t, run[i].version + 1)
    /\ UNCHANGED <<sender, durable>>

\* A message answered without a task, or refused.
Reply(i) ==
    /\ run[i] = Waiting
    /\ GiveUp(i)
    /\ UNCHANGED <<sender, durable, docs, recent>>

\* A server stops with its executors; in-memory tasks go with it.
Crash ==
    /\ "stop" \in Faults
    /\ \E lost \in SUBSET Running :
          /\ IF durable THEN lost # {} ELSE lost = Running /\ recent # <<>>
          /\ run' = [i \in Ids |-> IF i \in lost THEN Over ELSE run[i]]
    /\ IF durable THEN UNCHANGED <<docs, recent>>
       ELSE docs' = [i \in Ids |-> None] /\ recent' = <<>>
    /\ UNCHANGED <<sender, durable>>

\* A day passes, whether or not executors run: nothing bounds the time one takes
\* (Agent's FairSpec).
Day ==
    /\ \E i \in Ids : docs[i] # None /\ docs[i].life > 0
    /\ docs' = [i \in Ids |->
                  IF docs[i] # None /\ docs[i].life > 0
                  THEN [docs[i] EXCEPT !.life = @ - 1] ELSE docs[i]]
    /\ UNCHANGED <<sender, durable, recent, run>>

\* The TTL policy deletes an expired document, sooner or later; an executor still at
\* work on its task will have its next event refused.
Purge(i) ==
    /\ docs[i] # None /\ docs[i].life = 0
    /\ docs' = [docs EXCEPT ![i] = None]
    /\ recent' = Others(i)
    /\ UNCHANGED <<sender, durable, run>>

Rest == (\A i \in Ids : run[i] = Over) /\ UNCHANGED vars

Next ==
    \/ \E i \in Ids : Submit(i) \/ Advance(i) \/ Reply(i) \/ Purge(i)
    \/ Crash \/ Day \/ Rest

Spec == Init /\ [][Next]_vars

\* Days pass, and the TTL policy is registered (DEVELOPMENT.md:425).  Nothing is assumed of
\* executors: one that waits for its LLM may do so for ever.
FairSpec ==
    /\ Spec
    /\ \A i \in Ids : WF_vars(Purge(i))
    /\ WF_vars(Day)
------------------------------------------------------------------------------
(* Properties *)

TypeOK ==
    /\ sender \in [Ids -> [user : Users, context : Contexts]]
    /\ durable \in BOOLEAN
    /\ docs \in [Ids -> Doc \cup {None}]
    /\ run \in [Ids -> {Waiting, Over} \cup View]

\* What the query runs over is what is stored.
RecentAreStored ==
    recent \in Seq(Ids) /\ ToSet(recent) = Stored /\ IsInjective(recent)

\* An executor at work and the store agree on its task, unless the task expired
\* under it: Update never answers a running executor with a conflict, and with
\* "not found" only when the document was purged, so only a failure of Firestore, a
\* stop or an LLM that does not answer leaves an unfinished task behind.
EventsAreSaved ==
    \A i \in Running :
        /\ docs[i] # None =>
              run[i] = SeenAs(docs[i], docs[i].version) /\ ~Ended(docs[i].state)
        /\ docs[i] = None => durable

\* A task is its sender's, and there is none before there is an executor.
TasksAreOwned ==
    \A i \in Stored :
        /\ run[i] # Waiting
        /\ docs[i].user = sender[i].user
        /\ docs[i].life # Forever <=> durable

\* The inductive invariant of AgentTasksProofs.
IInv == TypeOK /\ RecentAreStored /\ EventsAreSaved /\ TasksAreOwned

Newer(i, j) == \E m, n \in DOMAIN recent : m < n /\ recent[m] = i /\ recent[n] = j

\* A page of List holds the caller's own matching tasks, newest first and none
\* twice; a matching task is left out only when the page is full of newer ones, or
\* when so many newer tasks of the caller are stored that it was not fetched: the
\* filters come after the limit (List, Limit(pageSize * 4)).
ListIsNewestMatching ==
    durable => \A user \in Users \ {""}, req \in ListRequest :
        LET page == List(user, req)
            shown == {page[k].id : k \in DOMAIN page}
            own == OwnedBy(user)
            matching == own \cap Matching(req)
        IN  /\ shown \subseteq matching /\ Len(page) <= SizeOf(req)
            /\ \A j, k \in DOMAIN page : j < k => Newer(page[j].id, page[k].id)
            /\ \A i \in matching \ shown :
                  \/ Len(page) = SizeOf(req) /\ \A j \in shown : Newer(j, i)
                  \/ Cardinality({j \in own : Newer(j, i)}) >= OverFetch * SizeOf(req)

Life(i) == INSTANCE TaskLife
    WITH state <- IF docs[i] = None THEN "none" ELSE docs[i].state,
         artifacts <- IF docs[i] = None THEN 0 ELSE docs[i].artifacts

\* What get_task shows from one moment to the next is the life of a task, or the
\* task disappears: no event is missing in the store, whatever save failed and
\* whichever server stopped before.
StoredFollowsLife ==
    [][\A i \in Ids : docs'[i] # None /\ docs'[i] # docs[i] =>
          Life(i)!Next \/ UNCHANGED Life(i)!vars]_vars

Unsettled(i) == docs[i] # None /\ ~Ended(docs[i].state)

\* A stored task does not stay unfinished for ever, although a server stops and
\* nothing resumes its executors, or its LLM never answers: it ends, or its
\* document is purged (newDoc, ExpiresAt).  In memory, where nothing expires, only
\* an executor that is still at work can keep it so.
TasksAreSettled ==
    \A i \in Ids :
        Unsettled(i) ~> ~Unsettled(i) \/ [](~durable /\ i \in Running)
==============================================================================
