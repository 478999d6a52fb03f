--------------------------- MODULE TaskStoreProofs ---------------------------
(***************************************************************************)
(* Theorems about the task store, for any number of callers, tasks and       *)
(* attempts.                                                                 *)
(***************************************************************************)
EXTENDS TaskStore, TLAPS

\* What a request holds, by its operation.
LEMMA RequestShape ==
    ASSUME NEW r \in Request
    PROVE  /\ r.op \in {"create", "update", "get"}
           /\ r.id \in Ids
           /\ r.op \in {"create", "update"} => r.payload \in Payloads
           /\ r.op = "create" => r.user \in Users
           /\ r.op = "update" => r.prev \in Nat
BY CallsAssumption DEF Request

\* What a call's record holds, by how far the call has got.
LEMMA CallShape ==
    ASSUME NEW c \in Call
    PROVE  /\ c.at \in {"idle", "begun", "staged", "stale", "answered"}
           /\ c.at # "idle" => c.req \in Request
           /\ Busy(c) => c.tries \in 1..MaxAttempts
           /\ c.at \in {"staged", "stale"} => c.write \in Doc
           /\ c.at = "answered" => c.answer \in Answer
BY DEF Call, Idle, Busy

\* What a document holds.
LEMMA DocShape ==
    ASSUME NEW d \in Doc
    PROVE  /\ d.payload \in Payloads /\ d.user \in Users
           /\ d.version \in Nat \ {Missing} /\ d.expires \in Nat
           /\ d # None
BY StoreAssumption DEF Doc

\* newDoc builds a document.
LEMMA NewDocShape ==
    ASSUME now \in Nat, NEW x \in Payloads, NEW v \in Nat \ {0}, NEW u \in Users
    PROVE  /\ newDoc(x, v, u) \in Doc
           /\ newDoc(x, v, u).payload = x /\ newDoc(x, v, u).version = v
           /\ newDoc(x, v, u).user = u
           /\ newDoc(x, v, u).expires = now + TaskTTL
BY StoreAssumption DEF newDoc, Doc, Missing

\* A step of one call that writes no document keeps the invariant, when what it
\* stages fits and it acknowledges no write.
LEMMA LocalStep ==
    ASSUME IInv, UNCHANGED <<store, purged, now>>,
           NEW p \in Callers, NEW c \in Call,
           call' = [call EXCEPT ![p] = c],
           c.at = "staged" => /\ c.req.op \in {"create", "update"}
                              /\ Fits(c) /\ InOrder(c),
           \A i \in purged : ~Creating(c, i),
           ~Acknowledged(c)
    PROVE  IInv'
<1>1. call' \in [Callers -> Call]
  BY DEF IInv, TypeOK
<1>2. /\ call'[p] = c
      /\ \A q \in Callers : q # p => call'[q] = call[q]
  BY DEF IInv, TypeOK
<1>3. TypeOK'
  BY <1>1 DEF IInv, TypeOK
<1>4. \A x : Fits(x)' <=> Fits(x)
  BY DEF Fits
<1>5. StagedFits'
  BY <1>2, <1>4 DEF IInv, StagedFits, Fits
<1>6. StagedIsWrite'
  BY <1>2 DEF IInv, StagedIsWrite
<1>7. ExpiriesInOrder'
  BY <1>2 DEF IInv, ExpiriesInOrder, InOrder
<1>8. PurgedForGood'
  BY <1>2 DEF IInv, PurgedForGood, Creating, Busy
<1>9. \A q \in Callers : Acknowledged(call'[q]) => q # p /\ call'[q] = call[q]
  BY <1>2
<1>10. AcknowledgedAreStored'
  BY <1>9 DEF IInv, AcknowledgedAreStored, Acknowledged
<1>11. AcknowledgedVersionsDiffer'
  BY <1>9 DEF IInv, AcknowledgedVersionsDiffer, Acknowledged
<1>12. QED
  BY <1>3, <1>5, <1>6, <1>7, <1>8, <1>10, <1>11 DEF IInv

\* Records of calls: an answered one is well typed and has nothing staged.
LEMMA AnsweredShape ==
    ASSUME NEW r \in Request, NEW a \in Answer
    PROVE  /\ [at |-> "answered", req |-> r, answer |-> a] \in Call
           /\ \A i : ~Creating([at |-> "answered", req |-> r, answer |-> a], i)
BY DEF Call, Creating, Busy

\* Every refusal is an answer.
LEMMA RefusedShape ==
    ASSUME NEW w \in {"exists", "missing", "conflict", "error"}
    PROVE  Refused(w) \in Answer /\ Refused(w).result # "ok"
BY DEF Refused, Answer

\* An error or a refusal answered to a call keeps the invariant.
LEMMA RefuseStep ==
    ASSUME IInv, UNCHANGED <<store, purged, now>>,
           NEW p \in Callers, Busy(call[p]),
           NEW w \in {"exists", "missing", "conflict", "error"},
           AnswerWith(p, Refused(w))
    PROVE  IInv'
<1> DEFINE c == [at |-> "answered", req |-> call[p].req, answer |-> Refused(w)]
<1>1. call[p] \in Call
  BY DEF IInv, TypeOK
<1>2. call[p].req \in Request
  BY <1>1, CallShape DEF Busy
<1>3. c \in Call /\ \A i : ~Creating(c, i)
  BY <1>2, RefusedShape, AnsweredShape
<1>4. ~Acknowledged(c) /\ c.at # "staged"
  BY RefusedShape DEF Acknowledged
<1>5. call' = [call EXCEPT ![p] = c]
  BY DEF AnswerWith
<1> HIDE DEF c
<1>6. QED
  BY <1>3, <1>4, <1>5, LocalStep

\* A request begun keeps the invariant: no purged id is created again.
LEMMA BeginStep ==
    ASSUME IInv, NEW p \in Callers, NEW r \in Request, Begin(p, r)
    PROVE  IInv'
<1> DEFINE c == [at |-> "begun", req |-> r, tries |-> 1]
<1>1. c \in Call
  BY StoreAssumption DEF Call
<1>2. c.at = "begun" /\ \A i \in purged : ~Creating(c, i)
  BY DEF Begin, Creating, Busy
<1>3. ~Acknowledged(c)
  BY DEF Acknowledged
<1>4. call' = [call EXCEPT ![p] = c] /\ UNCHANGED <<store, purged, now>>
  BY DEF Begin
<1> HIDE DEF c
<1>5. QED
  BY <1>1, <1>2, <1>3, <1>4, LocalStep

\* A staged write that fits the document just read, and is dated now, keeps the
\* invariant.
LEMMA StageStep ==
    ASSUME IInv, UNCHANGED <<store, purged, now>>,
           NEW p \in Callers, call[p].at = "begun",
           NEW x \in Payloads, NEW v \in Nat \ {0}, NEW u \in Users,
           Stage(p, newDoc(x, v, u)),
           LET r == call[p].req
               old == store[r.id]
           IN  /\ x = r.payload
               /\ \/ r.op = "create" /\ old = None /\ v = 1 /\ u = r.user
                  \/ /\ r.op = "update" /\ old # None
                     /\ r.prev \in {Missing, old.version}
                     /\ v = old.version + 1 /\ u = old.user
    PROVE  IInv'
<1> DEFINE d == newDoc(x, v, u)
           c == [at |-> "staged", req |-> call[p].req, tries |-> call[p].tries,
                 write |-> d]
<1>1. call[p] \in Call /\ now \in Nat
  BY DEF IInv, TypeOK
<1>2. call[p].req \in Request /\ call[p].tries \in 1..MaxAttempts
  BY <1>1, CallShape DEF Busy
<1>3. /\ d \in Doc /\ d.payload = x /\ d.version = v /\ d.user = u
      /\ d.expires = now + TaskTTL
  BY <1>1, NewDocShape
<1>4. call' = [call EXCEPT ![p] = c]
  BY DEF Stage
<1> HIDE DEF d
<1>5. c \in Call
  BY <1>2, <1>3 DEF Call
<1>6. c.at = "staged" /\ c.req = call[p].req /\ c.write = d
  OBVIOUS
<1> HIDE DEF c
<1>7. Fits(c)
  BY <1>3, <1>6 DEF Fits
<1>8. call[p].req.id \in Ids
  BY <1>2, RequestShape
<1>9. InOrder(c)
  <2>1. store[c.req.id] # None => store[c.req.id].expires <= now + TaskTTL
    BY <1>6, <1>8 DEF IInv, ExpiriesInOrder
  <2>2. d.expires <= now + TaskTTL
    BY <1>1, <1>3, StoreAssumption
  <2>3. QED
    BY <1>3, <1>6, <2>1, <2>2 DEF InOrder
<1>10. \A i \in purged : ~Creating(c, i)
  BY <1>6 DEF IInv, PurgedForGood, Creating, Busy
<1>11. ~Acknowledged(c)
  BY <1>6 DEF Acknowledged
<1>12. QED
  BY <1>4, <1>5, <1>6, <1>7, <1>9, <1>10, <1>11, LocalStep

\* Create's closure keeps the invariant.
LEMMA CreateClosureStep ==
    ASSUME IInv, NEW p \in Callers, CreateClosure(p)
    PROVE  IInv'
<1> DEFINE r == call[p].req
<1>1. call[p].at = "begun" /\ r.op = "create" /\ UNCHANGED <<store, purged, now>>
  BY DEF CreateClosure
<1>2. call[p] \in Call
  BY DEF IInv, TypeOK
<1>3. r \in Request
  BY <1>1, <1>2, CallShape DEF Busy
<1>4. r.payload \in Payloads /\ r.user \in Users
  BY <1>1, <1>3, RequestShape
<1>5. CASE AnswerWith(p, Refused("exists"))
  BY <1>1, <1>5, RefuseStep DEF Busy
<1>6. CASE store[r.id] = None /\ Stage(p, newDoc(r.payload, 1, r.user))
  BY <1>1, <1>4, <1>6, StageStep
<1>7. QED
  BY <1>5, <1>6 DEF CreateClosure

\* Update's closure keeps the invariant.
LEMMA UpdateClosureStep ==
    ASSUME IInv, NEW p \in Callers, UpdateClosure(p)
    PROVE  IInv'
<1> DEFINE r == call[p].req
           stored == store[r.id]
<1>1. call[p].at = "begun" /\ r.op = "update" /\ UNCHANGED <<store, purged, now>>
  BY DEF UpdateClosure
<1>2. call[p] \in Call
  BY DEF IInv, TypeOK
<1>3. r \in Request
  BY <1>1, <1>2, CallShape DEF Busy
<1>4. r.payload \in Payloads /\ r.id \in Ids
  BY <1>1, <1>3, RequestShape
<1>5. CASE AnswerWith(p, Refused("missing"))
  BY <1>1, <1>5, RefuseStep DEF Busy
<1>6. CASE AnswerWith(p, Refused("conflict"))
  BY <1>1, <1>6, RefuseStep DEF Busy
<1>7. CASE /\ stored # None
           /\ r.prev = Missing \/ stored.version = r.prev
           /\ Stage(p, newDoc(r.payload, stored.version + 1, stored.user))
  <2>1. stored \in Doc
    BY <1>4, <1>7 DEF IInv, TypeOK
  <2>2. stored.version \in Nat /\ stored.user \in Users
    BY <2>1, DocShape
  <2>3. stored.version + 1 \in Nat \ {0}
    BY <2>2
  <2>4. QED
    BY <1>1, <1>4, <1>7, <2>2, <2>3, StageStep
<1>8. QED
  BY <1>5, <1>6, <1>7 DEF UpdateClosure

\* An aborted transaction, tried again or given up, keeps the invariant.
LEMMA AbortStep ==
    ASSUME IInv, NEW p \in Callers, Abort(p)
    PROVE  IInv'
<1>1. call[p].at \in {"staged", "stale"} /\ UNCHANGED <<store, purged, now>>
  BY DEF Abort
<1>2. call[p] \in Call
  BY DEF IInv, TypeOK
<1>3. call[p].req \in Request /\ call[p].tries \in 1..MaxAttempts
  BY <1>1, <1>2, CallShape DEF Busy
<1>4. CASE /\ call[p].tries < MaxAttempts
           /\ call' = [call EXCEPT ![p] = [at |-> "begun", req |-> call[p].req,
                                           tries |-> call[p].tries + 1]]
  <2> DEFINE c == [at |-> "begun", req |-> call[p].req, tries |-> call[p].tries + 1]
  <2>1. call[p].tries + 1 \in 1..MaxAttempts
    BY <1>3, <1>4, StoreAssumption
  <2>2. c \in Call
    BY <1>3, <2>1 DEF Call
  <2>3. c.at = "begun" /\ c.req = call[p].req
    OBVIOUS
  <2> HIDE DEF c
  <2>4. (\A i \in purged : ~Creating(c, i)) /\ ~Acknowledged(c)
    BY <1>1, <2>3 DEF IInv, PurgedForGood, Creating, Busy, Acknowledged
  <2>5. call' = [call EXCEPT ![p] = c]
    BY <1>4 DEF c
  <2>6. QED
    BY <1>1, <2>2, <2>3, <2>4, <2>5, LocalStep
<1>5. CASE AnswerWith(p, Refused("error"))
  BY <1>1, <1>5, RefuseStep DEF Busy
<1>6. QED
  BY <1>4, <1>5 DEF Abort

\* A read outside transactions keeps the invariant.
LEMMA GetStep ==
    ASSUME IInv, NEW p \in Callers, Get(p)
    PROVE  IInv'
<1> DEFINE r == call[p].req
           stored == store[r.id]
           a == Ok(stored.version, stored.payload)
           c == [at |-> "answered", req |-> r, answer |-> a]
<1>1. call[p].at = "begun" /\ r.op = "get" /\ UNCHANGED <<store, purged, now>>
  BY DEF Get
<1>2. call[p] \in Call
  BY DEF IInv, TypeOK
<1>3. r \in Request
  BY <1>1, <1>2, CallShape DEF Busy
<1>4. CASE AnswerWith(p, Refused("missing"))
  BY <1>1, <1>4, RefuseStep DEF Busy
<1>5. CASE stored # None /\ AnswerWith(p, a)
  <2>1. stored \in Doc
    BY <1>3, <1>5, RequestShape DEF IInv, TypeOK
  <2>2. a \in Answer
    BY <2>1, DocShape DEF Ok, Answer
  <2>3. c \in Call /\ \A i : ~Creating(c, i)
    BY <1>3, <2>2, AnsweredShape
  <2>4. ~Acknowledged(c) /\ c.at # "staged"
    BY <1>1 DEF Acknowledged
  <2>5. call' = [call EXCEPT ![p] = c]
    BY <1>5 DEF AnswerWith
  <2> HIDE DEF c
  <2>6. QED
    BY <1>1, <2>3, <2>4, <2>5, LocalStep
<1>6. QED
  BY <1>4, <1>5 DEF Get

\* A caller that goes away keeps the invariant.
LEMMA ReturnStep ==
    ASSUME IInv, NEW p \in Callers, Return(p)
    PROVE  IInv'
<1>1. /\ Idle \in Call /\ Idle.at = "idle"
      /\ ~Acknowledged(Idle) /\ \A i : ~Creating(Idle, i)
  BY DEF Call, Idle, Acknowledged, Creating, Busy
<1>2. QED
  BY <1>1, LocalStep DEF Return

\* Spoiling transactions makes those on i stale and changes nothing else.
LEMMA SpoilShape ==
    ASSUME NEW calls \in [Callers -> Call], NEW i \in Ids
    PROVE  /\ Spoil(calls, i) \in [Callers -> Call]
           /\ \A q \in Callers :
                 /\ ~(calls[q].at = "staged" /\ calls[q].req.id = i) =>
                        Spoil(calls, i)[q] = calls[q]
                 /\ calls[q].at = "staged" /\ calls[q].req.id = i =>
                        /\ Spoil(calls, i)[q].at = "stale"
                        /\ Spoil(calls, i)[q].req = calls[q].req
<1>1. ASSUME NEW q \in Callers, calls[q].at = "staged"
      PROVE  /\ [calls[q] EXCEPT !.at = "stale"] \in Call
             /\ [calls[q] EXCEPT !.at = "stale"].at = "stale"
             /\ [calls[q] EXCEPT !.at = "stale"].req = calls[q].req
  <2>1. calls[q] \in [at : {"staged", "stale"}, req : Request, tries : 1..MaxAttempts,
                      write : Doc]
    BY <1>1 DEF Call, Idle
  <2>2. [calls[q] EXCEPT !.at = "stale"] \in
            [at : {"staged", "stale"}, req : Request, tries : 1..MaxAttempts, write : Doc]
    BY <2>1
  <2>3. QED
    BY <2>1, <2>2 DEF Call
<1>2. ASSUME NEW q \in Callers
      PROVE  Spoil(calls, i)[q] \in Call
  BY <1>1 DEF Spoil
<1>3. Spoil(calls, i) \in [Callers -> Call]
  BY <1>2 DEF Spoil
<1>4. QED
  BY <1>1, <1>3 DEF Spoil

\* A commit keeps the invariant: the other transactions on the task become
\* stale, and the version acknowledged is larger than any before.
LEMMA CommitStep ==
    ASSUME IInv, NEW p \in Callers, Commit(p)
    PROVE  IInv'
<1> DEFINE i == call[p].req.id
           doc == call[p].write
           old == store[i]
<1>1. /\ call[p].at = "staged"
      /\ store' = [store EXCEPT ![i] = doc]
      /\ UNCHANGED <<purged, now>>
  BY DEF Commit
<1>2. PICK a \in {Ok(doc.version, doc.payload), Refused("error")} :
          call' = Spoil([call EXCEPT ![p] = [at |-> "answered", req |-> call[p].req,
                                             answer |-> a]], i)
  BY DEF Commit
<1> DEFINE c == [at |-> "answered", req |-> call[p].req, answer |-> a]
           mid == [call EXCEPT ![p] = c]
<1>3. /\ store \in [Ids -> Doc \cup {None}] /\ call \in [Callers -> Call]
      /\ now \in Nat /\ purged \subseteq Ids
  BY DEF IInv, TypeOK
<1>4. /\ call[p] \in Call /\ call[p].req \in Request /\ doc \in Doc /\ i \in Ids
      /\ call[p].req.op \in {"create", "update"}
  BY <1>1, <1>3, CallShape, RequestShape DEF IInv, StagedIsWrite
<1>5. a \in Answer /\ (a.result = "ok" => a.version = doc.version)
  <2>1. Ok(doc.version, doc.payload) \in Answer
        /\ Ok(doc.version, doc.payload).version = doc.version
    BY <1>4, DocShape DEF Ok, Answer
  <2>2. QED
    BY <2>1, RefusedShape
<1>6. c \in Call /\ \A j : ~Creating(c, j)
  BY <1>4, <1>5, AnsweredShape
<1>7. c.at = "answered" /\ c.req = call[p].req /\ c.answer = a
  OBVIOUS
<1> HIDE DEF c
<1>8. /\ mid \in [Callers -> Call] /\ mid[p] = c
      /\ \A q \in Callers : q # p => mid[q] = call[q]
  BY <1>3, <1>6
<1>9. call' = Spoil(mid, i)
  BY <1>2 DEF c
<1> HIDE DEF mid
<1>10. /\ call' \in [Callers -> Call]
       /\ \A q \in Callers :
             /\ ~(mid[q].at = "staged" /\ mid[q].req.id = i) => call'[q] = mid[q]
             /\ mid[q].at = "staged" /\ mid[q].req.id = i =>
                    call'[q].at = "stale" /\ call'[q].req = mid[q].req
  BY <1>4, <1>8, <1>9, SpoilShape
<1>11. call'[p] = c
  BY <1>7, <1>8, <1>10
\* What became of the other callers.
<1>12. ASSUME NEW q \in Callers, q # p
       PROVE  \/ call'[q] = call[q] /\ ~(call[q].at = "staged" /\ call[q].req.id = i)
              \/ /\ call[q].at = "staged" /\ call[q].req.id = i
                 /\ call'[q].at = "stale" /\ call'[q].req = call[q].req
  BY <1>8, <1>10, <1>12
<1>13. /\ store'[i] = doc /\ doc # None
       /\ \A j \in Ids : j # i => store'[j] = store[j]
  BY <1>1, <1>3, <1>4, DocShape
<1>14. Fits(call[p]) /\ InOrder(call[p])
  BY <1>1 DEF IInv, StagedFits, ExpiriesInOrder
\* A transaction that is still staged is on another task.
<1>15. ASSUME NEW q \in Callers, call'[q].at = "staged"
       PROVE  /\ q # p /\ call'[q] = call[q] /\ call[q].at = "staged"
              /\ store'[call[q].req.id] = store[call[q].req.id]
  <2>1. q # p
    BY <1>7, <1>11, <1>15
  <2>2. call'[q] = call[q] /\ call[q].at = "staged" /\ call[q].req.id # i
    BY <1>12, <1>15, <2>1
  <2>3. call[q].req.id \in Ids
    BY <1>3, <2>2, CallShape, RequestShape
  <2>4. QED
    BY <1>13, <2>1, <2>2, <2>3
<1>16. TypeOK'
  <2>1. store' \in [Ids -> Doc \cup {None}]
    BY <1>1, <1>3, <1>4
  <2>2. QED
    BY <1>1, <1>3, <1>10, <2>1 DEF TypeOK
<1>17. StagedFits'
  BY <1>15 DEF IInv, StagedFits, Fits
<1>18. StagedIsWrite'
  BY <1>15 DEF IInv, StagedIsWrite
<1>19. ExpiriesInOrder'
  <2>1. ASSUME NEW j \in Ids, store'[j] # None
        PROVE  store'[j].expires <= now + TaskTTL
    BY <1>13, <1>14, <2>1 DEF IInv, ExpiriesInOrder, InOrder
  <2>2. ASSUME NEW q \in Callers, call'[q].at = "staged"
        PROVE  InOrder(call[q])'
    BY <1>1, <1>15, <2>2 DEF IInv, ExpiriesInOrder, InOrder
  <2>3. QED
    BY <1>1, <1>15, <2>1, <2>2 DEF ExpiriesInOrder
\* A task being written is not among the purged ones.
<1>20. i \notin purged
  BY <1>1, <1>4, <1>14 DEF IInv, PurgedForGood, Fits, Creating, Busy
<1>21. PurgedForGood'
  <2>1. ASSUME NEW j \in purged, NEW q \in Callers
        PROVE  ~Creating(call'[q], j)
    BY <1>6, <1>11, <1>12, <2>1 DEF IInv, PurgedForGood, Creating, Busy
  <2>2. QED
    BY <1>1, <1>3, <1>13, <1>20, <2>1 DEF IInv, PurgedForGood
<1>22. doc.version \in Nat
  BY <1>4, DocShape
<1>23. ASSUME NEW q \in Callers, Acknowledged(call[q])
       PROVE  call[q].answer.version \in Nat
  BY <1>3, <1>23, CallShape DEF Acknowledged, Answer
\* The version written is larger than every one acknowledged before.
<1>24. ASSUME NEW q \in Callers, Acknowledged(call[q]), call[q].req.id = i
       PROVE  call[q].answer.version < doc.version
  <2>1. old # None /\ old.version >= call[q].answer.version
    BY <1>20, <1>24 DEF IInv, AcknowledgedAreStored
  <2>2. old.version \in Nat
    BY <1>3, <1>4, <2>1, DocShape
  <2>3. doc.version = old.version + 1
    BY <1>14, <2>1 DEF Fits
  <2>4. QED
    BY <1>23, <1>24, <2>1, <2>2, <2>3
<1>25. ASSUME NEW q \in Callers, Acknowledged(call'[q])
       PROVE  \/ q # p /\ call'[q] = call[q]
              \/ q = p /\ call'[q] = c /\ c.answer.version = doc.version
  BY <1>5, <1>7, <1>11, <1>12, <1>25 DEF Acknowledged
<1>26. AcknowledgedAreStored'
  <2> SUFFICES ASSUME NEW q \in Callers, Acknowledged(call'[q])
               PROVE  \/ call'[q].req.id \in purged
                      \/ /\ store'[call'[q].req.id] # None
                         /\ store'[call'[q].req.id].version >= call'[q].answer.version
    BY <1>1 DEF AcknowledgedAreStored, Acknowledged
  <2>1. CASE q = p
    BY <1>7, <1>13, <1>22, <1>25, <2>1
  <2>2. CASE q # p
    <3>1. call'[q] = call[q] /\ Acknowledged(call[q])
      BY <1>25, <2>2
    <3>2. call[q].req.id \in Ids
      BY <1>3, <3>1, CallShape, RequestShape DEF Acknowledged
    <3>3. CASE call[q].req.id = i
      BY <1>13, <1>22, <1>23, <1>24, <3>1, <3>3
    <3>4. CASE call[q].req.id # i
      BY <1>13, <3>1, <3>2, <3>4 DEF IInv, AcknowledgedAreStored
    <3>5. QED
      BY <3>3, <3>4
  <2>3. QED
    BY <2>1, <2>2
<1>27. AcknowledgedVersionsDiffer'
  <2> SUFFICES ASSUME NEW q1 \in Callers, NEW q2 \in Callers, q1 # q2,
                      Acknowledged(call'[q1]), Acknowledged(call'[q2]),
                      call'[q1].req.id = call'[q2].req.id
               PROVE  call'[q1].answer.version # call'[q2].answer.version
    BY DEF AcknowledgedVersionsDiffer, Acknowledged
  <2>1. CASE q1 = p
    <3>1. call'[q2] = call[q2] /\ call'[q1] = c /\ c.answer.version = doc.version
      BY <1>25, <2>1
    <3>2. QED
      BY <1>7, <1>22, <1>23, <1>24, <3>1
  <2>2. CASE q2 = p
    <3>1. call'[q1] = call[q1] /\ call'[q2] = c /\ c.answer.version = doc.version
      BY <1>25, <2>2
    <3>2. QED
      BY <1>7, <1>22, <1>23, <1>24, <3>1
  <2>3. CASE q1 # p /\ q2 # p
    BY <1>25, <2>3 DEF IInv, AcknowledgedVersionsDiffer
  <2>4. QED
    BY <2>1, <2>2, <2>3
<1>28. QED
  BY <1>16, <1>17, <1>18, <1>19, <1>21, <1>26, <1>27 DEF IInv

\* A purge keeps the invariant: no create of the id is under way, and the
\* updates that had read the document become stale.
LEMMA PurgeStep ==
    ASSUME IInv, NEW i \in Ids, Purge(i)
    PROVE  IInv'
<1>1. /\ \A q \in Callers : ~Creating(call[q], i)
      /\ store' = [store EXCEPT ![i] = None]
      /\ call' = Spoil(call, i)
      /\ purged' = purged \cup {i} /\ now' = now
  BY DEF Purge
<1>2. /\ store \in [Ids -> Doc \cup {None}] /\ call \in [Callers -> Call]
      /\ now \in Nat /\ purged \subseteq Ids
  BY DEF IInv, TypeOK
<1>3. /\ call' \in [Callers -> Call]
      /\ \A q \in Callers :
            \/ call'[q] = call[q] /\ ~(call[q].at = "staged" /\ call[q].req.id = i)
            \/ /\ call[q].at = "staged" /\ call[q].req.id = i
               /\ call'[q].at = "stale" /\ call'[q].req = call[q].req
  BY <1>1, <1>2, SpoilShape
<1>4. store'[i] = None /\ \A j \in Ids : j # i => store'[j] = store[j]
  BY <1>1, <1>2
<1>5. ASSUME NEW q \in Callers, call'[q].at = "staged"
      PROVE  /\ call'[q] = call[q] /\ call[q].at = "staged"
             /\ store'[call[q].req.id] = store[call[q].req.id]
  <2>1. call'[q] = call[q] /\ call[q].at = "staged" /\ call[q].req.id # i
    BY <1>3, <1>5
  <2>2. call[q].req.id \in Ids
    BY <1>2, <2>1, CallShape, RequestShape
  <2>3. QED
    BY <1>4, <2>1, <2>2
<1>6. TypeOK'
  BY <1>1, <1>2, <1>3 DEF TypeOK
<1>7. StagedFits'
  BY <1>5 DEF IInv, StagedFits, Fits
<1>8. StagedIsWrite'
  BY <1>5 DEF IInv, StagedIsWrite
<1>9. ExpiriesInOrder'
  <2>1. ASSUME NEW j \in Ids, store'[j] # None
        PROVE  store'[j].expires <= now + TaskTTL
    BY <1>4, <2>1 DEF IInv, ExpiriesInOrder
  <2>2. ASSUME NEW q \in Callers, call'[q].at = "staged"
        PROVE  InOrder(call[q])'
    BY <1>1, <1>5, <2>2 DEF IInv, ExpiriesInOrder, InOrder
  <2>3. QED
    BY <1>1, <1>5, <2>1, <2>2 DEF ExpiriesInOrder
<1>10. PurgedForGood'
  <2>1. ASSUME NEW j \in purged', NEW q \in Callers
        PROVE  ~Creating(call'[q], j)
    BY <1>1, <1>3, <2>1 DEF IInv, PurgedForGood, Creating, Busy
  <2>2. ASSUME NEW j \in purged'
        PROVE  store'[j] = None
    BY <1>1, <1>2, <1>4, <2>2 DEF IInv, PurgedForGood
  <2>3. QED
    BY <2>1, <2>2 DEF PurgedForGood
<1>11. \A q \in Callers : Acknowledged(call'[q]) => call'[q] = call[q]
  BY <1>3 DEF Acknowledged
<1>12. AcknowledgedAreStored'
  <2> SUFFICES ASSUME NEW q \in Callers, Acknowledged(call[q])
               PROVE  \/ call[q].req.id \in purged'
                      \/ /\ store'[call[q].req.id] # None
                         /\ store'[call[q].req.id].version >= call[q].answer.version
    BY <1>11 DEF AcknowledgedAreStored
  <2>1. call[q].req.id \in Ids
    BY <1>2, CallShape, RequestShape DEF Acknowledged
  <2>2. QED
    BY <1>1, <1>4, <2>1 DEF IInv, AcknowledgedAreStored
<1>13. AcknowledgedVersionsDiffer'
  BY <1>11 DEF IInv, AcknowledgedVersionsDiffer
<1>14. QED
  BY <1>6, <1>7, <1>8, <1>9, <1>10, <1>12, <1>13 DEF IInv

\* Time that passes keeps the invariant.
LEMMA TickStep ==
    ASSUME IInv, Tick
    PROVE  IInv'
<1>1. now' = now + 1 /\ UNCHANGED <<store, call, purged>> /\ now \in Nat
  BY DEF IInv, TypeOK, Tick
<1>2. TypeOK'
  BY <1>1 DEF IInv, TypeOK
<1>3. StagedFits' /\ StagedIsWrite' /\ PurgedForGood'
  BY <1>1 DEF IInv, StagedFits, Fits, StagedIsWrite, PurgedForGood
<1>4. AcknowledgedAreStored' /\ AcknowledgedVersionsDiffer'
  BY <1>1 DEF IInv, AcknowledgedAreStored, AcknowledgedVersionsDiffer
<1>5. ASSUME NEW d \in Doc, d.expires <= now + TaskTTL
      PROVE  d.expires <= now' + TaskTTL
  BY <1>1, <1>5, DocShape, StoreAssumption
<1>6. ASSUME NEW j \in Ids, store[j] # None
      PROVE  store[j].expires <= now' + TaskTTL
  BY <1>5, <1>6 DEF IInv, TypeOK, ExpiriesInOrder
<1>7. ASSUME NEW q \in Callers, call[q].at = "staged"
      PROVE  InOrder(call[q])'
  <2>1. call[q].write \in Doc
    BY <1>7, CallShape DEF IInv, TypeOK
  <2>2. InOrder(call[q])
    BY <1>7 DEF IInv, ExpiriesInOrder
  <2>3. QED
    BY <1>1, <1>5, <2>1, <2>2 DEF InOrder
<1>8. ExpiriesInOrder'
  BY <1>1, <1>6, <1>7 DEF ExpiriesInOrder
<1>9. QED
  BY <1>2, <1>3, <1>4, <1>8 DEF IInv

\* The invariants of the store hold in every state: transactions fit when they
\* commit, acknowledged writes stay until the task is purged.
THEOREM Invariance == Spec => []IInv
<1>1. Init => IInv
  BY StoreAssumption, DocShape
     DEF Init, IInv, TypeOK, Call, Idle, StagedFits, StagedIsWrite, ExpiriesInOrder,
         PurgedForGood, AcknowledgedAreStored, AcknowledgedVersionsDiffer, Acknowledged
<1>2. IInv /\ [Next]_vars => IInv'
  <2> SUFFICES ASSUME IInv, [Next]_vars PROVE IInv'
    OBVIOUS
  <2>1. ASSUME NEW p \in Callers, NEW r \in Request, Begin(p, r) PROVE IInv'
    BY <2>1, BeginStep
  <2>2. ASSUME NEW p \in Callers, Fail(p) PROVE IInv'
    BY <2>2, RefuseStep DEF Fail
  <2>3. ASSUME NEW p \in Callers, Proceed(p) PROVE IInv'
    BY <2>2, <2>3, CreateClosureStep, UpdateClosureStep, CommitStep, AbortStep, GetStep
       DEF Proceed
  <2>4. ASSUME NEW p \in Callers, Return(p) PROVE IInv'
    BY <2>4, ReturnStep
  <2>5. CASE UNCHANGED vars
    BY <2>5 DEF vars, IInv, TypeOK, StagedFits, Fits, StagedIsWrite, ExpiriesInOrder, InOrder,
                PurgedForGood, AcknowledgedAreStored, AcknowledgedVersionsDiffer
  <2>6. QED
    BY <2>1, <2>3, <2>4, <2>5, PurgeStep, TickStep DEF Next
<1>3. QED
  BY <1>1, <1>2, PTL DEF Spec

\* Every variable keeps its type.
THEOREM TypeCorrect == Spec => []TypeOK
BY Invariance, PTL DEF IInv

\* No two acknowledged writes of a task have the same version.
THEOREM NoLostUpdate == Spec => []AcknowledgedVersionsDiffer
BY Invariance, PTL DEF IInv

\* No step brings a task's expiry forward.
THEOREM LifeKept == Spec => LifeNeverShortens
<1>1. ASSUME IInv, [Next]_vars, NEW i \in Ids, store[i] # None, store'[i] # None
      PROVE  store'[i].expires >= store[i].expires
  <2>1. store \in [Ids -> Doc \cup {None}] /\ call \in [Callers -> Call]
    BY <1>1 DEF IInv, TypeOK
  <2>2. store[i] \in Doc /\ store[i].expires \in Nat
    BY <1>1, <2>1, DocShape
  <2>3. ASSUME NEW p \in Callers, Commit(p)
        PROVE  store'[i].expires >= store[i].expires
    <3>1. call[p].at = "staged" /\ store' = [store EXCEPT ![call[p].req.id] = call[p].write]
      BY <2>3 DEF Commit
    <3>2. InOrder(call[p])
      BY <1>1, <3>1 DEF IInv, ExpiriesInOrder
    <3>3. call[p].write \in Doc /\ call[p].write.expires \in Nat
      BY <2>1, <3>1, CallShape, DocShape
    <3>4. CASE i = call[p].req.id
      BY <1>1, <2>1, <2>2, <3>1, <3>2, <3>3, <3>4 DEF InOrder
    <3>5. CASE i # call[p].req.id
      BY <2>1, <2>2, <3>1, <3>5
    <3>6. QED
      BY <3>4, <3>5
  <2>4. ASSUME NEW j \in Ids, Purge(j)
        PROVE  store'[i].expires >= store[i].expires
    BY <1>1, <2>1, <2>2, <2>4 DEF Purge
  <2>5. CASE UNCHANGED store
    BY <2>2, <2>5
  <2>6. QED
    BY <1>1, <2>3, <2>4, <2>5
       DEF Next, Proceed, Begin, CreateClosure, UpdateClosure, Abort, Fail, Get, Return, Tick, vars
<1>2. IInv /\ [Next]_vars =>
          [\A i \in Ids : store[i] # None /\ store'[i] # None =>
              store'[i].expires >= store[i].expires]_vars
  BY <1>1
<1>3. QED
  BY <1>2, Invariance, PTL DEF Spec, LifeNeverShortens

\* The task and the calls that VersionedTasks sees.
Tasks == [i \in Ids |-> Abstract(store[i])]
Calls == [p \in Callers |-> Pending(call[p])]

\* The task in a document.
LEMMA AbstractShape ==
    ASSUME NEW d \in Doc
    PROVE  /\ Abstract(d) \in Task /\ Abstract(d) # None
           /\ Abstract(d) = [payload |-> d.payload, version |-> d.version, user |-> d.user]
BY CallsAssumption, DocShape DEF Abstract, Task

\* An answer given without a write is an answer of the promise.
LEMMA AnswerMaps ==
    ASSUME NEW p \in Callers, IInv, Busy(call[p]), NEW a, AnswerWith(p, a),
           UNCHANGED store
    PROVE  /\ Tasks' = Tasks
           /\ Calls[p] = [at |-> "asked", req |-> call[p].req]
           /\ Calls' = [Calls EXCEPT ![p] = [at |-> "answered", req |-> call[p].req,
                                             answer |-> a]]
<1>1. call \in [Callers -> Call]
  BY DEF IInv, TypeOK
<1>2. /\ call'[p] = [at |-> "answered", req |-> call[p].req, answer |-> a]
      /\ \A q \in Callers : q # p => call'[q] = call[q]
  BY <1>1 DEF AnswerWith
<1>3. Pending(call'[p]) = [at |-> "answered", req |-> call[p].req, answer |-> a]
  BY <1>2 DEF Pending, Busy
<1>4. QED
  BY <1>2, <1>3 DEF Calls, Tasks, Pending

\* A step that only moves a call on between its invocation and its answer is
\* invisible.
LEMMA MoveOnMaps ==
    ASSUME NEW p \in Callers, IInv, Busy(call[p]), NEW c, Busy(c), c.req = call[p].req,
           call' = [call EXCEPT ![p] = c], UNCHANGED store
    PROVE  Tasks' = Tasks /\ Calls' = Calls
<1>1. call \in [Callers -> Call]
  BY DEF IInv, TypeOK
<1>2. call'[p] = c /\ \A q \in Callers : q # p => call'[q] = call[q]
  BY <1>1
<1>3. Pending(call'[p]) = Pending(call[p])
  BY <1>2 DEF Pending
<1>4. QED
  BY <1>2, <1>3 DEF Calls, Tasks

\* Spoiling is invisible.
LEMMA SpoilMaps ==
    ASSUME NEW calls \in [Callers -> Call], NEW i \in Ids, NEW q \in Callers
    PROVE  Pending(Spoil(calls, i)[q]) = Pending(calls[q])
BY SpoilShape DEF Pending, Busy

\* A refusal maps to a refusal of the promise.
LEMMA RefuseMaps ==
    ASSUME NEW p \in Callers, IInv, Busy(call[p]), UNCHANGED store,
           NEW why \in {"exists", "missing", "conflict", "error"},
           AnswerWith(p, Refused(why)),
           LET r == call[p].req
           IN  \/ why = "exists" /\ r.op = "create" /\ store[r.id] # None
               \/ why = "missing" /\ r.op # "create" /\ store[r.id] = None
               \/ /\ why = "conflict" /\ r.op = "update" /\ store[r.id] # None
                  /\ r.prev # Missing /\ store[r.id].version # r.prev
               \/ why = "error"
    PROVE  Promise!Refuse(p, why)
<1> DEFINE r == call[p].req
<1>1. call[p] \in Call
  BY DEF IInv, TypeOK
<1>2. r \in Request /\ r.id \in Ids
  BY <1>1, CallShape, RequestShape DEF Busy
<1>3. /\ Tasks' = Tasks
      /\ Calls[p] = [at |-> "asked", req |-> r]
      /\ Calls' = [Calls EXCEPT ![p] = [at |-> "answered", req |-> r,
                                        answer |-> Refused(why)]]
  BY AnswerMaps
<1>4. store[r.id] \in Doc \cup {None}
  BY <1>2 DEF IInv, TypeOK
<1>5. /\ Tasks[r.id] = None <=> store[r.id] = None
      /\ store[r.id] # None => Tasks[r.id].version = store[r.id].version
  <2>1. CASE store[r.id] = None
    BY <1>2, <2>1 DEF Tasks, Abstract
  <2>2. CASE store[r.id] # None
    <3>1. Tasks[r.id] = Abstract(store[r.id]) /\ store[r.id] \in Doc
      BY <1>2, <1>4, <2>2 DEF Tasks
    <3>2. QED
      BY <2>2, <3>1, AbstractShape
  <2>3. QED
    BY <2>1, <2>2
<1>6. /\ Calls[p].at = "asked" /\ Calls[p].req = r
      /\ \/ why = "exists" /\ r.op = "create" /\ Tasks[r.id] # None
         \/ why = "missing" /\ r.op # "create" /\ Tasks[r.id] = None
         \/ /\ why = "conflict" /\ r.op = "update"
            /\ Tasks[r.id] # None
            /\ r.prev \notin {Missing, Tasks[r.id].version}
         \/ why = "error"
  BY <1>3, <1>5
<1>7. Calls' = [Calls EXCEPT ![p] = [at |-> "answered", req |-> Calls[p].req,
                                     answer |-> Refused(why)]]
  BY <1>3, <1>6
<1>8. QED
  BY <1>3, <1>6, <1>7 DEF Promise!Refuse, Promise!AnswerTo, Promise!Refused, Promise!Missing,
                    Refused, Missing, Tasks, Calls

\* A read outside transactions maps to the promise's read.
LEMMA GetMaps ==
    ASSUME IInv, NEW p \in Callers, Get(p)
    PROVE  Promise!DoGet(p) \/ Promise!Refuse(p, "missing")
<1> DEFINE r == call[p].req
           stored == store[r.id]
<1>1. call[p].at = "begun" /\ r.op = "get" /\ UNCHANGED <<store, purged, now>>
  BY DEF Get
<1>2. call[p] \in Call
  BY DEF IInv, TypeOK
<1>3. r \in Request /\ r.id \in Ids
  BY <1>1, <1>2, CallShape, RequestShape
<1>4. CASE stored = None /\ AnswerWith(p, Refused("missing"))
  BY <1>1, <1>4, RefuseMaps DEF Busy
<1>5. CASE stored # None /\ AnswerWith(p, Ok(stored.version, stored.payload))
  <2>1. /\ Tasks' = Tasks
        /\ Calls[p] = [at |-> "asked", req |-> r]
        /\ Calls' = [Calls EXCEPT ![p] = [at |-> "answered", req |-> r,
                        answer |-> Ok(stored.version, stored.payload)]]
    BY <1>1, <1>5, AnswerMaps DEF Busy
  <2>2. stored \in Doc
    BY <1>3, <1>5 DEF IInv, TypeOK
  <2>3. Tasks[r.id] # None /\ Tasks[r.id].version = stored.version
        /\ Tasks[r.id].payload = stored.payload
    BY <1>3, <2>2, AbstractShape DEF Tasks
  <2>4. Calls[p].at = "asked" /\ Calls[p].req = r /\ r.op = "get"
    BY <1>1, <2>1
  <2>5. Promise!DoGet(p)
    BY <2>1, <2>3, <2>4
       DEF Promise!DoGet, Promise!Asked, Promise!AnswerTo, Promise!Ok, Ok, Tasks, Calls
  <2>6. QED
    BY <2>5
<1>6. QED
  BY <1>4, <1>5 DEF Get

\* A commit maps to the create or the update the promise calls for.
LEMMA CommitMaps ==
    ASSUME IInv, NEW p \in Callers, Commit(p)
    PROVE  Promise!DoCreate(p) \/ Promise!DoUpdate(p)
<1> DEFINE r == call[p].req
           i == r.id
           doc == call[p].write
           old == store[i]
<1>1. call[p].at = "staged" /\ store' = [store EXCEPT ![i] = doc]
  BY DEF Commit
<1>2. PICK a \in {Ok(doc.version, doc.payload), Refused("error")} :
          call' = Spoil([call EXCEPT ![p] = [at |-> "answered", req |-> r, answer |-> a]], i)
  BY DEF Commit
<1>3. store \in [Ids -> Doc \cup {None}] /\ call \in [Callers -> Call]
  BY DEF IInv, TypeOK
<1>4. r \in Request /\ doc \in Doc /\ i \in Ids
  BY <1>1, <1>3, CallShape, RequestShape
<1>5. Fits(call[p])
  BY <1>1 DEF IInv, StagedFits
<1> DEFINE c == [at |-> "answered", req |-> r, answer |-> a]
           mid == [call EXCEPT ![p] = c]
<1>6. a \in Answer
  BY <1>4, DocShape, RefusedShape DEF Ok, Answer
<1>7. mid \in [Callers -> Call] /\ mid[p] = c /\ \A q \in Callers : q # p => mid[q] = call[q]
  BY <1>3, <1>4, <1>6, AnsweredShape
<1>8. \A q \in Callers : Pending(call'[q]) = Pending(mid[q])
  <2> HIDE DEF mid
  <2>1. call' = Spoil(mid, i)
    BY <1>2 DEF mid
  <2>2. QED
    BY <1>4, <1>7, <2>1, SpoilMaps
<1>9. Pending(c) = c
  BY DEF Pending, Busy
<1> HIDE DEF c, mid
<1>10. Calls' = [Calls EXCEPT ![p] = c]
  BY <1>7, <1>8, <1>9 DEF Calls
<1>11. Calls[p].at = "asked" /\ Calls[p].req = r
  BY <1>1 DEF Calls, Pending, Busy
<1>12. Tasks' = [Tasks EXCEPT ![i] = Abstract(doc)]
  BY <1>1, <1>3, <1>4 DEF Tasks
<1>13. Abstract(doc) = [payload |-> doc.payload, version |-> doc.version, user |-> doc.user]
  BY <1>4, AbstractShape
<1>14. CASE r.op = "create"
  <2>1. old = None /\ doc.version = 1 /\ doc.user = r.user /\ doc.payload = r.payload
    BY <1>5, <1>14 DEF Fits
  <2>2. Tasks[i] = None
    BY <1>4, <2>1 DEF Tasks, Abstract
  <2>3. Tasks' = [Tasks EXCEPT ![i] = [payload |-> r.payload, version |-> 1, user |-> r.user]]
    BY <1>12, <1>13, <2>1
  <2>4. a \in {Ok(1, r.payload), Refused("error")}
    BY <2>1
  <2>5. Calls' = [Calls EXCEPT ![p] = [at |-> "answered", req |-> Calls[p].req,
                                       answer |-> Ok(1, r.payload)]]
        \/ Calls' = [Calls EXCEPT ![p] = [at |-> "answered", req |-> Calls[p].req,
                                          answer |-> Refused("error")]]
    BY <1>10, <1>11, <2>4 DEF c
  <2>6. Promise!DoCreate(p)
    BY <1>11, <1>14, <2>2, <2>3, <2>5
       DEF Promise!DoCreate, Promise!Asked, Promise!AnswerTo, Promise!Ok, Promise!Refused,
           Ok, Refused, Tasks, Calls
  <2>7. QED
    BY <2>6
<1>15. CASE r.op # "create"
  <2>1. /\ r.op = "update" /\ old # None /\ r.prev \in {Missing, old.version}
        /\ doc.version = old.version + 1 /\ doc.user = old.user /\ doc.payload = r.payload
    BY <1>5, <1>15 DEF Fits
  <2>2. old \in Doc
    BY <1>3, <1>4, <2>1
  <2>3. Tasks[i] # None /\ Tasks[i].version = old.version /\ Tasks[i].user = old.user
    BY <1>4, <2>2, AbstractShape DEF Tasks
  <2>4. Tasks' = [Tasks EXCEPT ![i] = [payload |-> r.payload,
                                       version |-> Tasks[i].version + 1,
                                       user |-> Tasks[i].user]]
    BY <1>12, <1>13, <2>1, <2>3
  <2>5. a \in {Ok(Tasks[i].version + 1, r.payload), Refused("error")}
    BY <2>1, <2>3
  <2>6. Calls' = [Calls EXCEPT ![p] = [at |-> "answered", req |-> Calls[p].req,
                                       answer |-> Ok(Tasks[i].version + 1, r.payload)]]
        \/ Calls' = [Calls EXCEPT ![p] = [at |-> "answered", req |-> Calls[p].req,
                                          answer |-> Refused("error")]]
    BY <1>10, <1>11, <2>5 DEF c
  <2>7. r.prev \in {Missing, Tasks[i].version}
    BY <2>1, <2>3
  <2>8. Promise!DoUpdate(p)
    BY <1>11, <2>1, <2>3, <2>4, <2>6, <2>7
       DEF Promise!DoUpdate, Promise!Asked, Promise!AnswerTo, Promise!Ok, Promise!Refused,
           Promise!Missing, Ok, Refused, Missing, Tasks, Calls
  <2>9. QED
    BY <2>8
<1>16. QED
  BY <1>14, <1>15

\* What the closure of a transaction does is a refusal or invisible.
LEMMA StageMaps ==
    ASSUME IInv, NEW p \in Callers, call[p].at = "begun", UNCHANGED store,
           NEW d, Stage(p, d)
    PROVE  Tasks' = Tasks /\ Calls' = Calls
<1> DEFINE c == [at |-> "staged", req |-> call[p].req, tries |-> call[p].tries, write |-> d]
<1>1. Busy(c) /\ c.req = call[p].req /\ Busy(call[p])
  BY DEF Busy
<1>2. call' = [call EXCEPT ![p] = c]
  BY DEF Stage
<1> HIDE DEF c
<1>3. QED
  BY <1>1, <1>2, MoveOnMaps

\* Every step of the store is a step of the promise or leaves it as it is.
LEMMA StepMaps ==
    ASSUME IInv, Next
    PROVE  Promise!AbsNext \/ (Tasks' = Tasks /\ Calls' = Calls)
<1> DEFINE Same == Tasks' = Tasks /\ Calls' = Calls
<1>1. store \in [Ids -> Doc \cup {None}] /\ call \in [Callers -> Call]
  BY DEF IInv, TypeOK
<1>2. ASSUME NEW p \in Callers, NEW req \in Request, Begin(p, req)
      PROVE  Promise!Ask(p, req)
  <2> DEFINE c == [at |-> "begun", req |-> req, tries |-> 1]
  <2>1. call[p] = Idle /\ call' = [call EXCEPT ![p] = c] /\ UNCHANGED store
    BY <1>2 DEF Begin
  <2>2. Pending(Idle) = Idle /\ Idle.at = "idle"
    BY DEF Pending, Busy, Idle
  <2>3. Pending(c) = [at |-> "asked", req |-> req]
    BY DEF Pending, Busy
  <2> HIDE DEF c
  <2>4. Calls' = [Calls EXCEPT ![p] = [at |-> "asked", req |-> req]]
    BY <1>1, <2>1, <2>3 DEF Calls
  <2>5. Calls[p].at = "idle" /\ Tasks' = Tasks
    BY <2>1, <2>2 DEF Calls, Tasks
  <2>6. QED
    BY <2>4, <2>5 DEF Promise!Ask, Tasks, Calls
<1>3. ASSUME NEW p \in Callers, CreateClosure(p)
      PROVE  Promise!Refuse(p, "exists") \/ Same
  <2>1. Busy(call[p])
    BY <1>3 DEF CreateClosure, Busy
  <2>2. CASE store[call[p].req.id] # None /\ AnswerWith(p, Refused("exists"))
    BY <1>3, <2>1, <2>2, RefuseMaps DEF CreateClosure
  <2>3. CASE Stage(p, newDoc(call[p].req.payload, 1, call[p].req.user))
    BY <1>3, <2>3, StageMaps DEF CreateClosure
  <2>4. QED
    BY <1>3, <2>2, <2>3 DEF CreateClosure
<1>4. ASSUME NEW p \in Callers, UpdateClosure(p)
      PROVE  Promise!Refuse(p, "missing") \/ Promise!Refuse(p, "conflict") \/ Same
  <2> DEFINE r == call[p].req
             stored == store[r.id]
  <2>1. Busy(call[p]) /\ call[p].at = "begun" /\ r.op = "update" /\ UNCHANGED store
    BY <1>4 DEF UpdateClosure, Busy
  <2>2. CASE stored = None /\ AnswerWith(p, Refused("missing"))
    BY <2>1, <2>2, RefuseMaps
  <2>3. CASE /\ stored # None /\ r.prev # Missing /\ stored.version # r.prev
             /\ AnswerWith(p, Refused("conflict"))
    BY <2>1, <2>3, RefuseMaps
  <2>4. CASE Stage(p, newDoc(r.payload, stored.version + 1, stored.user))
    BY <2>1, <2>4, StageMaps
  <2>5. QED
    BY <1>4, <2>2, <2>3, <2>4 DEF UpdateClosure
<1>5. ASSUME NEW p \in Callers, Abort(p)
      PROVE  Promise!Refuse(p, "error") \/ Same
  <2>1. Busy(call[p]) /\ UNCHANGED store
    BY <1>5 DEF Abort, Busy
  <2>2. CASE AnswerWith(p, Refused("error"))
    BY <2>1, <2>2, RefuseMaps
  <2>3. CASE call' = [call EXCEPT ![p] = [at |-> "begun", req |-> call[p].req,
                                          tries |-> call[p].tries + 1]]
    <3> DEFINE c == [at |-> "begun", req |-> call[p].req, tries |-> call[p].tries + 1]
    <3>1. Busy(c) /\ c.req = call[p].req
      BY DEF Busy
    <3>2. call' = [call EXCEPT ![p] = c]
      BY <2>3
    <3> HIDE DEF c
    <3>3. QED
      BY <2>1, <3>1, <3>2, MoveOnMaps
  <2>4. QED
    BY <1>5, <2>2, <2>3 DEF Abort
<1>6. ASSUME NEW p \in Callers, Fail(p)
      PROVE  Promise!Refuse(p, "error")
  BY <1>6, RefuseMaps DEF Fail
<1>7. ASSUME NEW p \in Callers, Proceed(p)
      PROVE  Promise!AbsNext \/ Same
  BY <1>3, <1>4, <1>5, <1>6, <1>7, GetMaps, CommitMaps DEF Proceed, Promise!AbsNext
<1>8. ASSUME NEW p \in Callers, Return(p)
      PROVE  Promise!Return(p)
  <2>1. call[p].at = "answered" /\ call' = [call EXCEPT ![p] = Idle] /\ UNCHANGED store
    BY <1>8 DEF Return
  <2>2. Pending(call[p]) = call[p] /\ Pending(Idle) = Idle
    BY <2>1 DEF Pending, Busy, Idle
  <2>3. Calls' = [Calls EXCEPT ![p] = Idle]
    BY <1>1, <2>1, <2>2 DEF Calls
  <2>4. Calls[p].at = "answered" /\ Tasks' = Tasks
    BY <2>1, <2>2 DEF Calls, Tasks
  <2>5. QED
    BY <2>3, <2>4 DEF Promise!Return, Idle, Tasks, Calls
<1>9. ASSUME NEW i \in Ids, Purge(i)
      PROVE  Promise!Disappear(i)
  <2>1. /\ store[i] # None /\ store' = [store EXCEPT ![i] = None]
        /\ call' = Spoil(call, i)
    BY <1>9 DEF Purge
  <2>2. Calls' = Calls
    BY <1>1, <2>1, SpoilMaps DEF Calls
  <2>3. Tasks' = [Tasks EXCEPT ![i] = None]
    BY <1>1, <2>1 DEF Tasks, Abstract
  <2>4. Tasks[i] # None
    BY <1>1, <2>1, AbstractShape DEF Tasks
  <2>5. QED
    BY <2>2, <2>3, <2>4 DEF Promise!Disappear, Tasks, Calls
<1>10. ASSUME Tick
       PROVE  Same
  BY <1>10 DEF Tick, Tasks, Calls
<1>11. Request = Promise!Request
  BY DEF Request, Promise!Request
<1>12. QED
  BY <1>2, <1>7, <1>8, <1>9, <1>10, <1>11 DEF Next, Promise!AbsNext

\* The Firestore transactions implement the versioned store: every call takes
\* effect at one instant, whatever its attempts and its races.
THEOREM Implementation == Spec => ImplementsPromise
<1>1. Init => Promise!AbsInit
  BY DEF Init, Promise!AbsInit, Abstract, Pending, Busy, Idle
<1>2. IInv /\ [Next]_vars => [Promise!AbsNext]_(Promise!absVars)
  <2> SUFFICES ASSUME IInv, [Next]_vars
               PROVE  Promise!AbsNext \/ UNCHANGED Promise!absVars
    OBVIOUS
  <2>1. CASE Next
    BY <2>1, StepMaps DEF Promise!absVars, Tasks, Calls
  <2>2. CASE UNCHANGED vars
    BY <2>2 DEF vars, Promise!absVars
  <2>3. QED
    BY <2>1, <2>2
<1>3. QED
  BY <1>1, <1>2, Invariance, PTL DEF Spec, Promise!AbsSpec, ImplementsPromise
==============================================================================
