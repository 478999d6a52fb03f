--------------------------- MODULE AgentTasksProofs ---------------------------
(***************************************************************************)
(* IInv is an invariant of AgentTasks, and every change of a stored task is a  *)
(* step of TaskLife.                                                         *)
(***************************************************************************)
EXTENDS AgentTasks, ListProofs

\* A task as an executor yields it.
Yielded == [state : States, artifacts : 0..2]

\* The elements of a concatenation, by their places.
LEMMA Concatenation ==
    ASSUME NEW S, NEW s \in Seq(S), NEW t \in Seq(S)
    PROVE  /\ s \o t \in Seq(S)
           /\ DOMAIN (s \o t) = 1..(Len(s) + Len(t))
           /\ \A n \in 1..(Len(s) + Len(t)) :
                 (s \o t)[n] = IF n <= Len(s) THEN s[n] ELSE t[n - Len(s)]
  OBVIOUS

\* What is left of a sequence without repetitions when one element is taken out.
LEMMA OneTakenOut ==
    ASSUME NEW S, NEW s \in Seq(S), IsInjective(s),
           NEW k \in DOMAIN s
    PROVE  LET r == SubSeq(s, 1, k - 1) \o SubSeq(s, k + 1, Len(s))
           IN  /\ r \in Seq(S)
               /\ IsInjective(r)
               /\ ToSet(r) = ToSet(s) \ {s[k]}
<1> DEFINE a == SubSeq(s, 1, k - 1)
           b == SubSeq(s, k + 1, Len(s))
           r == a \o b
<1>1. DOMAIN s = 1..Len(s) /\ Len(s) \in Nat /\ k \in 1..Len(s)
  OBVIOUS
<1>2. /\ a \in Seq(S) /\ Len(a) = k - 1
      /\ \A n \in 1..(k - 1) : a[n] = s[n]
  BY <1>1
<1>3. /\ b \in Seq(S) /\ Len(b) = Len(s) - k
      /\ \A n \in 1..(Len(s) - k) : b[n] = s[n + k]
  BY <1>1
<1> HIDE DEF a, b
<1>4. /\ r \in Seq(S)
      /\ DOMAIN r = 1..(Len(a) + Len(b))
      /\ \A n \in 1..(Len(a) + Len(b)) : r[n] = IF n <= Len(a) THEN a[n] ELSE b[n - Len(a)]
  BY <1>2, <1>3, Concatenation
<1> HIDE DEF r
<1>5. /\ DOMAIN r = 1..(Len(s) - 1)
      /\ \A n \in DOMAIN r : r[n] = IF n < k THEN s[n] ELSE s[n + 1]
  <2>1. DOMAIN r = 1..(Len(s) - 1)
    BY <1>1, <1>2, <1>3, <1>4
  <2>2. ASSUME NEW n \in 1..(Len(s) - 1)  PROVE r[n] = IF n < k THEN s[n] ELSE s[n + 1]
    <3>1. CASE n < k
      BY <1>1, <1>2, <1>3, <1>4, <3>1
    <3>2. CASE n >= k
      <4>1. n - (k - 1) \in 1..(Len(s) - k) /\ (n - (k - 1)) + k = n + 1
        BY <1>1, <3>2
      <4>2. r[n] = b[n - (k - 1)]
        BY <1>1, <1>2, <1>3, <1>4, <3>2
      <4> QED
        BY <1>1, <1>3, <4>1, <4>2, <3>2
    <3> QED
      BY <1>1, <3>1, <3>2
  <2> QED
    BY <2>1, <2>2
<1>6. \A m, n \in DOMAIN s : s[m] = s[n] => m = n
  BY DEF IsInjective
<1>7. \A m, n \in DOMAIN r : r[m] = r[n] => m = n
  BY <1>1, <1>5, <1>6
<1>8. \A n \in DOMAIN r : r[n] \in ToSet(s) \ {s[k]}
  <2>1. SUFFICES ASSUME NEW n \in DOMAIN r  PROVE r[n] \in ToSet(s) \ {s[k]}
    OBVIOUS
  <2>2. PICK m \in DOMAIN s : m # k /\ r[n] = s[m]
    BY <1>1, <1>5
  <2> QED
    BY <1>6, <2>2 DEF ToSet
<1>9. ASSUME NEW n \in DOMAIN s, n # k  PROVE s[n] \in ToSet(r)
  <2>1. PICK m \in DOMAIN r : r[m] = s[n]
    <3>1. CASE n < k
      <4>1. n \in DOMAIN r /\ r[n] = s[n]
        BY <1>1, <1>5, <3>1
      <4> QED
        BY <4>1
    <3>2. CASE n > k
      <4>1. n - 1 \in DOMAIN r /\ r[n - 1] = s[n]
        BY <1>1, <1>5, <3>2
      <4> QED
        BY <4>1
    <3> QED
      BY <1>1, <1>9, <3>1, <3>2
  <2> QED
    BY <2>1 DEF ToSet
<1>10. IsInjective(r)
  BY <1>7 DEF IsInjective
<1>11. ToSet(r) = ToSet(s) \ {s[k]}
  BY <1>8, <1>9 DEF ToSet
<1> QED
  BY <1>4, <1>10, <1>11 DEF r, a, b

\* An element put first.
LEMMA OnePutFirst ==
    ASSUME NEW S, NEW s \in Seq(S), IsInjective(s),
           NEW x \in S, x \notin ToSet(s)
    PROVE  /\ <<x>> \o s \in Seq(S)
           /\ IsInjective(<<x>> \o s)
           /\ ToSet(<<x>> \o s) = ToSet(s) \cup {x}
<1> DEFINE p == <<x>> \o s
<1>1. DOMAIN s = 1..Len(s) /\ Len(s) \in Nat
  OBVIOUS
<1>2. <<x>> \in Seq(S) /\ Len(<<x>>) = 1 /\ <<x>>[1] = x
  OBVIOUS
<1>3. /\ p \in Seq(S)
      /\ DOMAIN p = 1..(1 + Len(s))
      /\ \A n \in 1..(1 + Len(s)) : p[n] = IF n <= 1 THEN <<x>>[n] ELSE s[n - 1]
  <2> DEFINE h == <<x>>
  <2> HIDE DEF h
  <2>1. h \in Seq(S) /\ Len(h) = 1
    BY <1>2 DEF h
  <2>2. /\ h \o s \in Seq(S)
        /\ DOMAIN (h \o s) = 1..(Len(h) + Len(s))
        /\ \A n \in 1..(Len(h) + Len(s)) :
              (h \o s)[n] = IF n <= Len(h) THEN h[n] ELSE s[n - Len(h)]
    BY <2>1, Concatenation
  <2> QED
    BY <2>1, <2>2 DEF h
<1> HIDE DEF p
<1>4. /\ 1 \in DOMAIN p /\ p[1] = x
      /\ \A n \in DOMAIN s : n + 1 \in DOMAIN p /\ p[n + 1] = s[n]
      /\ \A n \in DOMAIN p : n # 1 => n - 1 \in DOMAIN s /\ p[n] = s[n - 1]
  <2>1. 1 \in DOMAIN p /\ p[1] = x
    BY <1>1, <1>2, <1>3
  <2>2. ASSUME NEW n \in DOMAIN s  PROVE n + 1 \in DOMAIN p /\ p[n + 1] = s[n]
    <3>1. n \in 1..Len(s) /\ n + 1 \in 1..(1 + Len(s)) /\ ~ (n + 1 <= 1) /\ (n + 1) - 1 = n
      BY <1>1
    <3> QED
      BY <1>3, <3>1
  <2>3. ASSUME NEW n \in DOMAIN p, n # 1  PROVE n - 1 \in DOMAIN s /\ p[n] = s[n - 1]
    <3>1. n \in 1..(1 + Len(s)) /\ ~ (n <= 1) /\ n - 1 \in 1..Len(s)
      BY <1>1, <1>3, <2>3
    <3> QED
      BY <1>1, <1>3, <3>1
  <2> QED
    BY <2>1, <2>2, <2>3
<1>5. \A n \in DOMAIN s : s[n] # x
  BY DEF ToSet
<1>6. ASSUME NEW m \in DOMAIN p, NEW n \in DOMAIN p, p[m] = p[n]  PROVE m = n
  <2>1. \A i, j \in DOMAIN s : s[i] = s[j] => i = j
    BY DEF IsInjective
  <2>2. CASE m = 1 \/ n = 1
    BY <1>4, <1>5, <1>6, <2>2
  <2>3. CASE m # 1 /\ n # 1
    <3>1. m - 1 = n - 1
      BY <1>4, <1>6, <2>1, <2>3
    <3> QED
      BY <1>3, <3>1
  <2> QED
    BY <2>2, <2>3
<1>7. IsInjective(p)
  BY <1>6 DEF IsInjective
<1>8. ToSet(p) = ToSet(s) \cup {x}
  <2>1. \A n \in DOMAIN p : p[n] \in ToSet(s) \cup {x}
    BY <1>4 DEF ToSet
  <2>2. \A n \in DOMAIN s : s[n] \in ToSet(p)
    BY <1>4 DEF ToSet
  <2>3. x \in ToSet(p)
    BY <1>4 DEF ToSet
  <2> QED
    BY <2>1, <2>2, <2>3 DEF ToSet
<1> QED
  BY <1>3, <1>7, <1>8 DEF p

LEMMA RunningHaveViews ==
    ASSUME TypeOK, NEW i \in Ids
    PROVE  /\ i \in Running <=> run[i] \in View
           /\ run[i] = Waiting => i \notin Running
           /\ run[i] = Over => i \notin Running
           /\ run[i] = Over => run[i] # Waiting
  BY DEF TypeOK, Running, View, Waiting, Over

LEMMA SeenIsView ==
    ASSUME NEW t \in Yielded, NEW version \in Nat \ {0}
    PROVE  /\ SeenAs(t, version) \in View
           /\ SeenAs(t, version).at = "running"
           /\ SeenAs(t, version) # Waiting
           /\ SeenAs(t, version).state = t.state
  BY DEF SeenAs, View, Yielded, Waiting

LEMMA OthersFacts ==
    ASSUME RecentAreStored, NEW i \in Ids
    PROVE  /\ Others(i) \in Seq(Ids)
           /\ IsInjective(Others(i))
           /\ ToSet(Others(i)) = Stored \ {i}
<1>1. recent \in Seq(Ids) /\ ToSet(recent) = Stored /\ IsInjective(recent)
  BY DEF RecentAreStored
<1>2. CASE docs[i] = None
  <2>1. i \notin Stored
    BY <1>2 DEF Stored
  <2> QED
    BY <1>1, <1>2, <2>1 DEF Others
<1>3. CASE docs[i] # None
  <2> DEFINE k == CHOOSE n \in DOMAIN recent : recent[n] = i
  <2>1. \E n \in DOMAIN recent : recent[n] = i
    BY <1>1, <1>3 DEF Stored, ToSet
  <2>2. k \in DOMAIN recent /\ recent[k] = i
    BY <2>1
  <2>3. Others(i) = SubSeq(recent, 1, k - 1) \o SubSeq(recent, k + 1, Len(recent))
    BY <1>3 DEF Others
  <2> HIDE DEF k
  <2> QED
    BY <1>1, <2>2, <2>3, OneTakenOut
<1> QED
  BY <1>2, <1>3

\* A write that the store accepts.
LEMMA WriteFacts ==
    ASSUME IInv, NEW i \in Ids, NEW t \in Yielded, NEW version \in Nat \ {0},
           Accepts(i, version), Write(i, t, version)
    PROVE  /\ docs'[i] \in Doc
           /\ docs' = [docs EXCEPT ![i] = docs'[i]]
           /\ docs'[i].state = t.state
           /\ SeenAs(docs'[i], docs'[i].version) = SeenAs(t, version)
           /\ docs'[i].user = sender[i].user
           /\ docs'[i].life = IF durable THEN TaskTTL ELSE Forever
           /\ RecentAreStored'
<1>1. TypeOK /\ RecentAreStored /\ TasksAreOwned
  BY DEF IInv
<1> DEFINE user == IF version = 1 THEN sender[i].user ELSE docs[i].user
<1>2. user = sender[i].user /\ user \in Users /\ sender[i].context \in Contexts
  <2>1. sender[i] \in [user : Users, context : Contexts]
    BY <1>1 DEF TypeOK
  <2>2. version # 1 => docs[i].user = sender[i].user
    BY <1>1 DEF Accepts, TasksAreOwned, Stored
  <2> QED
    BY <2>1, <2>2
<1>3. docs' = [docs EXCEPT ![i] = newDoc(i, t, version, user)]
  BY DEF Write
<1> HIDE DEF user
<1>4. /\ docs'[i] = newDoc(i, t, version, user)
      /\ \A j \in Ids : j # i => docs'[j] = docs[j]
  BY <1>1, <1>3 DEF TypeOK
<1>5. TaskTTL \in Nat
  BY AgentTasksAssumption DEF AgentTasksAssumption
<1>6. newDoc(i, t, version, user) \in Doc
  BY <1>2, <1>5 DEF newDoc, Doc, Yielded, Forever
<1>7. RecentAreStored'
  <2>1. recent' = <<i>> \o Others(i)
    BY DEF Write
  <2>2. /\ Others(i) \in Seq(Ids) /\ IsInjective(Others(i))
        /\ ToSet(Others(i)) = Stored \ {i}
    BY <1>1, OthersFacts
  <2>3. /\ recent' \in Seq(Ids) /\ IsInjective(recent')
        /\ ToSet(recent') = (Stored \ {i}) \cup {i}
    BY <2>1, <2>2, OnePutFirst
  <2>4. None \notin Doc
    BY AgentTasksAssumption DEF AgentTasksAssumption
  <2>5. Stored' = (Stored \ {i}) \cup {i}
    BY <1>4, <1>6, <2>4 DEF Stored
  <2> QED
    BY <2>3, <2>5 DEF RecentAreStored
<1>8. /\ docs'[i].state = t.state /\ docs'[i].user = user
      /\ docs'[i].life = IF durable THEN TaskTTL ELSE Forever
      /\ SeenAs(docs'[i], docs'[i].version) = SeenAs(t, version)
  BY <1>4 DEF newDoc, SeenAs
<1> QED
  BY <1>2, <1>3, <1>4, <1>6, <1>7, <1>8

\* When executors stop and the store keeps its documents, or forgets them all.
LEMMA StoppingKeeps ==
    ASSUME IInv, UNCHANGED <<sender, durable>>,
           UNCHANGED <<docs, recent>>,
           run' \in [Ids -> {Waiting, Over} \cup View],
           \A i \in Ids : run'[i] = run[i] \/ run'[i] = Over
    PROVE  IInv'
<1>1. TypeOK' /\ RecentAreStored'
  BY DEF IInv, TypeOK, RecentAreStored, Stored
<1>2. \A i \in Running' : i \in Running /\ run'[i] = run[i]
  BY DEF Running, Over
<1>3. EventsAreSaved'
  BY <1>2 DEF IInv, EventsAreSaved
<1>4. TasksAreOwned'
  <2>1. Over # Waiting
    BY DEF Over, Waiting
  <2> QED
    BY <2>1 DEF IInv, TasksAreOwned, Stored
<1> QED
  BY <1>1, <1>3, <1>4 DEF IInv

\* Saving an event of an executor that is at work, or begins with it.
LEMMA SaveKeeps ==
    ASSUME IInv, UNCHANGED <<sender, durable>>,
           NEW i \in Ids, NEW t \in Yielded, NEW version \in Nat \ {0},
           Save(i, t, version)
    PROVE  IInv'
<1>1. TypeOK /\ RecentAreStored /\ EventsAreSaved /\ TasksAreOwned
  BY DEF IInv
<1>2. ASSUME Accepts(i, version), Write(i, t, version),
             GoOn(i, t, version) \/ GiveUp(i)
      PROVE  IInv'
  <2>1. /\ docs'[i] \in Doc
        /\ docs' = [docs EXCEPT ![i] = docs'[i]]
        /\ docs'[i].state = t.state
        /\ SeenAs(docs'[i], docs'[i].version) = SeenAs(t, version)
        /\ docs'[i].user = sender[i].user
        /\ docs'[i].life = IF durable THEN TaskTTL ELSE Forever
        /\ RecentAreStored'
    BY <1>2, WriteFacts
  <2>2. None \notin Doc /\ TaskTTL \in Nat
    BY AgentTasksAssumption DEF AgentTasksAssumption
  <2>3. /\ SeenAs(t, version) \in View /\ SeenAs(t, version) # Waiting
        /\ SeenAs(t, version).at = "running"
    BY SeenIsView
  <2>4. /\ run'[i] = Over \/ (run'[i] = SeenAs(t, version) /\ ~Ended(t.state))
        /\ \A j \in Ids : j # i => run'[j] = run[j]
        /\ run' \in [Ids -> {Waiting, Over} \cup View]
    BY <1>1, <1>2, <2>3 DEF TypeOK, GoOn, GiveUp
  <2>5. \A j \in Ids : j # i => docs'[j] = docs[j]
    BY <1>1, <2>1 DEF TypeOK
  <2>6. TypeOK'
    BY <1>1, <2>1, <2>4 DEF TypeOK
  <2>7. EventsAreSaved'
    <3>1. ASSUME NEW j \in Running'
          PROVE  /\ docs'[j] # None =>
                       run'[j] = SeenAs(docs'[j], docs'[j].version) /\ ~Ended(docs'[j].state)
                 /\ docs'[j] = None => durable'
      <4>1. CASE j = i
        <5>1. run'[i] # Over
          BY <4>1 DEF Running, Over
        <5> QED
          BY <2>1, <2>2, <2>4, <4>1, <5>1
      <4>2. CASE j # i
        <5>1. j \in Running /\ run'[j] = run[j] /\ docs'[j] = docs[j]
          BY <2>4, <2>5, <4>2 DEF Running
        <5> QED
          BY <1>1, <5>1 DEF EventsAreSaved
      <4> QED
        BY <4>1, <4>2
    <3> QED
      BY <3>1 DEF EventsAreSaved
  <2>8. TasksAreOwned'
    <3>1. run'[i] # Waiting
      BY <2>3, <2>4 DEF Over, Waiting
    <3>2. docs'[i].life # Forever <=> durable
      BY <2>1, <2>2 DEF Forever
    <3>3. \A j \in Stored' : j # i => j \in Stored
      BY <2>5 DEF Stored
    <3> QED
      BY <1>1, <2>1, <2>4, <2>5, <3>1, <3>2, <3>3 DEF TasksAreOwned, Stored
  <2> QED
    BY <2>1, <2>6, <2>7, <2>8 DEF IInv
<1>3. ASSUME UNCHANGED <<docs, recent>>, GiveUp(i)
      PROVE  IInv'
  <2>1. /\ run' \in [Ids -> {Waiting, Over} \cup View]
        /\ \A j \in Ids : run'[j] = run[j] \/ run'[j] = Over
    BY <1>1, <1>3 DEF TypeOK, GiveUp
  <2> QED
    BY <1>3, <2>1, StoppingKeeps
<1> QED
  BY <1>2, <1>3 DEF Save

LEMMA Submitted == [state |-> "submitted", artifacts |-> 0] \in Yielded
  BY DEF Yielded, States

LEMMA InitHolds ==
    ASSUME Init
    PROVE  IInv
<1>1. TypeOK
  BY AgentTasksAssumption DEF AgentTasksAssumption, Init, TypeOK
<1>2. Running = {} /\ Stored = {}
  BY DEF Init, Running, Stored, Waiting
<1>3. RecentAreStored
  BY <1>2 DEF Init, RecentAreStored, ToSet, IsInjective
<1> QED
  BY <1>1, <1>2, <1>3 DEF IInv, EventsAreSaved, TasksAreOwned

LEMMA NextKeeps ==
    ASSUME IInv, [Next]_vars
    PROVE  IInv'
<1>1. TypeOK /\ RecentAreStored /\ EventsAreSaved /\ TasksAreOwned
  BY DEF IInv
<1>2. ASSUME NEW i \in Ids, Submit(i)  PROVE IInv'
  BY <1>2, Submitted, SaveKeeps DEF Submit
<1>3. ASSUME NEW i \in Ids, Advance(i)  PROVE IInv'
  <2>1. PICK t \in After(run[i]) : Save(i, t, run[i].version + 1)
    BY <1>3 DEF Advance
  <2>2. t \in Yielded
    BY DEF After, Yielded
  <2>3. run[i] \in View
    BY <1>1, <1>3, RunningHaveViews DEF Advance
  <2>4. run[i].version + 1 \in Nat \ {0}
    BY <2>3 DEF View
  <2> QED
    BY <1>3, <2>1, <2>2, <2>4, SaveKeeps DEF Advance
<1>4. ASSUME NEW i \in Ids, Reply(i)  PROVE IInv'
  <2>1. /\ run' \in [Ids -> {Waiting, Over} \cup View]
        /\ \A j \in Ids : run'[j] = run[j] \/ run'[j] = Over
    BY <1>1, <1>4 DEF TypeOK, Reply, GiveUp
  <2> QED
    BY <1>4, <2>1, StoppingKeeps DEF Reply
<1>5. ASSUME NEW i \in Ids, Purge(i)  PROVE IInv'
  <2>1. docs' = [docs EXCEPT ![i] = None] /\ recent' = Others(i)
        /\ UNCHANGED <<sender, durable, run>>
    BY <1>5 DEF Purge
  <2>2. docs'[i] = None /\ \A j \in Ids : j # i => docs'[j] = docs[j]
    BY <1>1, <2>1 DEF TypeOK
  <2>3. TypeOK'
    BY <1>1, <2>1 DEF TypeOK
  <2>4. Stored' = Stored \ {i}
    BY <2>2 DEF Stored
  <2>5. RecentAreStored'
    BY <1>1, <2>1, <2>4, OthersFacts DEF RecentAreStored
  <2>6. EventsAreSaved'
    <3>1. Running' = Running
      BY <2>1 DEF Running
    <3>2. docs[i].life = 0 /\ i \in Stored /\ Forever # 0
      BY <1>5 DEF Purge, Stored, Forever
    <3>3. durable
      BY <1>1, <3>2 DEF TasksAreOwned
    <3> QED
      BY <1>1, <2>1, <2>2, <3>1, <3>3 DEF EventsAreSaved, Running
  <2>7. TasksAreOwned'
    BY <1>1, <2>1, <2>2, <2>4 DEF TasksAreOwned
  <2> QED
    BY <2>3, <2>5, <2>6, <2>7 DEF IInv
<1>6. ASSUME Crash  PROVE IInv'
  <2>1. /\ UNCHANGED <<sender, durable>>
        /\ run' \in [Ids -> {Waiting, Over} \cup View]
        /\ \A j \in Ids : run'[j] = run[j] \/ run'[j] = Over
    BY <1>1, <1>6 DEF TypeOK, Crash
  <2>2. CASE durable
    <3>1. UNCHANGED <<docs, recent>>
      BY <1>6, <2>2 DEF Crash
    <3> QED
      BY <2>1, <3>1, StoppingKeeps
  <2>3. CASE ~durable
    <3>1. docs' = [i \in Ids |-> None] /\ recent' = <<>>
      BY <1>6, <2>3 DEF Crash
    <3>2. run' = [i \in Ids |-> IF i \in Running THEN Over ELSE run[i]]
      BY <1>6, <2>3 DEF Crash
    <3>3. Running' = {} /\ Stored' = {}
      BY <3>1, <3>2 DEF Running, Stored, Over
    <3>4. RecentAreStored'
      BY <3>1, <3>3 DEF RecentAreStored, ToSet, IsInjective
    <3>5. TypeOK'
      BY <1>1, <2>1, <3>1 DEF TypeOK
    <3> QED
      BY <3>3, <3>4, <3>5 DEF IInv, EventsAreSaved, TasksAreOwned
  <2> QED
    BY <2>2, <2>3
<1>7. ASSUME Day  PROVE IInv'
  <2>1. /\ UNCHANGED <<sender, durable, recent, run>>
        /\ docs' = [i \in Ids |->
                      IF docs[i] # None /\ docs[i].life > 0
                      THEN [docs[i] EXCEPT !.life = @ - 1] ELSE docs[i]]
    BY <1>7 DEF Day
  <2>2. None \notin Doc
    BY AgentTasksAssumption DEF AgentTasksAssumption
  <2>3. ASSUME NEW i \in Ids
        PROVE  /\ docs'[i] \in Doc \cup {None}
               /\ docs'[i] = None <=> docs[i] = None
               /\ docs[i] # None =>
                     /\ docs'[i].user = docs[i].user /\ docs'[i].state = docs[i].state
                     /\ SeenAs(docs'[i], docs'[i].version) = SeenAs(docs[i], docs[i].version)
               /\ docs[i] # None => (docs'[i].life # Forever <=> docs[i].life # Forever)
    <3>1. CASE docs[i] # None /\ docs[i].life > 0
      <4>1. docs[i] \in Doc
        BY <1>1, <3>1 DEF TypeOK
      <4>2. docs[i].life \in Nat
        BY <3>1, <4>1 DEF Doc, Forever
      <4>3. docs'[i] = [docs[i] EXCEPT !.life = @ - 1]
        BY <2>1, <3>1
      <4>4. docs'[i] \in Doc /\ docs'[i].user = docs[i].user
            /\ docs'[i].state = docs[i].state
            /\ docs'[i].artifacts = docs[i].artifacts /\ docs'[i].version = docs[i].version
            /\ docs'[i].life = docs[i].life - 1
        BY <3>1, <4>1, <4>2, <4>3 DEF Doc
      <4> QED
        BY <2>2, <3>1, <4>2, <4>4 DEF Forever, SeenAs
    <3>2. CASE ~ (docs[i] # None /\ docs[i].life > 0)
      <4>1. docs'[i] = docs[i]
        BY <2>1, <3>2
      <4> QED
        BY <1>1, <4>1 DEF TypeOK
    <3> QED
      BY <3>1, <3>2
  <2>4. TypeOK'
    <3>1. docs' \in [Ids -> Doc \cup {None}]
      BY <2>1, <2>3
    <3> QED
      BY <1>1, <2>1, <3>1 DEF TypeOK
  <2>5. Stored' = Stored
    BY <2>3 DEF Stored
  <2>6. RecentAreStored'
    BY <1>1, <2>1, <2>5 DEF RecentAreStored
  <2>7. EventsAreSaved'
    <3>1. \A i \in Running' : i \in Running /\ run'[i] = run[i] /\ i \in Ids
      BY <2>1 DEF Running
    <3> QED
      BY <1>1, <2>1, <2>3, <3>1 DEF EventsAreSaved
  <2>8. TasksAreOwned'
    BY <1>1, <2>1, <2>3, <2>5 DEF TasksAreOwned, Stored
  <2> QED
    BY <2>4, <2>6, <2>7, <2>8 DEF IInv
<1>8. ASSUME Rest \/ UNCHANGED vars  PROVE IInv'
  BY <1>1, <1>8 DEF Rest, vars, IInv, TypeOK, RecentAreStored, EventsAreSaved,
                    TasksAreOwned, Stored, Running
<1> QED
  BY <1>2, <1>3, <1>4, <1>5, <1>6, <1>7, <1>8 DEF Next

\* A running executor and the store agree, whatever fails, whichever server stops
\* and however long an execution takes: no save of an event is answered with a
\* conflict, and with "not found" only when the TTL policy took the document.
THEOREM StoreAgrees == Spec => []IInv
<1>1. Init => IInv
  BY InitHolds
<1>2. IInv /\ [Next]_vars => IInv'
  BY NextKeeps
<1> QED
  BY <1>1, <1>2, PTL DEF Spec

\* What follows what an executor has yielded is a step of TaskLife.
LEMMA AfterFollowsLife ==
    ASSUME NEW i \in Ids, NEW old \in View, ~Ended(old.state), NEW t \in After(old),
           docs[i] # None, docs'[i] # None,
           docs[i].state = old.state, docs[i].artifacts = old.artifacts,
           docs'[i].state = t.state, docs'[i].artifacts = t.artifacts
    PROVE  Life(i)!Next
<1>1. old.state \in {"submitted", "working"} /\ old.artifacts \in 0..2
  BY DEF View, States, Ended
<1>2. t.artifacts \in 0..2
  BY DEF After
<1>3. CASE t.state = "working" /\ old.artifacts = 0 /\ t.artifacts = 0
  <2>1. Life(i)!Work
    BY <1>1, <1>3 DEF Life!Work
  <2> QED
    BY <2>1 DEF Life!Next
<1>4. CASE old.state = "working" /\ t.state = "working" /\ t.artifacts = old.artifacts + 1
  <2>1. Life(i)!Produce
    BY <1>1, <1>2, <1>4 DEF Life!Produce
  <2> QED
    BY <2>1 DEF Life!Next
<1>5. CASE old.state = "working" /\ t.state = "failed" /\ old.artifacts = 0 /\ t.artifacts = 0
  <2>1. Life(i)!Fail
    BY <1>5 DEF Life!Fail
  <2> QED
    BY <2>1 DEF Life!Next
<1>6. CASE /\ old.state = "working" /\ t.state = "completed"
           /\ old.artifacts > 0 /\ t.artifacts = old.artifacts
  <2>1. Life(i)!Complete
    BY <1>6 DEF Life!Complete
  <2> QED
    BY <2>1 DEF Life!Next
<1> QED
  BY <1>3, <1>4, <1>5, <1>6 DEF After

LEMMA NextFollowsLife ==
    ASSUME IInv, [Next]_vars, NEW i \in Ids, docs'[i] # None, docs'[i] # docs[i]
    PROVE  Life(i)!Next \/ UNCHANGED Life(i)!vars
<1>1. TypeOK /\ EventsAreSaved /\ TasksAreOwned
  BY DEF IInv
<1>2. ASSUME NEW j \in Ids, NEW t \in Yielded, NEW version \in Nat \ {0},
             Save(j, t, version)
      PROVE  /\ j = i /\ Accepts(i, version)
             /\ docs'[i].state = t.state /\ docs'[i].artifacts = t.artifacts
  <2>1. Accepts(j, version) /\ Write(j, t, version)
    BY <1>2 DEF Save
  <2>2. docs' = [docs EXCEPT ![j] = docs'[j]]
        /\ SeenAs(docs'[j], docs'[j].version) = SeenAs(t, version)
        /\ docs'[j].state = t.state
    BY <1>2, <2>1, WriteFacts
  <2>3. j = i
    BY <1>1, <2>2 DEF TypeOK
  <2>4. docs'[i].artifacts = t.artifacts
    BY <2>2, <2>3 DEF SeenAs
  <2> QED
    BY <2>1, <2>2, <2>3, <2>4
<1>3. ASSUME NEW j \in Ids, Submit(j)  PROVE Life(i)!Next
  <2> DEFINE t == [state |-> "submitted", artifacts |-> 0]
  <2>1. j = i /\ Accepts(i, 1) /\ docs'[i].state = t.state /\ docs'[i].artifacts = t.artifacts
    BY <1>2, <1>3, Submitted DEF Submit
  <2>2. docs[i] = None
    BY <2>1 DEF Accepts
  <2>3. Life(i)!Submit
    BY <2>1, <2>2 DEF Life!Submit
  <2> QED
    BY <2>3 DEF Life!Next
<1>4. ASSUME NEW j \in Ids, Advance(j)  PROVE Life(i)!Next
  <2>1. PICK t \in After(run[j]) : Save(j, t, run[j].version + 1)
    BY <1>4 DEF Advance
  <2>2. t \in Yielded
    BY DEF After, Yielded
  <2>3. run[j] \in View /\ j \in Running
    BY <1>1, <1>4, RunningHaveViews DEF Advance
  <2>4. run[j].version + 1 \in Nat \ {0}
    BY <2>3 DEF View
  <2>5. /\ j = i /\ docs'[i].state = t.state /\ docs'[i].artifacts = t.artifacts
        /\ docs[i] # None
    <3>1. /\ j = i /\ docs'[i].state = t.state /\ docs'[i].artifacts = t.artifacts
          /\ Accepts(i, run[j].version + 1)
      BY <1>2, <2>1, <2>2, <2>4
    <3>2. run[j].version + 1 # 1
      BY <2>3 DEF View
    <3> QED
      BY <3>1, <3>2 DEF Accepts
  <2>6. /\ docs[i] # None /\ run[i] = SeenAs(docs[i], docs[i].version)
        /\ ~Ended(docs[i].state)
    BY <1>1, <2>3, <2>5 DEF EventsAreSaved
  <2>7. run[i].state = docs[i].state /\ run[i].artifacts = docs[i].artifacts
    BY <2>6 DEF SeenAs
  <2> QED
    BY <2>1, <2>3, <2>5, <2>6, <2>7, AfterFollowsLife
<1>5. ASSUME NEW j \in Ids, Reply(j)  PROVE FALSE
  BY <1>5 DEF Reply
<1>6. ASSUME NEW j \in Ids, Purge(j)  PROVE FALSE
  BY <1>1, <1>6 DEF Purge, TypeOK
<1>7. ASSUME Crash  PROVE FALSE
  BY <1>7 DEF Crash
<1>8. ASSUME Day  PROVE UNCHANGED Life(i)!vars
  <2>1. docs' = [j \in Ids |->
                  IF docs[j] # None /\ docs[j].life > 0
                  THEN [docs[j] EXCEPT !.life = @ - 1] ELSE docs[j]]
    BY <1>8 DEF Day
  <2>2. docs[i] # None /\ docs'[i] = [docs[i] EXCEPT !.life = @ - 1]
    BY <2>1
  <2>3. docs[i] \in Doc
    BY <1>1, <2>2 DEF TypeOK
  <2>4. docs'[i].state = docs[i].state /\ docs'[i].artifacts = docs[i].artifacts
    BY <2>2, <2>3 DEF Doc
  <2> QED
    BY <2>2, <2>4 DEF Life!vars
<1>9. ASSUME Rest \/ UNCHANGED vars  PROVE FALSE
  BY <1>9 DEF Rest, vars
<1> QED
  BY <1>3, <1>4, <1>5, <1>6, <1>7, <1>8, <1>9 DEF Next

\* Every change of a stored task is a step of TaskLife: get_task shows no task
\* that skips an event, whatever save failed and whichever server stopped.
THEOREM StoredTasksLive == Spec => StoredFollowsLife
<1>1. IInv /\ [Next]_vars =>
        [\A i \in Ids : docs'[i] # None /\ docs'[i] # docs[i] =>
            Life(i)!Next \/ UNCHANGED Life(i)!vars]_vars
  BY NextFollowsLife
<1> QED
  BY <1>1, StoreAgrees, PTL DEF Spec, StoredFollowsLife

\* The first elements of a list.
LEMMA UpToIs ==
    ASSUME NEW E, NEW s \in Seq(E), NEW n \in Nat
    PROVE  /\ UpTo(n, s) \in Seq(E)
           /\ Len(UpTo(n, s)) = IF n < Len(s) THEN n ELSE Len(s)
           /\ \A k \in 1..Len(UpTo(n, s)) : k \in 1..Len(s) /\ UpTo(n, s)[k] = s[k]
<1> DEFINE m == IF n < Len(s) THEN n ELSE Len(s)
<1>1. m \in {n, Len(s)} /\ \A x \in {n, Len(s)} : m <= x
  OBVIOUS
<1>2. m \in Nat /\ m <= Len(s)
  OBVIOUS
<1>3. \A x \in {n, Len(s)} : x \in Nat
  OBVIOUS
<1> HIDE DEF m
<1>4. Min({n, Len(s)}) = m
  BY <1>1, <1>2, <1>3 DEF Min
<1>5. UpTo(n, s) = SubSeq(s, 1, m)
  BY <1>4 DEF UpTo
<1>6. /\ SubSeq(s, 1, m) \in Seq(E)
      /\ Len(SubSeq(s, 1, m)) = m
      /\ \A k \in 1..m : k \in 1..Len(s) /\ SubSeq(s, 1, m)[k] = s[k]
  BY <1>2
<1>7. QED
  BY <1>5, <1>6 DEF m

\* The order of recent is strict.
LEMMA NewerIsStrict ==
    ASSUME RecentAreStored, NEW i, NEW j, Newer(i, j)
    PROVE  i # j
<1>1. PICK m \in DOMAIN recent, n \in DOMAIN recent : m < n /\ recent[m] = i /\ recent[n] = j
  BY DEF Newer
<1>2. DOMAIN recent \subseteq Nat
  BY DEF RecentAreStored
<1>3. recent[m] = recent[n] => m = n
  BY DEF RecentAreStored, IsInjective
<1>4. QED
  BY <1>1, <1>2, <1>3

\* A list whose elements come in the order of recent.
Ordered(s) == \A j, k \in DOMAIN s : j < k => Newer(s[j], s[k])

\* Filtering keeps the order, ...
LEMMA WithinOrdered ==
    ASSUME NEW s \in Seq(Ids), NEW S, Ordered(s)
    PROVE  Ordered(Within(s, S))
<1> DEFINE w == Within(s, S)
<1>1. Sublist(w, s, Len(s), S) /\ DOMAIN s = 1..Len(s)
  BY WithinIsSublist
<1> HIDE DEF w
<1>2. ASSUME NEW j \in DOMAIN w, NEW k \in DOMAIN w, j < k
      PROVE  Newer(w[j], w[k])
  <2>1. PICK m \in 1..Len(s), l \in 1..Len(s) : m < l /\ s[m] = w[j] /\ s[l] = w[k]
    BY <1>1, <1>2 DEF Sublist
  <2>2. QED
    BY <1>1, <2>1 DEF Ordered
<1>3. Ordered(w)
  BY <1>2 DEF Ordered
<1>4. QED
  BY <1>3 DEF w

\* ... and so does cutting it.
LEMMA UpToOrdered ==
    ASSUME NEW s \in Seq(Ids), NEW n \in Nat, Ordered(s)
    PROVE  Ordered(UpTo(n, s))
<1> DEFINE u == UpTo(n, s)
<1>1. u \in Seq(Ids) /\ \A k \in 1..Len(u) : k \in 1..Len(s) /\ u[k] = s[k]
  BY UpToIs
<1> HIDE DEF u
<1>2. DOMAIN u = 1..Len(u) /\ DOMAIN s = 1..Len(s)
  BY <1>1
<1>3. Ordered(u)
  BY <1>1, <1>2 DEF Ordered
<1>4. QED
  BY <1>3 DEF u

\* What List answers, over what is stored.
LEMMA ListedNewest ==
    ASSUME RecentAreStored, NEW user \in Users, NEW req \in ListRequest
    PROVE  LET page == List(user, req)
               shown == {page[k].id : k \in DOMAIN page}
               own == OwnedBy(user)
               matching == own \cap Matching(req)
           IN  /\ shown \subseteq matching /\ Len(page) <= SizeOf(req)
               /\ \A j, k \in DOMAIN page : j < k => Newer(page[j].id, page[k].id)
               /\ \A i \in matching \ shown :
                     \/ Len(page) = SizeOf(req) /\ \A j \in shown : Newer(j, i)
                     \/ Cardinality({j \in own : Newer(j, i)}) >= OverFetch * SizeOf(req)
<1> DEFINE own == OwnedBy(user)
           M == Matching(req)
           size == SizeOf(req)
           limit == OverFetch * size
           mine == Within(recent, own)
           fetched == UpTo(limit, mine)
           found == Within(fetched, M)
           kept == UpTo(size, found)
           page == List(user, req)
           shown == {page[k].id : k \in DOMAIN page}
<1>1. size \in Nat /\ limit \in Nat
  <2>1. PageSize \in Nat /\ OverFetch \in Nat /\ MaxPage \in Nat
    <3>1. PageSize \in 1..MaxPage /\ MaxPage \in Nat /\ OverFetch \in Nat \ {0}
      BY AgentTasksAssumption, Zenon
    <3>2. QED
      BY <3>1
  <2>2. req.size \in 0..MaxPage + 1
    BY DEF ListRequest
  <2>3. size \in Nat
    BY <2>1, <2>2 DEF SizeOf
  <2> HIDE DEF size
  <2>4. QED
    BY <2>1, <2>3
<1>2. recent \in Seq(Ids) /\ DOMAIN recent = 1..Len(recent) /\ Ordered(recent)
  BY DEF RecentAreStored, Ordered, Newer
<1>3. fetched = Fetched(user, req)
  BY DEF Fetched
<1>4. page = [j \in DOMAIN kept |-> Shaped(kept[j], req)]
  BY <1>3 DEF List
<1> HIDE DEF page, size, limit, own, M
<1>5. mine \in Seq(Ids) /\ Sublist(mine, recent, Len(recent), own) /\ Ordered(mine)
  BY <1>2, WithinIsSublist, WithinOrdered
<1> HIDE DEF mine
<1>6. /\ fetched \in Seq(Ids) /\ Ordered(fetched)
      /\ Len(fetched) = IF limit < Len(mine) THEN limit ELSE Len(mine)
      /\ \A k \in 1..Len(fetched) : k \in 1..Len(mine) /\ fetched[k] = mine[k]
  BY <1>1, <1>5, UpToIs, UpToOrdered
<1> HIDE DEF fetched
<1>7. found \in Seq(Ids) /\ Sublist(found, fetched, Len(fetched), M) /\ Ordered(found)
  BY <1>6, WithinIsSublist, WithinOrdered
<1> HIDE DEF found
<1>8. /\ kept \in Seq(Ids) /\ Ordered(kept)
      /\ Len(kept) = IF size < Len(found) THEN size ELSE Len(found)
      /\ \A k \in 1..Len(kept) : k \in 1..Len(found) /\ kept[k] = found[k]
  BY <1>1, <1>7, UpToIs, UpToOrdered
<1> HIDE DEF kept
<1>9. /\ DOMAIN mine = 1..Len(mine) /\ Len(mine) \in Nat
      /\ DOMAIN fetched = 1..Len(fetched) /\ Len(fetched) \in Nat
      /\ DOMAIN found = 1..Len(found) /\ Len(found) \in Nat
      /\ DOMAIN kept = 1..Len(kept) /\ Len(kept) \in Nat
  BY <1>5, <1>6, <1>7, <1>8
<1>10. /\ DOMAIN page = 1..Len(kept) /\ Len(page) = Len(kept)
       /\ \A k \in DOMAIN page : page[k].id = kept[k]
  <2>1. DOMAIN page = 1..Len(kept) /\ \A k \in DOMAIN page : page[k].id = kept[k]
    BY <1>4, <1>9 DEF Shaped
  <2>2. page \in Seq({Shaped(kept[j], req) : j \in DOMAIN kept})
    BY <1>4, <1>9
  <2>3. Len(page) = Len(kept)
    BY <1>9, <2>1, <2>2
  <2>4. QED
    BY <2>1, <2>3
<1>11. shown \subseteq own \cap M
  <2>1. ASSUME NEW k \in DOMAIN page PROVE page[k].id \in own \cap M
    <3>1. k \in 1..Len(found) /\ page[k].id = found[k]
      BY <1>8, <1>10
    <3>2. PICK m \in 1..Len(fetched) : fetched[m] = found[k] /\ found[k] \in M
      BY <1>7, <1>9, <3>1 DEF Sublist
    <3>3. m \in 1..Len(mine) /\ fetched[m] = mine[m]
      BY <1>6
    <3>4. mine[m] \in own
      BY <1>5, <1>9, <3>3 DEF Sublist
    <3>5. QED
      BY <3>1, <3>2, <3>3, <3>4
  <2>2. QED
    BY <2>1
<1>12. Len(page) <= size
  BY <1>1, <1>8, <1>9, <1>10
<1>13. \A j, k \in DOMAIN page : j < k => Newer(page[j].id, page[k].id)
  BY <1>8, <1>9, <1>10 DEF Ordered
<1>14. ASSUME NEW i \in (own \cap M) \ shown
       PROVE  \/ Len(page) = size /\ \A j \in shown : Newer(j, i)
              \/ Cardinality({j \in own : Newer(j, i)}) >= limit
  <2>1. PICK m \in 1..Len(recent) : recent[m] = i
    BY <1>2 DEF RecentAreStored, ToSet, own, OwnedBy
  <2>2. PICK a \in 1..Len(mine) : mine[a] = i
    BY <1>5, <1>9, <2>1 DEF Sublist
  <2>3. CASE a <= Len(fetched)
    <3>1. a \in 1..Len(fetched) /\ fetched[a] = i
      BY <1>6, <1>9, <2>2, <2>3
    <3>2. PICK b \in 1..Len(found) : found[b] = i
      BY <1>7, <1>9, <3>1 DEF Sublist
    <3>3. ~(b <= Len(kept))
      <4>1. SUFFICES ASSUME b <= Len(kept) PROVE FALSE
        OBVIOUS
      <4>2. b \in 1..Len(kept) /\ kept[b] = i
        BY <1>8, <1>9, <3>2, <4>1
      <4>3. QED
        BY <1>10, <4>2
    <3>4. Len(kept) = size
      <4>1. CASE size < Len(found)
        BY <1>8, <4>1
      <4>2. CASE ~(size < Len(found))
        <5>1. Len(kept) = Len(found)
          BY <1>8, <4>2
        <5>2. b <= Len(found)
          BY <1>9, <3>2
        <5>3. QED
          BY <3>3, <5>1, <5>2
      <4>3. QED
        BY <4>1, <4>2
    <3>5. ASSUME NEW k \in DOMAIN page PROVE Newer(page[k].id, i)
      <4>1. k \in 1..Len(found) /\ page[k].id = found[k] /\ k < b
        BY <1>8, <1>9, <1>10, <3>3
      <4>2. QED
        BY <1>7, <1>9, <3>2, <4>1 DEF Ordered
    <3>6. QED
      BY <1>10, <3>4, <3>5
  <2>4. CASE ~(a <= Len(fetched))
    <3> DEFINE newer == {j \in own : Newer(j, i)}
    <3>1. limit < a /\ limit <= Len(mine)
      BY <1>1, <1>6, <1>9, <2>2, <2>4
    <3>2. ASSUME NEW c \in 1..limit PROVE mine[c] \in newer
      <4>1. c \in 1..Len(mine) /\ c < a
        BY <1>1, <1>9, <3>1
      <4>2. Newer(mine[c], i)
        BY <1>5, <1>9, <2>2, <4>1 DEF Ordered
      <4>3. mine[c] \in own
        BY <1>5, <1>9, <4>1 DEF Sublist
      <4>4. QED
        BY <4>2, <4>3
    <3>3. ASSUME NEW c \in 1..limit, NEW d \in 1..limit, c < d PROVE mine[c] # mine[d]
      <4>1. c \in DOMAIN mine /\ d \in DOMAIN mine
        BY <1>1, <1>9, <3>1
      <4>2. QED
        BY <1>5, <3>3, <4>1, NewerIsStrict DEF Ordered
    <3>4. IsFiniteSet(newer)
      <4>1. newer \subseteq {recent[k] : k \in DOMAIN recent}
        BY DEF Newer
      <4> DEFINE all == {recent[k] : k \in DOMAIN recent}
      <4>2. IsFiniteSet(all)
        BY <1>2, ElementsFinite
      <4> HIDE DEF all, newer
      <4>3. newer \in SUBSET all
        BY <4>1 DEF all
      <4>4. QED
        BY <4>2, <4>3, FS_Subset
    <3> HIDE DEF newer
    <3>5. Cardinality(newer) >= limit
      BY <1>1, <3>2, <3>3, <3>4, AtLeast
    <3>6. QED
      BY <3>5 DEF newer
  <2>5. QED
    BY <2>3, <2>4
<1>15. QED
  BY <1>11, <1>12, <1>13, <1>14 DEF own, M, size, limit, page

\* A page of List holds the caller's own newest matching tasks; what it leaves out
\* is older than a full page, or was beyond the documents fetched (List).
THEOREM PagesAreNewest == Spec => []ListIsNewestMatching
<1>1. IInv => ListIsNewestMatching
  BY ListedNewest DEF IInv, ListIsNewestMatching
<1>2. QED
  BY <1>1, StoreAgrees, PTL
==============================================================================
