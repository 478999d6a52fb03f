----------------------------- MODULE AgentProofs -----------------------------
(***************************************************************************)
(* Theorems about the agent, for any set of messages, any LLM answers and     *)
(* any length of answer.                                                     *)
(***************************************************************************)
EXTENDS Agent, ListProofs

(* Trimming and splitting *)

\* Trimmed text is text.
LEMMA TrimmedIsText ==
    ASSUME NEW s \in Seq(Token)
    PROVE  TrimSpace(s) \in Seq(Token)
<1> DEFINE solid == {i \in DOMAIN s : s[i] \notin WhiteSpace}
<1>1. Len(s) \in Nat /\ solid \in SUBSET Nat /\ solid \in SUBSET (1..Len(s))
  OBVIOUS
<1> HIDE DEF solid
<1>2. CASE solid = {}
  BY <1>2 DEF TrimSpace, solid
<1>3. CASE solid # {}
  <2>1. Min(solid) \in 1..Len(s) /\ Max(solid) \in 1..Len(s)
    BY <1>1, <1>3, MinIsMember, MaxIsMember
  <2>2. SubSeq(s, Min(solid), Max(solid)) \in Seq(Token)
    BY <2>1
  <2>3. QED
    BY <1>3, <2>2 DEF TrimSpace, solid
<1>4. QED
  BY <1>2, <1>3

\* The first occurrence of a token is a position.
LEMMA FirstIsIndex ==
    ASSUME NEW s \in Seq(Token), NEW t, Has(s, t)
    PROVE  First(s, t) \in 1..Len(s)
<1> DEFINE S == {i \in DOMAIN s : s[i] = t}
<1>1. S \in SUBSET Nat /\ S \subseteq 1..Len(s) /\ S # {}
  BY DEF Has
<1> HIDE DEF S
<1>2. Min(S) \in S
  BY <1>1, MinIsMember
<1>3. QED
  BY <1>1, <1>2 DEF First, S

\* Both paths of an answer are text.
LEMMA PathsAreText ==
    ASSUME NEW s \in Seq(Token)
    PROVE  /\ SplitNeologismPaths(s)[1] \in Seq(Token)
           /\ SplitNeologismPaths(s)[2] \in Seq(Token)
           /\ SplitNeologismPaths(s) = <<SplitNeologismPaths(s)[1], SplitNeologismPaths(s)[2]>>
<1>1. ASSUME NEW i \in 1..Len(s) PROVE After(s, i) \in Seq(Token)
  <2>1. SubSeq(s, i + 1, Len(s)) \in Seq(Token)
    OBVIOUS
  <2>2. QED
    BY <2>1, TrimmedIsText DEF After
<1>2. ASSUME NEW i \in 1..Len(s), NEW j \in 1..Len(s) PROVE Between(s, i, j) \in Seq(Token)
  <2>1. SubSeq(s, i + 1, j - 1) \in Seq(Token)
    OBVIOUS
  <2>2. QED
    BY <2>1, TrimmedIsText DEF Between
<1>3. <<>> \in Seq(Token)
  OBVIOUS
<1>4. CASE Has(s, Practical) /\ Has(s, Poetic)
  <2>1. First(s, Practical) \in 1..Len(s) /\ First(s, Poetic) \in 1..Len(s)
    BY <1>4, FirstIsIndex
  <2>2. QED
    BY <1>1, <1>2, <1>4, <2>1 DEF SplitNeologismPaths
<1>5. CASE ~ (Has(s, Practical) /\ Has(s, Poetic))
  <2>1. Has(s, Practical) => After(s, First(s, Practical)) \in Seq(Token)
    BY <1>1, FirstIsIndex
  <2>2. Has(s, Poetic) => After(s, First(s, Poetic)) \in Seq(Token)
    BY <1>1, FirstIsIndex
  <2>3. QED
    BY <1>3, <1>5, <2>1, <2>2 DEF SplitNeologismPaths
<1>6. QED
  BY <1>4, <1>5

\* A run has one or two artifacts to deliver, each of them text.
LEMMA DueIsText ==
    ASSUME TypeOK, skill \in Skills
    PROVE  /\ Len(Due) \in {1, 2}
           /\ \A i \in 1..Len(Due) : Due[i] \in Seq(Token)
<1>1. TrimSpace(full) \in Seq(Token)
  BY TrimmedIsText DEF TypeOK
<1>2. CASE skill = "name"
  <2> DEFINE w == <<Stop>>
  <2>1. Due = <<w>>
    BY <1>2 DEF Due
  <2>2. w \in Seq(Token)
    BY DEF Token
  <2> HIDE DEF w
  <2>3. QED
    BY <2>1, <2>2
<1>3. CASE skill = "translate"
  <2>1. Due = <<TrimSpace(full)>>
    BY <1>3 DEF Due
  <2>2. QED
    BY <1>1, <2>1
<1>4. CASE skill = "neologism"
  <2> DEFINE r == TrimSpace(full)
             p == SplitNeologismPaths(r)
  <2>1. /\ p[1] \in Seq(Token) /\ p[2] \in Seq(Token)
        /\ p = <<p[1], p[2]>>
    BY <1>1, PathsAreText
  <2>2. Due = IF p[1] = <<>> THEN IF p[2] = <<>> THEN <<r>> ELSE <<p[2]>>
              ELSE IF p[2] = <<>> THEN <<p[1]>> ELSE <<p[1], p[2]>>
    BY <1>4, <2>1 DEF Due, Paths
  <2> HIDE DEF p, r
  <2>3. r \in Seq(Token)
    BY <1>1 DEF r
  <2>4. CASE p[1] = <<>> /\ p[2] = <<>>
    BY <2>2, <2>3, <2>4
  <2>5. CASE p[1] = <<>> /\ p[2] # <<>>
    BY <2>1, <2>2, <2>5
  <2>6. CASE p[1] # <<>> /\ p[2] = <<>>
    BY <2>1, <2>2, <2>6
  <2>7. CASE p[1] # <<>> /\ p[2] # <<>>
    <3>1. Due = <<p[1], p[2]>>
      BY <2>2, <2>7
    <3>2. QED
      BY <2>1, <3>1
  <2>8. QED
    BY <2>4, <2>5, <2>6, <2>7
<1>5. QED
  BY <1>2, <1>3, <1>4 DEF Skills
------------------------------------------------------------------------------
(* What trimming keeps *)

\* Trimming takes away white space only.
LEMMA TrimKeeps ==
    ASSUME NEW s \in Seq(Token), NEW S, S \cap WhiteSpace = {}
    PROVE  Within(TrimSpace(s), S) = Within(s, S)
<1> DEFINE solid == {i \in DOMAIN s : s[i] \notin WhiteSpace}
           n == Len(s)
<1>1. n \in Nat /\ solid \in SUBSET Nat /\ solid \in SUBSET (1..n)
  OBVIOUS
<1>2. \A i \in 1..n : i \notin solid => s[i] \notin S
  BY <1>1
<1>3. CASE solid = {}
  <2>1. TrimSpace(s) = <<>>
    BY <1>3 DEF TrimSpace
  <2>2. Within(s, S) = <<>>
    BY <1>2, <1>3, WithinNone
  <2>3. QED
    BY <2>1, <2>2, WithinEmpty
<1>4. CASE solid # {}
  <2>1. PICK a, b : a = Min(solid) /\ b = Max(solid)
    OBVIOUS
  <2>2. TrimSpace(s) = SubSeq(s, a, b)
    BY <1>4, <2>1 DEF TrimSpace
  <2> HIDE DEF solid
  <2>3. a \in solid /\ b \in solid /\ \A y \in solid : a <= y /\ y <= b
    BY <1>1, <1>4, <2>1, MinIsMember, MaxIsMember
  <2>4. a \in 1..Len(s) /\ b \in a..Len(s)
    BY <1>1, <2>3 DEF n
  <2>5. \A i \in 1..Len(s) : i < a \/ i > b => s[i] \notin S
    BY <1>1, <1>2, <2>3, <2>4 DEF n
  <2>6. Alike(SubSeq(s, a, b), s, S)
    BY <2>4, <2>5, WithinMiddle
  <2>7. QED
    BY <2>2, <2>6 DEF Alike
<1>5. QED
  BY <1>3, <1>4

\* Trimming keeps what is solid, and leaves nothing of white space alone.
LEMMA SolidTrim ==
    ASSUME NEW s \in Seq(Token)
    PROVE  /\ Solid(TrimSpace(s)) = Solid(s) /\ Solid(s) \in Seq(Token)
           /\ TrimSpace(s) = <<>> <=> Solid(s) = <<>>
<1> DEFINE S == Token \ WhiteSpace
           solid == {i \in DOMAIN s : s[i] \notin WhiteSpace}
<1>1. S \cap WhiteSpace = {}
  OBVIOUS
<1>2. Within(TrimSpace(s), S) = Within(s, S) /\ Within(s, S) \in Seq(Token)
  BY <1>1, TrimKeeps, WithinIsSublist
<1>3. solid = {} <=> \A k \in 1..Len(s) : s[k] \notin S
  OBVIOUS
<1>4. Within(s, S) = <<>> <=> solid = {}
  BY <1>3, WithinNone
<1>5. TrimSpace(s) = <<>> => Within(s, S) = <<>>
  BY <1>2, WithinEmpty
<1>6. solid = {} => TrimSpace(s) = <<>>
  BY DEF TrimSpace
<1>7. QED
  BY <1>2, <1>4, <1>5, <1>6 DEF Solid
------------------------------------------------------------------------------
(* Yielding *)

\* What a yield adds to the kinds and the artifacts heard, and where it leads.
LEMMA AfterYield ==
    ASSUME TypeOK, Counting,
           NEW kind \in EventKinds, NEW text \in Seq(Token), NEW next,
           Yield(kind, text, next)
    PROVE  /\ heard' \in Seq(Event) /\ listening' \in BOOLEAN
           /\ Kinds' = Kinds \cup {kind}
           /\ Delivered' = Delivered + (IF kind = "artifact" THEN 1 ELSE 0)
           /\ kind # "artifact" => Delivered' = Delivered
           /\ phase' \in {next, "over"}
           /\ ~listening' => phase' = "over"
<1> DEFINE e == [kind |-> kind, text |-> text]
           n == Len(heard)
           A == {i \in DOMAIN heard : heard[i].kind = "artifact"}
<1>1. heard \in Seq(Event) /\ e \in Event /\ n \in Nat
  BY DEF TypeOK, Event
<1>2. heard' = Append(heard, e)
  BY DEF Yield
<1>3. /\ heard' \in Seq(Event)
      /\ DOMAIN heard' = 1..(n + 1) /\ DOMAIN heard = 1..n
      /\ \A i \in 1..n : heard'[i] = heard[i]
      /\ heard'[n + 1] = e
  BY <1>1, <1>2
<1>4. Kinds' = Kinds \cup {kind}
  <2>1. Kinds' = {heard'[i].kind : i \in 1..(n + 1)}
    BY <1>3 DEF Kinds
  <2>2. Kinds = {heard[i].kind : i \in 1..n}
    BY <1>3 DEF Kinds
  <2>3. heard'[n + 1].kind = kind
    BY <1>3
  <2>4. n + 1 \in 1..(n + 1) /\ 1..n \subseteq 1..(n + 1)
    BY <1>1
  <2>5. ASSUME NEW i \in 1..(n + 1) PROVE heard'[i].kind \in Kinds \cup {kind}
    <3>1. i \in 1..n \/ i = n + 1
      BY <1>1
    <3>2. QED
      BY <1>3, <2>2, <2>3, <3>1
  <2>6. ASSUME NEW i \in 1..n PROVE heard[i].kind \in Kinds'
    BY <1>3, <2>1, <2>4
  <2>7. kind \in Kinds'
    BY <2>1, <2>3, <2>4
  <2>8. Kinds' \subseteq Kinds \cup {kind}
    BY <2>1, <2>5
  <2>9. Kinds \subseteq Kinds'
    BY <2>2, <2>6
  <2>10. QED
    BY <2>7, <2>8, <2>9
<1>5. Delivered' = Delivered + (IF kind = "artifact" THEN 1 ELSE 0)
  <2>1. Delivered = Cardinality(A)
    BY DEF Delivered
  <2>2. IsFiniteSet(A)
    <3>1. IsFiniteSet(1..n)
      BY <1>1, FS_Interval
    <3>2. A \subseteq 1..n
      BY <1>3
    <3>3. QED
      BY <3>1, <3>2, FS_Subset
  <2>3. e.kind = kind
    OBVIOUS
  <2>4. n + 1 \notin A
    BY <1>1, <1>3
  <2>5. Delivered' = Cardinality({i \in DOMAIN heard' : heard'[i].kind = "artifact"})
    BY DEF Delivered
  <2>6. {i \in DOMAIN heard' : heard'[i].kind = "artifact"}
            = IF kind = "artifact" THEN A \cup {n + 1} ELSE A
    BY <1>1, <1>3, <2>3
  <2>7. Cardinality(A \cup {n + 1}) = Cardinality(A) + 1
    BY <2>2, <2>4, FS_AddElement
  <2>8. Cardinality(A) \in Nat
    BY <2>2, FS_CardinalityType
  <2> HIDE DEF A
  <2>9. CASE kind = "artifact"
    BY <2>1, <2>5, <2>6, <2>7, <2>8, <2>9
  <2>10. CASE kind # "artifact"
    <3>1. Delivered' = Delivered
      BY <2>1, <2>5, <2>6, <2>10
    <3>2. QED
      BY <2>1, <2>8, <2>10, <3>1
  <2>11. QED
    BY <2>9, <2>10
<1>6. kind # "artifact" => Delivered' = Delivered
  BY <1>5 DEF Counting
<1>7. QED
  BY <1>3, <1>4, <1>5, <1>6 DEF Yield

\* A step that yields nothing leaves what was heard as it was.
LEMMA Unheard ==
    ASSUME UNCHANGED <<heard, listening>>
    PROVE  Kinds' = Kinds /\ Delivered' = Delivered
  BY DEF Kinds, Delivered

\* What is due depends on the skill and the answer only.
LEMMA SameDue ==
    ASSUME UNCHANGED <<skill, full>>
    PROVE  Due' = Due
  BY DEF Due

\* A progress message has no text.
LEMMA NoteIsYield ==
    ASSUME NEW next, Note(next)
    PROVE  Yield("working", <<>>, next)
  BY DEF Note

\* The empty text and the kinds of events.
LEMMA YieldTypes ==
    /\ <<>> \in Seq(Token)
    /\ {"message", "submitted", "working", "artifact", "completed", "failed"}
          \subseteq EventKinds
  BY DEF EventKinds

\* What a flush adds to the kinds heard, and where it leads.
LEMMA AfterFlush ==
    ASSUME TypeOK, Counting, NEW s \in Seq(Token), NEW next, FlushBuf(s, next)
    PROVE  /\ heard' \in Seq(Event) /\ listening' \in BOOLEAN /\ buf' \in Seq(Token)
           /\ Kinds' \in {Kinds, Kinds \cup {"working"}}
           /\ Delivered' = Delivered
           /\ phase' \in {next, "over"}
           /\ ~listening' => ~listening \/ phase' = "over"
<1>1. CASE TrimSpace(s) = <<>>
  <2>1. buf' = s /\ phase' = next /\ UNCHANGED <<heard, listening>>
    BY <1>1 DEF FlushBuf
  <2>2. Kinds' = Kinds /\ Delivered' = Delivered
    BY <2>1, Unheard
  <2>3. QED
    BY <2>1, <2>2 DEF TypeOK
<1>2. CASE TrimSpace(s) # <<>>
  <2>1. buf' = <<>> /\ Yield("working", TrimSpace(s), next)
    BY <1>2 DEF FlushBuf
  <2>2. TrimSpace(s) \in Seq(Token)
    BY TrimmedIsText
  <2>3. /\ heard' \in Seq(Event) /\ listening' \in BOOLEAN
        /\ Kinds' = Kinds \cup {"working"}
        /\ Delivered' = Delivered + (IF "working" = "artifact" THEN 1 ELSE 0)
        /\ phase' \in {next, "over"}
        /\ ~listening' => phase' = "over"
    BY <2>1, <2>2, AfterYield, YieldTypes
  <2>4. Delivered' = Delivered
    BY <2>3 DEF Counting
  <2>5. QED
    BY <2>1, <2>3, <2>4
<1>3. QED
  BY <1>1, <1>2
------------------------------------------------------------------------------
(* The invariant *)

\* At the start nothing has been heard.
LEMMA InitIInv == Init => IInv
<1> SUFFICES ASSUME Init PROVE IInv
  OBVIOUS
<1>1. TypeOK
  BY AgentAssumption DEF Init, TypeOK
<1>2. Kinds = {}
  BY DEF Init, Kinds
<1>3. Delivered = 0
  <2>1. {i \in DOMAIN heard : heard[i].kind = "artifact"} = {}
    BY DEF Init
  <2>2. QED
    BY <2>1, FS_EmptySet DEF Delivered
<1>4. QED
  BY <1>1, <1>2, <1>3 DEF Init, IInv, BeforeTask, DuringTask, InTask, Stopping,
     Counting, TasksAreAllowed, LedgerAgrees

\* A step that changes nothing keeps the invariant.
LEMMA Stutter ==
    ASSUME IInv, UNCHANGED vars
    PROVE  IInv'
<1>1. /\ UNCHANGED <<call, llm, skill, phase, left, roots, full, buf, ledger>>
      /\ UNCHANGED <<heard, listening>>
  BY DEF vars
<1>2. Kinds' = Kinds /\ Delivered' = Delivered /\ Due' = Due
  BY <1>1, Unheard, SameDue
<1>3. TypeOK'
  BY <1>1 DEF IInv, TypeOK
<1>4. BeforeTask' /\ DuringTask' /\ Stopping' /\ Counting'
  BY <1>1, <1>2 DEF IInv, BeforeTask, DuringTask, InTask, Stopping, Counting
<1>5. TasksAreAllowed' /\ LedgerAgrees'
  BY <1>1, <1>2 DEF IInv, TasksAreAllowed, LedgerAgrees
<1>6. QED
  BY <1>3, <1>4, <1>5 DEF IInv

\* Each step keeps the invariant.
LEMMA Inductive == IInv /\ [Next]_vars => IInv'
<1> SUFFICES ASSUME IInv, [Next]_vars PROVE IInv'
  OBVIOUS
<1>1. TypeOK /\ Counting
  BY DEF IInv
<1>2. call \in Call /\ llm \in BOOLEAN
  BY <1>1, AgentAssumption DEF TypeOK
<1> USE DEF IInv
<1>3. CASE Before
  <2>1. Kinds' = Kinds /\ Delivered' = Delivered
    BY <1>3, Unheard DEF Before
  <2>2. TypeOK'
    BY <1>1, <1>3 DEF Before, TypeOK
  <2>3. QED
    BY <1>1, <1>3, <2>1, <2>2 DEF Before, BeforeTask, DuringTask, InTask, Stopping, Counting, TasksAreAllowed, LedgerAgrees, TypeOK
<1>4. CASE Execute
  <2>1. Kinds' = Kinds /\ Delivered' = Delivered /\ Kinds = {}
    BY <1>4, Unheard DEF Execute, BeforeTask
  <2>2. call.asks \subseteq Skills
    BY <1>2 DEF Call
  <2>3. skill' = Route(call.asks) /\ skill' \in Skills \cup {"echo"}
    BY <1>4 DEF Execute, Route, Skills
  <2>4. ASSUME skill' # "echo"
        PROVE  /\ skill' \in call.asks
               /\ "neologism" \in call.asks => skill' = "neologism"
               /\ skill' = "name" => call.asks = {"name"}
    BY <2>2, <2>3, <2>4 DEF Route, Skills
  <2>5. ASSUME phase' # "reply"
        PROVE  /\ phase' = "start" /\ skill' # "echo" /\ ScopeOf[skill'] \in call.scopes
               /\ UsesLLM(skill') => llm
    BY <1>4, <2>5 DEF Execute, MayRun
  <2>6. phase' \in {"start", "reply"} /\ "agent:invoke" \in call.scopes /\ call.claims
    BY <1>4 DEF Execute, BeforeTask
  <2>7. TypeOK'
    BY <1>1, <1>4, <2>3, <2>6 DEF Execute, TypeOK
  <2>8. phase' = "start" =>
            /\ skill' \in Skills
            /\ call'.claims /\ {"agent:invoke", ScopeOf[skill']} \subseteq call'.scopes
            /\ skill' \in call'.asks /\ (UsesLLM(skill') => llm')
            /\ "neologism" \in call'.asks => skill' = "neologism"
            /\ skill' = "name" => call'.asks = {"name"}
    BY <1>4, <2>3, <2>4, <2>5, <2>6 DEF Execute
  <2>9. BeforeTask'
    BY <1>4, <2>1, <2>6 DEF Execute, BeforeTask
  <2>10. DuringTask'
    BY <2>6, <2>8 DEF DuringTask, InTask
  <2>11. Stopping' /\ Counting' /\ TasksAreAllowed' /\ LedgerAgrees'
    BY <1>4, <2>1, <2>6 DEF Execute, Stopping, Counting, TasksAreAllowed, LedgerAgrees
  <2>12. QED
    BY <2>7, <2>9, <2>10, <2>11
<1>5. CASE Reply
  <2>1. Yield("message", <<>>, "over")
    BY <1>5 DEF Reply
  <2>2. /\ heard' \in Seq(Event) /\ listening' \in BOOLEAN
        /\ Kinds' = Kinds \cup {"message"}
        /\ Delivered' = Delivered
        /\ phase' \in {"over", "over"}
        /\ ~listening' => phase' = "over"
    <3>1. Delivered' = Delivered + (IF "message" = "artifact" THEN 1 ELSE 0)
      BY <1>1, <2>1, AfterYield, YieldTypes
    <3>2. Delivered' = Delivered
      BY <1>1, <3>1 DEF Counting
    <3>3. QED
      BY <1>1, <2>1, <3>2, AfterYield, YieldTypes
  <2>3. TypeOK'
    BY <1>1, <1>2, <1>5, <2>2 DEF Reply, TypeOK, Counting, Call
  <2>4. Due' = Due
    BY <1>5, SameDue DEF Reply
  <2>5. QED
    BY <1>1, <1>5, <2>2, <2>3, <2>4 DEF Reply, BeforeTask, DuringTask, InTask, Stopping, Counting, TasksAreAllowed, LedgerAgrees, TypeOK
<1>6. CASE Submit
  <2>1. Yield("submitted", <<>>, "announce")
    BY <1>6 DEF Submit
  <2>2. /\ heard' \in Seq(Event) /\ listening' \in BOOLEAN
        /\ Kinds' = Kinds \cup {"submitted"}
        /\ Delivered' = Delivered
        /\ phase' \in {"announce", "over"}
        /\ ~listening' => phase' = "over"
    <3>1. Delivered' = Delivered + (IF "submitted" = "artifact" THEN 1 ELSE 0)
      BY <1>1, <2>1, AfterYield, YieldTypes
    <3>2. Delivered' = Delivered
      BY <1>1, <3>1 DEF Counting
    <3>3. QED
      BY <1>1, <2>1, <3>2, AfterYield, YieldTypes
  <2>3. TypeOK'
    BY <1>1, <1>2, <1>6, <2>2 DEF Submit, TypeOK, Counting, Call
  <2>4. Due' = Due
    BY <1>6, SameDue DEF Submit
  <2>5. QED
    BY <1>1, <1>6, <2>2, <2>3, <2>4 DEF Submit, BeforeTask, DuringTask, InTask, Stopping, Counting, TasksAreAllowed, LedgerAgrees, TypeOK
<1>7. CASE Announce
  <2>1. Yield("working", <<>>, "lookup")
    BY <1>7, NoteIsYield DEF Announce
  <2>2. /\ heard' \in Seq(Event) /\ listening' \in BOOLEAN
        /\ Kinds' = Kinds \cup {"working"}
        /\ Delivered' = Delivered
        /\ phase' \in {"lookup", "over"}
        /\ ~listening' => phase' = "over"
    <3>1. Delivered' = Delivered + (IF "working" = "artifact" THEN 1 ELSE 0)
      BY <1>1, <2>1, AfterYield, YieldTypes
    <3>2. Delivered' = Delivered
      BY <1>1, <3>1 DEF Counting
    <3>3. QED
      BY <1>1, <2>1, <3>2, AfterYield, YieldTypes
  <2>3. TypeOK'
    BY <1>1, <1>2, <1>7, <2>2 DEF Announce, TypeOK, Counting, Call
  <2>4. Due' = Due
    BY <1>7, SameDue DEF Announce
  <2>5. QED
    BY <1>1, <1>7, <2>2, <2>3, <2>4 DEF Announce, BeforeTask, DuringTask, InTask, Stopping, Counting, TasksAreAllowed, LedgerAgrees, TypeOK
<1>8. CASE LookUp
  <2>1. Yield("working", <<>>, "lookup")
    BY <1>8, NoteIsYield DEF LookUp
  <2>2. /\ heard' \in Seq(Event) /\ listening' \in BOOLEAN
        /\ Kinds' = Kinds \cup {"working"}
        /\ Delivered' = Delivered
        /\ phase' \in {"lookup", "over"}
        /\ ~listening' => phase' = "over"
    <3>1. Delivered' = Delivered + (IF "working" = "artifact" THEN 1 ELSE 0)
      BY <1>1, <2>1, AfterYield, YieldTypes
    <3>2. Delivered' = Delivered
      BY <1>1, <3>1 DEF Counting
    <3>3. QED
      BY <1>1, <2>1, <3>2, AfterYield, YieldTypes
  <2>3. TypeOK'
    BY <1>1, <1>2, <1>8, <2>2 DEF LookUp, TypeOK, Counting, Call
  <2>4. Due' = Due
    BY <1>8, SameDue DEF LookUp
  <2>5. QED
    BY <1>1, <1>8, <2>2, <2>3, <2>4 DEF LookUp, BeforeTask, DuringTask, InTask, Stopping, Counting, TasksAreAllowed, LedgerAgrees, TypeOK
<1>9. CASE Compound
  <2>1. CASE roots = 0
    <3>1. Yield("failed", <<>>, "over")
      BY <1>9, <2>1 DEF Compound
    <3>2. /\ heard' \in Seq(Event) /\ listening' \in BOOLEAN
          /\ Kinds' = Kinds \cup {"failed"}
          /\ Delivered' = Delivered + (IF "failed" = "artifact" THEN 1 ELSE 0)
          /\ phase' = "over"
      BY <1>1, <3>1, AfterYield, YieldTypes
    <3>3. Delivered' = Delivered
      BY <1>1, <3>2 DEF Counting
    <3>4. TypeOK'
      BY <1>1, <1>9, <3>2 DEF Compound, TypeOK
    <3>5. QED
      BY <1>1, <1>9, <3>2, <3>3, <3>4 DEF Compound, UsesLLM, BeforeTask, DuringTask, InTask, Stopping, Counting, TasksAreAllowed, LedgerAgrees
  <2>2. CASE roots # 0
    <3>1. Yield("working", <<>>, "deliver")
      BY <1>9, <2>2, NoteIsYield DEF Compound
    <3>2. /\ heard' \in Seq(Event) /\ listening' \in BOOLEAN
          /\ Kinds' = Kinds \cup {"working"}
          /\ Delivered' = Delivered + (IF "working" = "artifact" THEN 1 ELSE 0)
          /\ phase' \in {"deliver", "over"}
          /\ ~listening' => phase' = "over"
      BY <1>1, <3>1, AfterYield, YieldTypes
    <3>3. Delivered' = 0
      BY <1>1, <1>9, <3>2 DEF Compound, Counting, DuringTask
    <3>4. TypeOK'
      BY <1>1, <1>9, <3>2 DEF Compound, TypeOK
    <3>5. Len(Due') \in {1, 2}
      <4>1. Due' = Due /\ Len(Due) \in {1, 2}
        BY <1>1, <1>9, SameDue, DueIsText DEF Compound, DuringTask, InTask
      <4>2. QED
        BY <4>1
    <3>6. ~ UsesLLM(skill)
      BY <1>9 DEF Compound, UsesLLM
    <3>7. QED
      BY <1>1, <1>9, <3>2, <3>3, <3>4, <3>5, <3>6 DEF Compound, BeforeTask, DuringTask, InTask, Stopping, Counting, TasksAreAllowed, LedgerAgrees
  <2>3. QED
    BY <2>1, <2>2
<1>10. CASE Prepare
  <2>1. /\ heard' \in Seq(Event) /\ listening' \in BOOLEAN
        /\ Kinds' \in {Kinds, Kinds \cup {"working"}}
        /\ Delivered' = Delivered
        /\ phase' \in {"think", "over"}
        /\ ~listening' => phase' = "over"
    <3>1. CASE Note("think")
      <4>1. /\ heard' \in Seq(Event) /\ listening' \in BOOLEAN
            /\ Kinds' = Kinds \cup {"working"}
            /\ Delivered' = Delivered + (IF "working" = "artifact" THEN 1 ELSE 0)
            /\ phase' \in {"think", "over"}
            /\ ~listening' => phase' = "over"
        BY <1>1, <3>1, NoteIsYield, AfterYield, YieldTypes
      <4>2. QED
        BY <1>1, <4>1 DEF Counting
    <3>2. CASE phase' = "think" /\ UNCHANGED <<heard, listening>>
      <4>1. listening = TRUE
        BY <1>1, <1>10 DEF Prepare, Stopping, TypeOK
      <4>2. QED
        BY <1>1, <3>2, <4>1, Unheard DEF TypeOK
    <3>3. QED
      BY <1>10, <3>1, <3>2 DEF Prepare
  <2>2. TypeOK'
    BY <1>1, <1>10, <2>1 DEF Prepare, TypeOK
  <2>3. QED
    BY <1>1, <1>10, <2>1, <2>2 DEF Prepare, BeforeTask, DuringTask, InTask, Stopping, Counting, TasksAreAllowed, LedgerAgrees
<1>11. CASE Think
  <2>1. Yield("working", <<>>, "reading")
    BY <1>11, NoteIsYield DEF Think
  <2>2. /\ heard' \in Seq(Event) /\ listening' \in BOOLEAN
        /\ Kinds' = Kinds \cup {"working"}
        /\ Delivered' = Delivered
        /\ phase' \in {"reading", "over"}
        /\ ~listening' => phase' = "over"
    <3>1. Delivered' = Delivered + (IF "working" = "artifact" THEN 1 ELSE 0)
      BY <1>1, <2>1, AfterYield, YieldTypes
    <3>2. Delivered' = Delivered
      BY <1>1, <3>1 DEF Counting
    <3>3. QED
      BY <1>1, <2>1, <3>2, AfterYield, YieldTypes
  <2>3. TypeOK'
    BY <1>1, <1>2, <1>11, <2>2 DEF Think, TypeOK, Counting, Call
  <2>4. Due' = Due
    BY <1>11, SameDue DEF Think
  <2>5. QED
    BY <1>1, <1>11, <2>2, <2>3, <2>4 DEF Think, BeforeTask, DuringTask, InTask, Stopping, Counting, TasksAreAllowed, LedgerAgrees, TypeOK
<1>12. CASE Receive
  <2>1. PICK c \in Chunks[skill] :
              /\ full' = full \o c
              /\ IF skill = "translate"
                 THEN IF Boundary(buf \o c) THEN FlushBuf(buf \o c, "reading")
                      ELSE buf' = buf \o c /\ UNCHANGED <<phase, heard, listening>>
                 ELSE UNCHANGED <<buf, phase, heard, listening>>
    BY <1>12 DEF Receive
  <2>2. UsesLLM(skill) /\ phase = "reading"
    BY <1>12 DEF Receive, DuringTask
  <2>3. c \in Seq(Token)
    BY <2>1, <2>2, AgentAssumption DEF UsesLLM
  <2>4. full' \in Seq(Token) /\ buf \o c \in Seq(Token)
    BY <1>1, <2>1, <2>3 DEF TypeOK
  <2>5. /\ heard' \in Seq(Event) /\ listening' \in BOOLEAN /\ buf' \in Seq(Token)
        /\ Kinds' \in {Kinds, Kinds \cup {"working"}}
        /\ Delivered' = Delivered
        /\ phase' \in {"reading", "over"}
        /\ ~listening' => ~listening \/ phase' = "over"
    <3>1. CASE FlushBuf(buf \o c, "reading")
      BY <1>1, <2>4, <3>1, AfterFlush
    <3>2. CASE buf' \in {buf, buf \o c} /\ UNCHANGED <<phase, heard, listening>>
      BY <1>1, <2>2, <2>4, <3>2, Unheard DEF TypeOK
    <3>3. QED
      BY <2>1, <3>1, <3>2
  <2>6. listening
    BY <2>2 DEF Stopping
  <2>7. TypeOK'
    BY <1>1, <1>12, <2>4, <2>5 DEF Receive, TypeOK
  <2>8. QED
    BY <1>1, <1>12, <2>2, <2>5, <2>6, <2>7 DEF Receive, BeforeTask, DuringTask, InTask, Stopping, Counting, TasksAreAllowed, LedgerAgrees
<1>13. CASE StreamEnds
  <2>1. phase = "reading" /\ listening /\ UsesLLM(skill)
    BY <1>13 DEF StreamEnds, Stopping, DuringTask
  <2>2. /\ heard' \in Seq(Event) /\ listening' \in BOOLEAN /\ buf' \in Seq(Token)
        /\ Kinds' \in {Kinds, Kinds \cup {"working"}}
        /\ Delivered' = Delivered
        /\ phase' \in {"read", "over"}
        /\ ~listening' => phase' = "over"
    <3>1. CASE FlushBuf(buf, "read")
      <4>1. buf \in Seq(Token)
        BY <1>1 DEF TypeOK
      <4>2. QED
        BY <1>1, <2>1, <3>1, <4>1, AfterFlush
    <3>2. CASE phase' = "read" /\ UNCHANGED <<buf, heard, listening>>
      BY <1>1, <2>1, <3>2, Unheard DEF TypeOK
    <3>3. QED
      BY <1>13, <3>1, <3>2 DEF StreamEnds
  <2>3. TypeOK'
    BY <1>1, <1>13, <2>2 DEF StreamEnds, TypeOK
  <2>4. QED
    BY <1>1, <1>13, <2>1, <2>2, <2>3 DEF StreamEnds, BeforeTask, DuringTask, InTask, Stopping, Counting, TasksAreAllowed, LedgerAgrees
<1>14. CASE StreamFails
  <2>1. phase \in {"reading", "read"} /\ ledger = <<>> /\ UsesLLM(skill)
    BY <1>14 DEF StreamFails, Stopping, DuringTask
  <2>2. ledger' = <<"error">>
    BY <1>14, <2>1 DEF StreamFails, LogUsage
  <2>3. /\ heard' \in Seq(Event) /\ listening' \in BOOLEAN
        /\ Kinds' = Kinds \cup {"failed"}
        /\ Delivered' = Delivered + (IF "failed" = "artifact" THEN 1 ELSE 0)
        /\ phase' = "over"
    BY <1>1, <1>14, AfterYield, YieldTypes DEF StreamFails
  <2>4. Delivered' = Delivered
    BY <1>1, <2>3 DEF Counting
  <2>5. TypeOK'
    BY <1>1, <1>14, <2>2, <2>3 DEF StreamFails, TypeOK
  <2>6. Kinds = {"submitted", "working"}
    BY <2>1 DEF DuringTask
  <2>7. QED
    BY <1>1, <1>14, <2>1, <2>2, <2>3, <2>4, <2>5, <2>6 DEF StreamFails, BeforeTask, DuringTask, InTask, Stopping, Counting, TasksAreAllowed, LedgerAgrees
<1>15. CASE Judge
  <2>1. CASE TrimSpace(full) = <<>>
    <3>1. phase \in {"reading", "read"} /\ ledger = <<>> /\ UsesLLM(skill)
      BY <1>15, <2>1 DEF Judge, Stopping, DuringTask
    <3>2. ledger' = <<"error">>
      BY <1>15, <2>1, <3>1 DEF Judge, LogUsage
    <3>3. /\ heard' \in Seq(Event) /\ listening' \in BOOLEAN
          /\ Kinds' = Kinds \cup {"failed"}
          /\ Delivered' = Delivered + (IF "failed" = "artifact" THEN 1 ELSE 0)
          /\ phase' = "over"
      BY <1>1, <1>15, <2>1, AfterYield, YieldTypes DEF Judge
    <3>4. Delivered' = Delivered
      BY <1>1, <3>3 DEF Counting
    <3>5. TypeOK'
      BY <1>1, <1>15, <2>1, <3>2, <3>3 DEF Judge, TypeOK
    <3>6. Kinds = {"submitted", "working"}
      BY <3>1 DEF DuringTask
    <3>7. QED
      BY <1>1, <1>15, <2>1, <3>1, <3>2, <3>3, <3>4, <3>5, <3>6 DEF Judge, BeforeTask, DuringTask, InTask, Stopping, Counting, TasksAreAllowed, LedgerAgrees
  <2>2. CASE TrimSpace(full) # <<>>
    <3>1. ledger' = Append(ledger, "ok") /\ phase' = "deliver" /\ UNCHANGED <<heard, listening>>
      BY <1>15, <2>2 DEF Judge, LogUsage
    <3>2. phase = "read" /\ ledger = <<>> /\ UsesLLM(skill) /\ listening
      BY <1>15 DEF Judge, Stopping, DuringTask
    <3>3. ledger' = <<"ok">>
      BY <3>1, <3>2
    <3>4. Kinds' = Kinds /\ Kinds = {"submitted", "working"} /\ Delivered' = Delivered
      BY <3>1, <3>2, Unheard DEF DuringTask
    <3>5. Delivered = 0
      BY <1>1, <3>4 DEF Counting
    <3>6. Len(Due') \in {1, 2}
      <4>1. Due' = Due /\ Len(Due) \in {1, 2}
        BY <1>1, <1>15, SameDue, DueIsText DEF Judge, DuringTask, InTask
      <4>2. QED
        BY <4>1
    <3>7. TypeOK'
      BY <1>1, <1>15, <3>1, <3>3 DEF Judge, TypeOK
    <3>8. QED
      BY <1>1, <1>15, <3>1, <3>2, <3>3, <3>4, <3>5, <3>6, <3>7 DEF Judge, BeforeTask, DuringTask, InTask, Stopping, Counting, TasksAreAllowed, LedgerAgrees
  <2>3. QED
    BY <2>1, <2>2
<1>16. CASE Deliver
  <2>1. phase = "deliver" /\ Delivered < Len(Due) /\ skill \in Skills /\ listening
    BY <1>16 DEF Deliver, DuringTask, InTask, Stopping
  <2>2. Len(Due) \in {1, 2} /\ \A i \in 1..Len(Due) : Due[i] \in Seq(Token)
    BY <1>1, <2>1, DueIsText
  <2>3. Delivered + 1 \in 1..Len(Due)
    BY <1>1, <2>1, <2>2 DEF Counting
  <2>4. Yield("artifact", Due[Delivered + 1], "deliver") /\ Due[Delivered + 1] \in Seq(Token)
    BY <1>16, <2>2, <2>3 DEF Deliver
  <2>5. /\ heard' \in Seq(Event) /\ listening' \in BOOLEAN
        /\ Kinds' = Kinds \cup {"artifact"}
        /\ Delivered' = Delivered + (IF "artifact" = "artifact" THEN 1 ELSE 0)
        /\ phase' \in {"deliver", "over"}
        /\ ~listening' => phase' = "over"
    BY <1>1, <2>4, AfterYield, YieldTypes
  <2>6. Delivered' = Delivered + 1
    BY <2>5
  <2>7. Due' = Due
    BY <1>16, SameDue DEF Deliver
  <2>8. TypeOK'
    BY <1>1, <1>16, <2>5 DEF Deliver, TypeOK
  <2>9. DuringTask'
    BY <1>16, <2>1, <2>3, <2>5, <2>6, <2>7 DEF Deliver, DuringTask, InTask
  <2>10. BeforeTask' /\ Stopping' /\ TasksAreAllowed' /\ LedgerAgrees'
    BY <1>16, <2>1, <2>5 DEF Deliver, BeforeTask, Stopping, DuringTask, TasksAreAllowed, LedgerAgrees
  <2>11. Counting'
    BY <1>1, <1>16, <2>5, <2>6 DEF Deliver, Counting
  <2>12. QED
    BY <2>8, <2>9, <2>10, <2>11
<1>17. CASE Complete
  <2>1. Yield("completed", <<>>, "over")
    BY <1>17 DEF Complete
  <2>2. /\ heard' \in Seq(Event) /\ listening' \in BOOLEAN
        /\ Kinds' = Kinds \cup {"completed"}
        /\ Delivered' = Delivered
        /\ phase' \in {"over", "over"}
        /\ ~listening' => phase' = "over"
    <3>1. Delivered' = Delivered + (IF "completed" = "artifact" THEN 1 ELSE 0)
      BY <1>1, <2>1, AfterYield, YieldTypes
    <3>2. Delivered' = Delivered
      BY <1>1, <3>1 DEF Counting
    <3>3. QED
      BY <1>1, <2>1, <3>2, AfterYield, YieldTypes
  <2>3. TypeOK'
    BY <1>1, <1>2, <1>17, <2>2 DEF Complete, TypeOK, Counting, Call
  <2>4. Due' = Due
    BY <1>17, SameDue DEF Complete
  <2>5. QED
    BY <1>1, <1>17, <2>2, <2>3, <2>4 DEF Complete, BeforeTask, DuringTask, InTask, Stopping, Counting, TasksAreAllowed, LedgerAgrees, TypeOK
<1>18. CASE Rest
  BY <1>18, Stutter DEF Rest
<1>19. CASE UNCHANGED vars
  BY <1>19, Stutter
<1>20. QED
  BY <1>3, <1>4, <1>5, <1>6, <1>7, <1>8, <1>9, <1>10, <1>11, <1>12, <1>13, <1>14, <1>15, <1>16, <1>17, <1>18, <1>19 DEF Next, Steps, Run, Ending

\* The invariant holds in every state of the agent (TypeOK, and where an executor
\* is by what it has yielded).
THEOREM Invariance == Spec => []IInv
<1>1. QED
  BY InitIInv, Inductive, PTL DEF Spec

\* The state is of its type: one line of the ledger at most, among others.
THEOREM TypeCorrect == Spec => []TypeOK
<1>1. IInv => TypeOK
  BY DEF IInv
<1>2. QED
  BY <1>1, Invariance, PTL

\* No task starts without agent:invoke and the scope of its skill, nor before a
\* skill that comes first in the routing (claimsInterceptor.Before, Execute).
THEOREM TasksAreAllowedAlways == Spec => []TasksAreAllowed
<1>1. IInv => TasksAreAllowed
  BY DEF IInv
<1>2. QED
  BY <1>1, Invariance, PTL

\* The usage ledger has one line for a task that ends, and the right one.
THEOREM LedgerAgreesAlways == Spec => []LedgerAgrees
<1>1. IInv => LedgerAgrees
  BY DEF IInv
<1>2. QED
  BY <1>1, Invariance, PTL

\* No executor yields again after yield returned false.
THEOREM SilentOnceStoppedAlways == Spec => SilentOnceStopped
<1>1. IInv /\ [Next]_vars => [~listening => heard' = heard]_vars
  <2> SUFFICES ASSUME IInv, Next, ~listening PROVE heard' = heard
    BY DEF vars
  <2>1. phase = "over"
    BY DEF IInv, Stopping
  <2>2. Rest
    BY <2>1 DEF Next, Steps, Run, Ending, Before, Execute, Reply, Submit, Announce,
       LookUp, Compound, Prepare, Think, Receive, StreamEnds, StreamFails, Judge,
       Deliver, Complete
  <2>3. QED
    BY <2>2 DEF Rest, vars
<1>2. QED
  BY <1>1, Invariance, PTL DEF Spec, SilentOnceStopped
------------------------------------------------------------------------------
(* What a caller hears is the life of a task *)

\* A step that yields nothing does not show.
LEMMA QuietSteps ==
    ASSUME UNCHANGED <<heard, listening>>
    PROVE  UNCHANGED <<TaskState, Delivered>>
  BY Unheard DEF TaskState

\* A progress message keeps a submitted task at work.
LEMMA Working ==
    ASSUME Kinds \in {{"submitted"}, {"submitted", "working"}}, Delivered = 0,
           Kinds' = Kinds \cup {"working"}, Delivered' = Delivered
    PROVE  Life!Work
<1>1. TaskState \in {"submitted", "working"}
  BY DEF TaskState
<1>2. TaskState' = "working"
  BY DEF TaskState
<1>3. QED
  BY <1>1, <1>2 DEF Life!Work

\* Every step is a step of the life of a task, or does not show.
LEMMA StepRefines == IInv /\ [Next]_vars => [Life!Next]_(Life!vars)
<1> SUFFICES ASSUME IInv, [Next]_vars PROVE Life!Next \/ UNCHANGED <<TaskState, Delivered>>
  BY DEF Life!vars
<1>1. TypeOK /\ Counting /\ DuringTask /\ BeforeTask
  BY DEF IInv
<1>2. CASE Before \/ Execute \/ Rest \/ UNCHANGED vars
  <2>1. UNCHANGED <<heard, listening>>
    BY <1>2 DEF Before, Execute, Rest, vars
  <2>2. QED
    BY <2>1, QuietSteps
<1>3. CASE Reply
  <2>1. Kinds = {} /\ Yield("message", <<>>, "over")
    BY <1>1, <1>3 DEF Reply, BeforeTask
  <2>2. Kinds' = Kinds \cup {"message"} /\ Delivered' = Delivered
    BY <1>1, <2>1, AfterYield, YieldTypes
  <2>3. TaskState = "none" /\ TaskState' = "replied"
    BY <2>1, <2>2 DEF TaskState
  <2>4. QED
    BY <2>2, <2>3 DEF Life!Next, Life!Reply
<1>4. CASE Submit
  <2>1. Kinds = {} /\ Yield("submitted", <<>>, "announce")
    BY <1>1, <1>4 DEF Submit, BeforeTask
  <2>2. Kinds' = Kinds \cup {"submitted"} /\ Delivered' = Delivered
    BY <1>1, <2>1, AfterYield, YieldTypes
  <2>3. TaskState = "none" /\ TaskState' = "submitted"
    BY <2>1, <2>2 DEF TaskState
  <2>4. QED
    BY <2>2, <2>3 DEF Life!Next, Life!Submit
<1>5. ASSUME phase \in {"announce", "lookup", "think", "reading", "read"}
      PROVE  Kinds \in {{"submitted"}, {"submitted", "working"}} /\ Delivered = 0
  BY <1>1, <1>5 DEF DuringTask, Counting
<1>6. ASSUME phase \in {"announce", "lookup", "think", "reading", "read"},
             NEW text \in Seq(Token), NEW next, Yield("working", text, next)
      PROVE  Life!Next
  <2>1. Kinds' = Kinds \cup {"working"} /\ Delivered' = Delivered
    BY <1>1, <1>6, AfterYield, YieldTypes
  <2>2. QED
    BY <1>5, <1>6, <2>1, Working DEF Life!Next
<1>7. ASSUME phase \in {"lookup", "reading", "read"}, Yield("failed", <<>>, "over")
      PROVE  Life!Next
  <2>1. Kinds' = Kinds \cup {"failed"} /\ Delivered' = Delivered
    BY <1>1, <1>7, AfterYield, YieldTypes
  <2>2. Kinds = {"submitted", "working"} /\ Delivered = 0
    BY <1>1, <1>5, <1>7 DEF DuringTask
  <2>3. TaskState = "working" /\ TaskState' = "failed"
    BY <2>1, <2>2 DEF TaskState
  <2>4. QED
    BY <2>1, <2>2, <2>3 DEF Life!Next, Life!Fail
<1>8. ASSUME phase \in {"announce", "lookup", "think", "reading", "read"},
             NEW s \in Seq(Token), NEW next, FlushBuf(s, next)
      PROVE  Life!Next \/ UNCHANGED <<TaskState, Delivered>>
  <2>1. CASE TrimSpace(s) = <<>>
    BY <1>8, <2>1, QuietSteps DEF FlushBuf
  <2>2. CASE TrimSpace(s) # <<>>
    <3>1. TrimSpace(s) \in Seq(Token) /\ Yield("working", TrimSpace(s), next)
      BY <1>8, <2>2, TrimmedIsText DEF FlushBuf
    <3>2. QED
      BY <1>6, <1>8, <3>1
  <2>3. QED
    BY <2>1, <2>2
<1>9. CASE Announce
  BY <1>6, <1>9, NoteIsYield, YieldTypes DEF Announce
<1>10. CASE LookUp
  BY <1>6, <1>10, NoteIsYield, YieldTypes DEF LookUp
<1>11. CASE Compound
  BY <1>6, <1>7, <1>11, NoteIsYield, YieldTypes DEF Compound
<1>12. CASE Prepare
  BY <1>6, <1>12, NoteIsYield, YieldTypes, QuietSteps DEF Prepare
<1>13. CASE Think
  BY <1>6, <1>13, NoteIsYield, YieldTypes DEF Think
<1>14. CASE Receive
  <2>1. PICK c \in Chunks[skill] :
              IF skill = "translate"
              THEN IF Boundary(buf \o c) THEN FlushBuf(buf \o c, "reading")
                   ELSE buf' = buf \o c /\ UNCHANGED <<phase, heard, listening>>
              ELSE UNCHANGED <<buf, phase, heard, listening>>
    BY <1>14 DEF Receive
  <2>2. UsesLLM(skill) /\ phase = "reading"
    BY <1>1, <1>14 DEF Receive, DuringTask
  <2>3. buf \o c \in Seq(Token)
    BY <1>1, <2>1, <2>2, AgentAssumption DEF UsesLLM, TypeOK
  <2>4. CASE FlushBuf(buf \o c, "reading")
    BY <1>8, <2>2, <2>3, <2>4
  <2>5. CASE UNCHANGED <<heard, listening>>
    BY <2>5, QuietSteps
  <2>6. QED
    BY <2>1, <2>4, <2>5
<1>15. CASE StreamEnds
  <2>1. buf \in Seq(Token) /\ phase = "reading"
    BY <1>1, <1>15 DEF StreamEnds, TypeOK
  <2>2. QED
    BY <1>8, <1>15, <2>1, QuietSteps DEF StreamEnds
<1>16. CASE StreamFails
  BY <1>7, <1>16 DEF StreamFails
<1>17. CASE Judge
  BY <1>7, <1>17, QuietSteps DEF Judge
<1>18. ASSUME phase = "deliver"
       PROVE  TaskState = "working" /\ Len(Due) \in {1, 2} /\ Delivered \in Nat
  <2>1. TaskState = "working"
    BY <1>1, <1>18 DEF DuringTask, TaskState
  <2>2. QED
    BY <1>1, <1>18, <2>1, DueIsText DEF DuringTask, InTask, Counting
<1>19. CASE Deliver
  <2>1. phase = "deliver" /\ Delivered < Len(Due)
    BY <1>19 DEF Deliver
  <2>2. Due[Delivered + 1] \in Seq(Token)
    <3>1. skill \in Skills
      BY <1>1, <2>1 DEF DuringTask, InTask
    <3>2. Delivered + 1 \in 1..Len(Due)
      BY <1>18, <2>1
    <3>3. QED
      BY <1>1, <3>1, <3>2, DueIsText
  <2>3. Kinds' = Kinds \cup {"artifact"} /\ Delivered' = Delivered + 1
    BY <1>1, <1>19, <2>2, AfterYield, YieldTypes DEF Deliver
  <2>4. TaskState' = "working"
    BY <1>1, <2>1, <2>3 DEF DuringTask, TaskState
  <2>5. TaskState = "working" /\ Delivered < 2
    <3>1. TaskState = "working" /\ Len(Due) \in {1, 2} /\ Delivered \in Nat
      BY <1>18, <2>1
    <3>2. CASE Len(Due) = 1
      BY <2>1, <3>1, <3>2
    <3>3. CASE Len(Due) = 2
      BY <2>1, <3>1, <3>3
    <3>4. QED
      BY <3>1, <3>2, <3>3
  <2>6. Life!Produce
    BY <2>3, <2>4, <2>5 DEF Life!Produce
  <2>7. QED
    BY <2>6 DEF Life!Next
<1>20. CASE Complete
  <2>1. phase = "deliver" /\ Delivered = Len(Due)
    BY <1>20 DEF Complete
  <2>2. Kinds' = Kinds \cup {"completed"} /\ Delivered' = Delivered
    BY <1>1, <1>20, AfterYield, YieldTypes DEF Complete
  <2>3. TaskState' = "completed"
    BY <1>1, <2>1, <2>2 DEF DuringTask, TaskState
  <2>4. QED
    BY <1>18, <2>1, <2>2, <2>3 DEF Life!Next, Life!Complete
<1>21. QED
  BY <1>2, <1>3, <1>4, <1>9, <1>10, <1>11, <1>12, <1>13, <1>14, <1>15, <1>16,
     <1>17, <1>19, <1>20 DEF Next, Steps, Run, Ending

\* What a caller hears of one message is the life of a task: submitted, at work,
\* then one or two artifacts and completed, or failed with none; or one reply.
THEOREM Implementation == Spec => FollowsTaskLife
<1>1. Init => Life!Init
  <2>1. ASSUME Init PROVE Kinds = {} /\ Delivered = 0
    BY <2>1, InitIInv DEF IInv, BeforeTask, Counting, Init
  <2>2. QED
    BY <2>1 DEF Life!Init, TaskState
<1>2. QED
  BY <1>1, Invariance, StepRefines, PTL DEF Spec, FollowsTaskLife, Life!Spec
------------------------------------------------------------------------------
(* The text, from the stream to the caller *)

\* The artifacts among some events, and the texts of the working ones.
ArtifactEvent == [kind : {"artifact"}, text : Seq(Token)]

TextOf(e) == IF e.kind = "working" THEN e.text ELSE <<>>

Texts(h) == [i \in DOMAIN h |-> TextOf(h[i])]

\* One more event adds to the artifacts or not.
MoreArtifacts(h, e) ==
    /\ Within(h, ArtifactEvent) \in Seq(Event)
    /\ Within(Append(h, e), ArtifactEvent) =
          IF e.kind = "artifact" THEN Append(Within(h, ArtifactEvent), e)
          ELSE Within(h, ArtifactEvent)

LEMMA OneMoreArtifact ==
    ASSUME NEW h \in Seq(Event), NEW e \in Event
    PROVE  MoreArtifacts(h, e)
<1>1. e \in ArtifactEvent <=> e.kind = "artifact"
  BY DEF Event, ArtifactEvent
<1>2. PICK g : g = Append(h, e)
  OBVIOUS
<1>3. Within(g, ArtifactEvent) = IF e \in ArtifactEvent
                                 THEN Append(Within(h, ArtifactEvent), e)
                                 ELSE Within(h, ArtifactEvent)
  BY <1>2, WithinAppend
<1>4. Within(h, ArtifactEvent) \in Seq(Event)
  BY WithinIsSublist
<1>5. QED
  BY <1>1, <1>2, <1>3, <1>4 DEF MoreArtifacts

\* One more event adds its text if it is a working one.
MoreText(h, e) ==
    /\ FlattenSeq(Texts(h)) \in Seq(Token)
    /\ FlattenSeq(Texts(Append(h, e))) = FlattenSeq(Texts(h)) \o TextOf(e)

LEMMA OneMoreText ==
    ASSUME NEW h \in Seq(Event), NEW e \in Event
    PROVE  MoreText(h, e)
<1> DEFINE n == Len(h)
<1>1. \A d \in Event : TextOf(d) \in Seq(Token)
  BY DEF Event, TextOf
<1>2. n \in Nat /\ DOMAIN h = 1..n /\ \A i \in 1..n : h[i] \in Event
  OBVIOUS
<1>3. PICK g : /\ g = Append(h, e) /\ DOMAIN g = 1..(n + 1)
               /\ \A i \in 1..n : g[i] = h[i]
               /\ g[n + 1] = e
  <2>1. /\ DOMAIN Append(h, e) = 1..(n + 1)
        /\ \A i \in 1..n : Append(h, e)[i] = h[i]
        /\ Append(h, e)[n + 1] = e
    OBVIOUS
  <2>2. QED
    BY <2>1
<1> HIDE DEF n
<1>4. PICK ts \in Seq(Seq(Token)) : ts = Texts(h) /\ Len(ts) = n /\ \A i \in 1..n : ts[i] = TextOf(h[i])
  <2>1. \A i \in 1..n : TextOf(h[i]) \in Seq(Token)
    BY <1>1, <1>2
  <2>2. Texts(h) = [i \in 1..n |-> TextOf(h[i])]
    BY <1>2 DEF Texts
  <2> HIDE DEF n
  <2>3. [i \in 1..n |-> TextOf(h[i])] \in Seq(Seq(Token))
    BY <1>2, <2>1
  <2>4. Len([i \in 1..n |-> TextOf(h[i])]) = n
    BY <1>2
  <2>5. QED
    BY <2>2, <2>3, <2>4
<1>5. PICK us : us = [i \in 1..(n + 1) |-> TextOf(g[i])]
  OBVIOUS
<1>6. us = Texts(g)
  BY <1>3, <1>5 DEF Texts
<1>7. /\ DOMAIN us = 1..(n + 1)
      /\ \A i \in 1..n : us[i] = ts[i]
      /\ us[n + 1] = TextOf(e)
  <2>1. 1..n \subseteq 1..(n + 1) /\ n + 1 \in 1..(n + 1)
    BY <1>2
  <2>2. QED
    BY <1>3, <1>4, <1>5, <2>1
<1>8. PICK t \in Seq(Token) : t = TextOf(e)
  BY <1>1
<1>9. PICK vs : vs = Append(ts, t) /\ vs \in Seq(Seq(Token))
  <2>1. Append(ts, t) \in Seq(Seq(Token))
    OBVIOUS
  <2>2. QED
    BY <2>1
<1>10. vs = us
  <2>1. /\ DOMAIN vs = 1..(n + 1)
        /\ \A i \in 1..n : vs[i] = ts[i]
        /\ vs[n + 1] = t
    BY <1>2, <1>4, <1>9
  <2>2. \A i \in 1..(n + 1) : i \in 1..n \/ i = n + 1
    BY <1>2
  <2>3. \A i \in 1..(n + 1) : vs[i] = us[i]
    BY <1>7, <1>8, <2>1, <2>2
  <2>4. us = [i \in DOMAIN us |-> us[i]]
    BY <1>5
  <2>5. vs = [i \in DOMAIN vs |-> vs[i]]
    <3>1. vs \in [1..Len(vs) -> Seq(Token)]
      BY <1>9, LenProperties
    <3>2. QED
      BY <3>1
  <2>6. QED
    BY <1>7, <2>1, <2>3, <2>4, <2>5
<1>11. FlattenSeq(Append(ts, t)) = FlattenSeq(ts) \o t /\ FlattenSeq(ts) \in Seq(Token)
  BY FlattenAppend
<1>12. QED
  BY <1>3, <1>4, <1>6, <1>8, <1>9, <1>10, <1>11 DEF MoreText

\* What a yield adds to the artifacts and to what is streamed.
LEMMA YieldAdds ==
    ASSUME TypeOK, NEW kind \in EventKinds, NEW text \in Seq(Token), NEW next,
           Yield(kind, text, next)
    PROVE  /\ Artifacts \in Seq(Event) /\ Streamed \in Seq(Token)
           /\ Artifacts' = IF kind = "artifact"
                           THEN Append(Artifacts, [kind |-> kind, text |-> text])
                           ELSE Artifacts
           /\ Streamed' = Streamed \o (IF kind = "working" THEN text ELSE <<>>)
<1>1. PICK e : e = [kind |-> kind, text |-> text]
  OBVIOUS
<1>2. e \in Event /\ e.kind = kind /\ e.text = text
  BY <1>1 DEF Event
<1>3. heard \in Seq(Event) /\ heard' = Append(heard, e)
  BY <1>1 DEF TypeOK, Yield
<1>4. Artifacts = Within(heard, ArtifactEvent) /\ Artifacts' = Within(heard', ArtifactEvent)
  BY DEF Artifacts, ArtifactEvent
<1>5. Streamed = FlattenSeq(Texts(heard)) /\ Streamed' = FlattenSeq(Texts(heard'))
  BY DEF Streamed, Texts, TextOf
<1>6. MoreArtifacts(heard, e) /\ MoreText(heard, e)
  BY <1>2, <1>3, OneMoreArtifact, OneMoreText
<1>7. /\ Artifacts \in Seq(Event)
      /\ Artifacts' = IF e.kind = "artifact" THEN Append(Artifacts, e) ELSE Artifacts
  BY <1>3, <1>4, <1>6 DEF MoreArtifacts
<1>8. Streamed \in Seq(Token) /\ Streamed' = Streamed \o TextOf(e)
  BY <1>3, <1>5, <1>6 DEF MoreText
<1>9. TextOf(e) = IF kind = "working" THEN text ELSE <<>>
  BY <1>2 DEF TextOf
<1>10. QED
  BY <1>1, <1>2, <1>7, <1>8, <1>9

\* The text between the stream and the caller: nothing before the choice of an
\* executor, nothing solid left over once the stream has been read, and artifacts
\* that are those due: with IInv, what makes NothingIsLost and AnswerIsKept inductive.
Flowing ==
    /\ skill = "none" => /\ phase \in {"arrived", "admitted", "over"}
                         /\ heard = <<>> /\ full = <<>> /\ buf = <<>>
    /\ skill = "translate" => Solid(Streamed) \o Solid(buf) = Solid(full)
    /\ skill = "translate" /\ (phase \in {"read", "deliver"} \/ "artifact" \in Kinds) =>
          Solid(buf) = <<>>
    /\ Delivered = Len(Artifacts)
    /\ "artifact" \in Kinds => Artifacts # <<>>
    /\ \A i \in DOMAIN Artifacts : i \in 1..Len(Due) /\ Artifacts[i].text = Due[i]
    /\ "completed" \in Kinds => Len(Artifacts) = Len(Due)
    /\ UsesLLM(skill) /\ (phase = "deliver" \/ "artifact" \in Kinds) =>
          TrimSpace(full) # <<>>

\* What the invariant needs of a yield that changes neither skill nor text.
LEMMA FlowOnYield ==
    ASSUME IInv, Flowing, skill # "none",
           NEW kind \in EventKinds, NEW text \in Seq(Token), NEW next,
           Yield(kind, text, next), UNCHANGED <<skill, full, buf>>,
           kind = "working" => text = <<>>,
           kind = "artifact" =>
              phase = "deliver" /\ Delivered < Len(Due) /\ text = Due[Delivered + 1],
           kind = "completed" => Delivered = Len(Due),
           next # "read", next = "deliver" => phase = "deliver" \/ skill = "name"
    PROVE  Flowing'
<1>1. /\ Kinds' = Kinds \cup {kind}
      /\ kind = "artifact" => Delivered' = Delivered + 1
      /\ kind # "artifact" => Delivered' = Delivered
      /\ phase' \in {next, "over"}
  <2>1. TypeOK /\ Counting
    BY DEF IInv
  <2>2. Delivered' = Delivered + (IF kind = "artifact" THEN 1 ELSE 0)
    BY <2>1, AfterYield
  <2>3. QED
    BY <2>1, <2>2, AfterYield
<1>2. /\ Artifacts \in Seq(Event) /\ Streamed \in Seq(Token)
      /\ Artifacts' = IF kind = "artifact"
                      THEN Append(Artifacts, [kind |-> kind, text |-> text])
                      ELSE Artifacts
      /\ Streamed' = Streamed \o (IF kind = "working" THEN text ELSE <<>>)
  <2>1. TypeOK
    BY DEF IInv
  <2>2. QED
    BY <2>1, YieldAdds
<1>3. Due' = Due
  BY SameDue
<1>4. Streamed' = Streamed
  BY <1>2
<1>5. /\ skill' = "translate" => Solid(Streamed') \o Solid(buf') = Solid(full')
      /\ UsesLLM(skill') = UsesLLM(skill) /\ TrimSpace(full') = TrimSpace(full)
      /\ Solid(buf') = Solid(buf)
  BY <1>4 DEF Flowing
<1>6. ASSUME phase' \in {"read", "deliver"} \/ "artifact" \in Kinds'
      PROVE  phase = "deliver" \/ "artifact" \in Kinds \/ skill = "name"
  BY <1>1, <1>6
<1>7. skill' = "translate" /\ (phase' \in {"read", "deliver"} \/ "artifact" \in Kinds') =>
         Solid(buf') = <<>>
  BY <1>5, <1>6 DEF Flowing
<1>8. UsesLLM(skill') /\ (phase' = "deliver" \/ "artifact" \in Kinds') =>
         TrimSpace(full') # <<>>
  BY <1>5, <1>6 DEF Flowing, UsesLLM
<1>9. CASE kind = "artifact"
  <2>1. PICK e : e = [kind |-> kind, text |-> text]
    OBVIOUS
  <2>2. PICK a \in Seq(Event) : a = Artifacts
    BY <1>2
  <2>3. Artifacts' = Append(a, e) /\ Delivered = Len(a) /\ e.text = text
    BY <1>2, <1>9, <2>1, <2>2 DEF Flowing
  <2>4. PICK b : b = Artifacts'
    OBVIOUS
  <2>5. /\ Len(a) \in Nat /\ Len(b) = Len(a) + 1 /\ DOMAIN b = 1..(Len(a) + 1)
        /\ \A i \in 1..Len(a) : b[i] = a[i]
        /\ b[Len(a) + 1] = e
    BY <2>3, <2>4
  <2>6. Len(Due) \in {1, 2} /\ Len(a) < Len(Due) /\ text = Due[Len(a) + 1]
    <3>1. skill \in Skills /\ TypeOK
      BY <1>9 DEF IInv, DuringTask, InTask
    <3>2. QED
      BY <1>9, <2>3, <3>1, DueIsText
  <2>7. \A i \in 1..Len(a) : i \in 1..Len(Due) /\ a[i].text = Due[i]
    BY <2>2 DEF Flowing
  <2>8. \A i \in DOMAIN b : i \in 1..Len(Due) /\ b[i].text = Due[i]
    <3>1. Len(a) + 1 \in 1..Len(Due) /\ b[Len(a) + 1].text = Due[Len(a) + 1]
      <4>1. Len(a) + 1 \in 1..Len(Due)
        BY <2>5, <2>6
      <4>2. QED
        BY <2>3, <2>5, <2>6, <4>1
    <3>2. \A i \in DOMAIN b : i \in 1..Len(a) \/ i = Len(a) + 1
      BY <2>5
    <3>3. QED
      BY <2>5, <2>7, <3>1, <3>2
  <2>9. Delivered' = Len(Artifacts') /\ Artifacts' # <<>>
    BY <1>1, <1>9, <2>3, <2>4, <2>5
  <2>10. "completed" \notin Kinds'
    <3>1. "completed" \notin Kinds
      BY <1>9 DEF IInv, DuringTask
    <3>2. QED
      BY <1>1, <1>9, <3>1
  <2>11. \A i \in DOMAIN Artifacts' : i \in 1..Len(Due') /\ Artifacts'[i].text = Due'[i]
    BY <1>3, <2>4, <2>8
  <2>12. QED
    BY <1>5, <1>7, <1>8, <2>9, <2>10, <2>11 DEF Flowing
<1>10. CASE kind # "artifact"
  <2>1. Artifacts' = Artifacts /\ Delivered' = Delivered
    BY <1>1, <1>2, <1>10
  <2>2. Delivered' = Len(Artifacts') /\ ("artifact" \in Kinds' => Artifacts' # <<>>)
    BY <1>1, <1>10, <2>1 DEF Flowing
  <2>3. \A i \in DOMAIN Artifacts' : i \in 1..Len(Due') /\ Artifacts'[i].text = Due'[i]
    BY <1>3, <2>1 DEF Flowing
  <2>4. "completed" \in Kinds' => Len(Artifacts') = Len(Due')
    BY <1>1, <1>3, <2>1, <2>2 DEF Flowing
  <2>5. QED
    BY <1>5, <1>7, <1>8, <2>2, <2>3, <2>4 DEF Flowing
<1>11. QED
  BY <1>9, <1>10

\* What it needs of a step that yields nothing and changes neither skill nor text.
LEMMA FlowOnQuiet ==
    ASSUME Flowing, UNCHANGED <<heard, skill, full, buf>>,
           skill # "none" \/ phase' \in {"arrived", "admitted", "over"},
           skill = "translate" /\ phase' = "read" => phase = "read",
           phase' = "deliver" =>
              phase = "deliver" \/ (phase = "read" /\ TrimSpace(full) # <<>>)
    PROVE  Flowing'
<1>1. Kinds' = Kinds /\ Delivered' = Delivered /\ Due' = Due
  BY SameDue DEF Kinds, Delivered
<1>2. Artifacts' = Artifacts /\ Streamed' = Streamed
  BY DEF Artifacts, Streamed
<1>3. /\ UsesLLM(skill') = UsesLLM(skill) /\ TrimSpace(full') = TrimSpace(full)
      /\ Solid(buf') = Solid(buf) /\ Solid(full') = Solid(full)
  OBVIOUS
<1>4. QED
  BY <1>1, <1>2, <1>3 DEF Flowing

\* What it needs of a step of the loop over the stream.
LEMMA FlowOnRead ==
    ASSUME IInv, Flowing, phase = "reading", phase' \in {"reading", "read", "over"},
           skill' = skill, Artifacts' = Artifacts, Delivered' = Delivered,
           Kinds' \in {Kinds, Kinds \cup {"working"}},
           skill = "translate" => /\ Solid(Streamed') \o Solid(buf') = Solid(full')
                                  /\ phase' = "read" => Solid(buf') = <<>>
    PROVE  Flowing'
<1>1. /\ Kinds = {"submitted", "working"} /\ skill # "none" /\ Delivered = 0
      /\ Kinds' = {"submitted", "working"}
  BY DEF IInv, DuringTask, InTask, Counting, Skills
<1>2. Artifacts \in Seq(Event)
  <2>1. Artifacts = Within(heard, ArtifactEvent) /\ heard \in Seq(Event)
    BY DEF IInv, TypeOK, Artifacts, ArtifactEvent
  <2>2. QED
    BY <2>1, WithinIsSublist
<1>3. Artifacts = <<>>
  <2>1. PICK a : a = Artifacts
    OBVIOUS
  <2>2. Len(a) = 0 /\ a \in Seq(Event)
    BY <1>1, <1>2, <2>1 DEF Flowing
  <2>3. a = <<>>
    BY <2>2
  <2>4. QED
    BY <2>1, <2>3
<1>4. Artifacts' = <<>> /\ DOMAIN Artifacts' = {} /\ Len(Artifacts') = Delivered'
  BY <1>1, <1>3
<1>5. QED
  BY <1>1, <1>4 DEF Flowing

\* What is solid in two texts put together.
SolidParts(s, t) == Solid(s \o t) = Solid(s) \o Solid(t)

LEMMA SolidConcat ==
    ASSUME NEW s \in Seq(Token), NEW t \in Seq(Token)
    PROVE  SolidParts(s, t)
<1>1. Parts(s \o t, s, t, Token \ WhiteSpace)
  BY WithinParts
<1>2. QED
  BY <1>1 DEF Parts, SolidParts, Solid

\* A piece that joins the answer joins what is held back of it.
Balanced(st, b, f) == Solid(st) \o Solid(b) = Solid(f)

LEMMA Balance ==
    ASSUME NEW st \in Seq(Token), NEW b \in Seq(Token), NEW f \in Seq(Token),
           NEW c \in Seq(Token), Balanced(st, b, f)
    PROVE  Balanced(st, b \o c, f \o c)
<1>1. PICK x, y, z, w : x = Solid(st) /\ y = Solid(b) /\ z = Solid(c) /\ w = Solid(f)
  OBVIOUS
<1>2. x \in Seq(Token) /\ y \in Seq(Token) /\ z \in Seq(Token)
  BY <1>1, SolidTrim
<1>3. SolidParts(b, c) /\ SolidParts(f, c)
  BY SolidConcat
<1>4. Solid(b \o c) = y \o z /\ Solid(f \o c) = w \o z /\ x \o y = w
  BY <1>1, <1>3 DEF SolidParts, Balanced
<1>5. (x \o y) \o z = x \o (y \o z)
  BY <1>2, ConcatAssociative
<1>6. QED
  BY <1>1, <1>4, <1>5 DEF Balanced

\* Flushing what is held back hands all of it over.
LEMMA Flushed ==
    ASSUME NEW st \in Seq(Token), NEW b \in Seq(Token), NEW f \in Seq(Token),
           Balanced(st, b, f)
    PROVE  Balanced(st \o TrimSpace(b), <<>>, f)
<1>1. TrimSpace(b) \in Seq(Token) /\ Solid(TrimSpace(b)) = Solid(b)
  BY SolidTrim, TrimmedIsText
<1>2. SolidParts(st, TrimSpace(b))
  BY <1>1, SolidConcat
<1>3. Solid(st \o TrimSpace(b)) = Solid(st) \o Solid(b)
  BY <1>1, <1>2 DEF SolidParts
<1>4. Solid(<<>>) = <<>>
  BY WithinEmpty DEF Solid
<1>5. Solid(f) \in Seq(Token)
  BY SolidTrim
<1>6. PICK x : x = Solid(f)
  OBVIOUS
<1>7. x \o <<>> = x
  BY <1>5, <1>6
<1>8. QED
  BY <1>3, <1>4, <1>6, <1>7 DEF Balanced

\* A step of the loop of RunTranslate, which a piece c (none at the end) enters.
LEMMA FlowOnText ==
    ASSUME IInv, Flowing, phase = "reading", skill = "translate", skill' = skill,
           NEW c \in Seq(Token), full' = full \o c, NEW next \in {"reading", "read"},
           \/ FlushBuf(buf \o c, next)
           \/ next = "reading" /\ buf' = buf \o c /\ UNCHANGED <<phase, heard, listening>>
    PROVE  Flowing'
<1>1. TypeOK /\ Counting
  BY DEF IInv
<1>2. buf \in Seq(Token) /\ full \in Seq(Token) /\ Streamed \in Seq(Token)
  <2>1. heard \in Seq(Event)
    BY <1>1 DEF TypeOK
  <2>2. [kind |-> "working", text |-> <<>>] \in Event
    BY YieldTypes DEF Event
  <2>3. Streamed = FlattenSeq(Texts(heard))
    BY DEF Streamed, Texts, TextOf
  <2>4. QED
    BY <1>1, <2>1, <2>2, <2>3, OneMoreText DEF MoreText, TypeOK
<1>3. Balanced(Streamed, buf, full)
  BY DEF Flowing, Balanced
<1>4. Balanced(Streamed, buf \o c, full') /\ buf \o c \in Seq(Token) /\ full' \in Seq(Token)
  BY <1>2, <1>3, Balance
<1>5. CASE ~ FlushBuf(buf \o c, next)
  <2>1. buf' = buf \o c /\ UNCHANGED <<phase, heard, listening>>
    BY <1>5
  <2>2. Streamed' = Streamed /\ Artifacts' = Artifacts /\ Kinds' = Kinds /\ Delivered' = Delivered
    BY <2>1 DEF Streamed, Artifacts, Kinds, Delivered
  <2>3. Solid(Streamed') \o Solid(buf') = Solid(full')
    BY <1>4, <2>1, <2>2 DEF Balanced
  <2>4. QED
    BY <2>1, <2>2, <2>3, FlowOnRead
<1>6. CASE FlushBuf(buf \o c, next) /\ TrimSpace(buf \o c) = <<>>
  <2>1. buf' = buf \o c /\ phase' = next /\ UNCHANGED <<heard, listening>>
    BY <1>6 DEF FlushBuf
  <2>2. Streamed' = Streamed /\ Artifacts' = Artifacts /\ Kinds' = Kinds /\ Delivered' = Delivered
    BY <2>1 DEF Streamed, Artifacts, Kinds, Delivered
  <2>3. Solid(Streamed') \o Solid(buf') = Solid(full')
    BY <1>4, <2>1, <2>2 DEF Balanced
  <2>4. Solid(buf') = <<>>
    <3>1. PICK b \in Seq(Token) : b = buf \o c
      BY <1>4
    <3>2. Solid(b) = <<>>
      BY <1>6, <3>1, SolidTrim
    <3>3. QED
      BY <2>1, <3>1, <3>2
  <2>5. QED
    BY <2>1, <2>2, <2>3, <2>4, FlowOnRead
<1>7. CASE FlushBuf(buf \o c, next) /\ TrimSpace(buf \o c) # <<>>
  <2>1. PICK text \in Seq(Token) : text = TrimSpace(buf \o c)
    BY <1>4, TrimmedIsText
  <2>2. buf' = <<>> /\ Yield("working", text, next)
    BY <1>7, <2>1 DEF FlushBuf
  <2>3. "working" \in EventKinds
    BY YieldTypes
  <2>4. Artifacts' = Artifacts /\ Streamed' = Streamed \o text
    BY <1>1, <2>2, <2>3, YieldAdds
  <2>5. Kinds' = Kinds \cup {"working"} /\ Delivered' = Delivered /\ phase' \in {next, "over"}
    BY <1>1, <2>2, <2>3, AfterYield
  <2>6. Balanced(Streamed \o TrimSpace(buf \o c), <<>>, full')
    BY <1>2, <1>4, Flushed
  <2>7. Solid(Streamed') \o Solid(buf') = Solid(full')
    BY <2>1, <2>2, <2>4, <2>6 DEF Balanced
  <2>8. Solid(buf') = <<>>
    BY <2>2, WithinEmpty DEF Solid
  <2>9. QED
    BY <2>4, <2>5, <2>7, <2>8, FlowOnRead
<1>8. QED
  BY <1>5, <1>6, <1>7

\* Each step keeps what the text needs.
LEMMA FlowInductive == IInv /\ Flowing /\ [Next]_vars => Flowing'
<1> SUFFICES ASSUME IInv, Flowing, [Next]_vars PROVE Flowing'
  OBVIOUS
<1>1. TypeOK /\ Counting /\ DuringTask /\ BeforeTask
  BY DEF IInv
<1>2. phase \in InTask => skill \in Skills /\ skill # "none"
  BY <1>1 DEF DuringTask, Skills
<1>3. CASE Before
  BY <1>1, <1>3, FlowOnQuiet DEF Before, BeforeTask
<1>4. CASE Execute
  <2>1. skill = "none" /\ UNCHANGED <<heard, full, buf>> /\ phase' \in {"start", "reply"}
    BY <1>1, <1>4 DEF Execute, BeforeTask
  <2>2. heard = <<>> /\ full = <<>> /\ buf = <<>> /\ skill' \in Skills \cup {"echo"}
    <3>1. call \in Call
      BY <1>1, AgentAssumption DEF TypeOK
    <3>2. skill' = Route(call.asks)
      BY <1>4 DEF Execute
    <3>3. QED
      BY <2>1, <3>2 DEF Flowing, Route, Skills
  <2>3. Kinds' = Kinds /\ Delivered' = Delivered /\ Artifacts' = Artifacts /\ Streamed' = Streamed
    BY <2>1 DEF Kinds, Delivered, Artifacts, Streamed
  <2>4. Kinds = {} /\ Artifacts = <<>> /\ Streamed = <<>>
    <3>1. Kinds = {}
      BY <2>2 DEF Kinds
    <3>2. Artifacts = <<>>
      BY <2>2, WithinEmpty DEF Artifacts
    <3>3. [i \in DOMAIN heard |-> IF heard[i].kind = "working" THEN heard[i].text ELSE <<>>] = <<>>
      BY <2>2
    <3>4. QED
      BY <3>1, <3>2, <3>3, FlattenEmpty DEF Streamed
  <2>5. Solid(<<>>) = <<>>
    BY WithinEmpty DEF Solid
  <2>6. Delivered' = 0 /\ Len(<<>>) = 0
    BY <1>1, <2>3, <2>4 DEF Counting
  <2>7. Kinds' = {} /\ Artifacts' = <<>> /\ Streamed' = <<>> /\ buf' = <<>> /\ full' = <<>>
    BY <2>1, <2>2, <2>3, <2>4
  <2>8. skill' # "none"
    BY <2>2 DEF Skills
  <2>9. Solid(Streamed') \o Solid(buf') = Solid(full') /\ Solid(buf') = <<>>
    <3>1. PICK z : z = Solid(<<>>)
      OBVIOUS
    <3>2. z = <<>> /\ z \o z = z
      BY <2>5, <3>1, ConcatEmptySeq, EmptySeq
    <3>3. QED
      BY <2>7, <3>1, <3>2
  <2>10. QED
    BY <2>1, <2>6, <2>7, <2>8, <2>9 DEF Flowing
<1>5. ASSUME skill # "none", UNCHANGED <<skill, full, buf>>,
             NEW kind \in EventKinds \ {"artifact", "completed"}, NEW next,
             Yield(kind, <<>>, next),
             next # "read", next = "deliver" => skill = "name"
      PROVE  Flowing'
  BY <1>5, YieldTypes, FlowOnYield
<1>6. {"message", "submitted", "working", "failed"} \subseteq EventKinds \ {"artifact", "completed"}
  BY DEF EventKinds
<1>7. CASE Reply
  BY <1>5, <1>6, <1>7 DEF Reply, Flowing
<1>8. CASE Submit
  BY <1>2, <1>5, <1>6, <1>8 DEF Submit, InTask
<1>9. CASE Announce
  BY <1>2, <1>5, <1>6, <1>9 DEF Announce, Note, InTask
<1>10. CASE LookUp
  BY <1>2, <1>5, <1>6, <1>10 DEF LookUp, Note, InTask
<1>11. CASE Compound
  BY <1>2, <1>5, <1>6, <1>11 DEF Compound, Note, InTask
<1>12. CASE Prepare
  <2>1. CASE Note("think")
    BY <1>2, <1>5, <1>6, <1>12, <2>1 DEF Prepare, Note, InTask
  <2>2. CASE phase' = "think" /\ UNCHANGED <<heard, listening>>
    BY <1>2, <1>12, <2>2, FlowOnQuiet DEF Prepare, InTask
  <2>3. QED
    BY <1>12, <2>1, <2>2 DEF Prepare
<1>13. CASE Think
  BY <1>2, <1>5, <1>6, <1>13 DEF Think, Note, InTask
<1>14. CASE Receive
  <2>1. PICK c \in Chunks[skill] :
              /\ full' = full \o c
              /\ IF skill = "translate"
                 THEN IF Boundary(buf \o c) THEN FlushBuf(buf \o c, "reading")
                      ELSE buf' = buf \o c /\ UNCHANGED <<phase, heard, listening>>
                 ELSE UNCHANGED <<buf, phase, heard, listening>>
    BY <1>14 DEF Receive
  <2>2. UsesLLM(skill) /\ phase = "reading" /\ skill' = skill
    BY <1>1, <1>14 DEF Receive, DuringTask
  <2>3. c \in Seq(Token)
    BY <2>1, <2>2, AgentAssumption DEF UsesLLM
  <2>4. CASE skill = "translate"
    BY <2>1, <2>2, <2>3, <2>4, FlowOnText
  <2>5. CASE skill # "translate"
    <3>1. UNCHANGED <<phase, heard>>
      BY <2>1, <2>5
    <3>2. Artifacts' = Artifacts /\ Kinds' = Kinds /\ Delivered' = Delivered
      BY <3>1 DEF Artifacts, Kinds, Delivered
    <3>3. QED
      BY <2>2, <2>5, <3>1, <3>2, FlowOnRead
  <2>6. QED
    BY <2>4, <2>5
<1>15. CASE StreamEnds
  <2>1. phase = "reading" /\ UNCHANGED <<skill, full>>
    BY <1>15 DEF StreamEnds
  <2>2. CASE skill = "translate"
    <3>1. <<>> \in Seq(Token) /\ full \o <<>> = full /\ buf \o <<>> = buf
      BY <1>1 DEF TypeOK
    <3>2. FlushBuf(buf \o <<>>, "read") /\ full' = full \o <<>>
      BY <1>15, <2>1, <2>2, <3>1 DEF StreamEnds
    <3>3. QED
      BY <2>1, <2>2, <3>1, <3>2, FlowOnText
  <2>3. CASE skill # "translate"
    BY <1>2, <1>15, <2>3, FlowOnQuiet DEF StreamEnds, InTask
  <2>4. QED
    BY <2>2, <2>3
<1>16. CASE StreamFails
  BY <1>2, <1>5, <1>6, <1>16 DEF StreamFails, InTask
<1>17. CASE Judge
  <2>1. CASE TrimSpace(full) = <<>>
    BY <1>2, <1>5, <1>6, <1>17, <2>1 DEF Judge, InTask
  <2>2. CASE TrimSpace(full) # <<>>
    BY <1>2, <1>17, <2>2, FlowOnQuiet DEF Judge, InTask
  <2>3. QED
    BY <2>1, <2>2
<1>18. CASE Deliver
  <2>1. phase = "deliver" /\ Delivered < Len(Due) /\ skill \in Skills /\ UNCHANGED <<skill, full, buf>>
    BY <1>2, <1>18 DEF Deliver, InTask
  <2>2. Due[Delivered + 1] \in Seq(Token)
    <3>1. Len(Due) \in {1, 2} /\ \A i \in 1..Len(Due) : Due[i] \in Seq(Token)
      BY <1>1, <2>1, DueIsText
    <3>2. Delivered + 1 \in 1..Len(Due)
      BY <1>1, <2>1, <3>1 DEF Counting
    <3>3. QED
      BY <3>1, <3>2
  <2>3. Yield("artifact", Due[Delivered + 1], "deliver")
    BY <1>18 DEF Deliver
  <2>4. QED
    BY <1>2, <2>1, <2>2, <2>3, YieldTypes, FlowOnYield DEF InTask
<1>19. CASE Complete
  <2>1. /\ phase = "deliver" /\ Delivered = Len(Due) /\ UNCHANGED <<skill, full, buf>>
        /\ Yield("completed", <<>>, "over")
    BY <1>19 DEF Complete
  <2>2. QED
    BY <1>2, <2>1, YieldTypes, FlowOnYield DEF InTask
<1>20. CASE Rest \/ UNCHANGED vars
  <2>1. UNCHANGED <<heard, skill, full, buf, phase>>
    BY <1>20 DEF Rest, vars
  <2>2. skill # "none" \/ phase' \in {"arrived", "admitted", "over"}
    BY <2>1 DEF Flowing
  <2>3. QED
    BY <2>1, <2>2, FlowOnQuiet
<1>21. QED
  BY <1>3, <1>4, <1>7, <1>8, <1>9, <1>10, <1>11, <1>12, <1>13, <1>14, <1>15, <1>16,
     <1>17, <1>18, <1>19, <1>20 DEF Next, Steps, Run, Ending

\* It holds in every state (for the two theorems that follow).
LEMMA TextFlows == Spec => []Flowing
<1>1. Init => Flowing
  <2> SUFFICES ASSUME Init PROVE Flowing
    OBVIOUS
  <2>1. Kinds = {}
    BY DEF Init, Kinds
  <2>2. Artifacts = <<>>
    BY WithinEmpty DEF Init, Artifacts
  <2>3. Delivered = 0
    BY <2>1, InitIInv DEF IInv, Counting
  <2>4. QED
    BY <2>1, <2>2, <2>3 DEF Init, Flowing, UsesLLM
<1>2. QED
  BY <1>1, Invariance, FlowInductive, PTL DEF Spec

\* White space apart, a translation streams what it has received and its artifact
\* has what it streamed (RunTranslate, flushBuf).
THEOREM NothingIsLostAlways == Spec => []NothingIsLost
<1>1. IInv /\ Flowing => NothingIsLost
  <2> SUFFICES ASSUME IInv, Flowing, skill = "translate", "artifact" \in Kinds
               PROVE  Solid(Streamed) = Solid(Artifacts[1].text)
    BY DEF NothingIsLost, Flowing
  <2>1. PICK a : a = Artifacts
    OBVIOUS
  <2>2. a \in Seq(Event) /\ a # <<>>
    <3>1. heard \in Seq(Event) /\ a = Within(heard, ArtifactEvent)
      BY <2>1 DEF IInv, TypeOK, Artifacts, ArtifactEvent
    <3>2. QED
      BY <2>1, <3>1, WithinIsSublist DEF Flowing
  <2>3. 1 \in DOMAIN a
    BY <2>2
  <2>4. a[1].text = Due[1] /\ Due = <<TrimSpace(full)>>
    BY <2>1, <2>3 DEF Flowing, Due
  <2>5. Solid(a[1].text) = Solid(full)
    BY <2>4, SolidTrim DEF IInv, TypeOK
  <2>6. Solid(buf) = <<>> /\ Solid(Streamed) \o Solid(buf) = Solid(full)
    BY DEF Flowing
  <2>7. Solid(Streamed) \in Seq(Token)
    <3>1. heard \in Seq(Event) /\ Streamed = FlattenSeq(Texts(heard))
      BY DEF IInv, TypeOK, Streamed, Texts, TextOf
    <3>2. [kind |-> "working", text |-> <<>>] \in Event
      BY YieldTypes DEF Event
    <3>3. Streamed \in Seq(Token)
      BY <3>1, <3>2, OneMoreText DEF MoreText
    <3>4. QED
      BY <3>3, SolidTrim
  <2>8. Solid(Streamed) = Solid(full)
    <3>1. PICK x \in Seq(Token) : x = Solid(Streamed)
      BY <2>7
    <3>2. x \o <<>> = x
      OBVIOUS
    <3>3. QED
      BY <2>6, <3>1, <3>2
  <2>9. QED
    BY <2>1, <2>5, <2>8
<1>2. QED
  BY <1>1, Invariance, TextFlows, PTL
------------------------------------------------------------------------------
(* Counting tokens *)

Tally(s, t, k) == Count(s, t) = k

\* A count is a number, of the empty text and of one token.
LEMMA CountIsNat ==
    ASSUME NEW s \in Seq(Token), NEW t
    PROVE  Count(s, t) \in Nat /\ (Count(s, t) = 0 <=> ~ Has(s, t))
<1>1. Within(s, {t}) \in Seq(Token)
  BY WithinIsSublist
<1>2. Within(s, {t}) = <<>> <=> \A k \in 1..Len(s) : s[k] \notin {t}
  BY WithinNone
<1>3. PICK w \in Seq(Token) : w = Within(s, {t})
  BY <1>1
<1>4. Len(w) \in Nat /\ (Len(w) = 0 <=> w = <<>>)
  OBVIOUS
<1>5. Has(s, t) <=> ~ \A k \in 1..Len(s) : s[k] \notin {t}
  BY DEF Has
<1>6. QED
  BY <1>2, <1>3, <1>4, <1>5 DEF Count

LEMMA CountEmpty ==
    ASSUME NEW t
    PROVE  Count(<<>>, t) = 0
  BY WithinEmpty DEF Count

LEMMA CountOne ==
    ASSUME NEW s \in Seq(Token), NEW i \in 1..Len(s), NEW t
    PROVE  Tally(SubSeq(s, i, i), t, IF s[i] = t THEN 1 ELSE 0)
<1>1. PICK x \in Token : x = s[i]
  OBVIOUS
<1>2. SubSeq(s, i, i) = Append(<<>>, x)
  <2>1. SubSeq(s, i, i) \in Seq(Token) /\ Len(SubSeq(s, i, i)) = 1 /\ SubSeq(s, i, i)[1] = x
    BY <1>1
  <2>2. PICK y \in Seq(Token) : y = SubSeq(s, i, i)
    BY <2>1
  <2>3. PICK z : z = Append(<<>>, x)
    OBVIOUS
  <2>4. z \in Seq(Token) /\ Len(z) = 1 /\ z[1] = x
    BY <2>3
  <2>5. y = z
    BY <2>1, <2>2, <2>4, SeqEqual
  <2>6. QED
    BY <2>2, <2>3, <2>5
<1>3. PICK g : g = Append(<<>>, x)
  OBVIOUS
<1>4. <<>> \in Seq(Token)
  OBVIOUS
<1>5. Within(g, {t}) = IF x \in {t} THEN Append(Within(<<>>, {t}), x) ELSE Within(<<>>, {t})
  BY <1>3, <1>4, WithinAppend
<1>6. Within(<<>>, {t}) = <<>>
  BY WithinEmpty
<1>7. Within(g, {t}) = IF x = t THEN Append(<<>>, x) ELSE <<>>
  BY <1>5, <1>6
<1>8. Len(Append(<<>>, x)) = 1 /\ Len(<<>>) = 0
  OBVIOUS
<1>9. QED
  BY <1>1, <1>2, <1>3, <1>7, <1>8 DEF Tally, Count

\* Counts of two texts put together add up.
LEMMA CountConcat ==
    ASSUME NEW x \in Seq(Token), NEW y \in Seq(Token), NEW t
    PROVE  Tally(x \o y, t, Count(x, t) + Count(y, t))
<1>1. Parts(x \o y, x, y, {t})
  BY WithinParts
<1>2. PICK a \in Seq(Token), b \in Seq(Token) : a = Within(x, {t}) /\ b = Within(y, {t})
  BY WithinIsSublist
<1>3. Len(a \o b) = Len(a) + Len(b)
  OBVIOUS
<1>4. QED
  BY <1>1, <1>2, <1>3 DEF Parts, Tally, Count

\* A text counted from m to n is counted up to k and from there.
LEMMA CountSplit ==
    ASSUME NEW s \in Seq(Token), NEW m \in 1..(Len(s) + 1), NEW k \in (m - 1)..Len(s),
           NEW n \in k..Len(s), NEW t
    PROVE  Tally(SubSeq(s, m, n), t,
                 Count(SubSeq(s, m, k), t) + Count(SubSeq(s, k + 1, n), t))
<1>1. SubSeq(s, m, k) \o SubSeq(s, k + 1, n) = SubSeq(s, m, n)
  BY ConcatAdjacentSubSeq
<1>2. PICK x, y : x = SubSeq(s, m, k) /\ y = SubSeq(s, k + 1, n)
  OBVIOUS
<1>3. x \in Seq(Token) /\ y \in Seq(Token)
  <2>1. \A i \in m..n : s[i] \in Token
    OBVIOUS
  <2>2. (\A i \in m..k : s[i] \in Token) /\ (\A i \in (k + 1)..n : s[i] \in Token)
    BY <2>1
  <2>3. m \in Int /\ k \in Int /\ k + 1 \in Int /\ n \in Int
    OBVIOUS
  <2>4. SubSeq(s, m, k) \in Seq(Token)
    BY <2>2, <2>3, SubSeqProperties
  <2>5. SubSeq(s, k + 1, n) \in Seq(Token)
    BY <2>2, <2>3, SubSeqProperties
  <2>6. QED
    BY <1>2, <2>4, <2>5
<1>4. Tally(x \o y, t, Count(x, t) + Count(y, t))
  BY <1>3, CountConcat
<1>5. QED
  BY <1>1, <1>2, <1>4

\* Trimming changes no count but of white space.
LEMMA CountTrim ==
    ASSUME NEW s \in Seq(Token), NEW t, t \notin WhiteSpace
    PROVE  Count(TrimSpace(s), t) = Count(s, t)
<1>1. {t} \cap WhiteSpace = {}
  OBVIOUS
<1>2. QED
  BY <1>1, TrimKeeps DEF Count

\* A text counted around a position p, and between p and a later q.
Is(s, p, t) == IF s[p] = t THEN 1 ELSE 0

From(s, p, t) == Count(SubSeq(s, p, Len(s)), t)

Inside(s, p, q, t) == Count(SubSeq(s, p + 1, q - 1), t)

Around(s, p, t) ==
    /\ From(s, p, t) = Is(s, p, t) + From(s, p + 1, t)
    /\ From(s, p + 1, t) \in Nat
    /\ Count(s, t) \in Nat /\ Count(s, t) >= From(s, p, t)

LEMMA CountAround ==
    ASSUME NEW s \in Seq(Token), NEW p \in 1..Len(s), NEW t
    PROVE  Around(s, p, t)
<1>1. /\ SubSeq(s, 1, p - 1) \in Seq(Token) /\ SubSeq(s, p, Len(s)) \in Seq(Token)
      /\ SubSeq(s, p + 1, Len(s)) \in Seq(Token)
  OBVIOUS
<1>2. PICK a, b, c : /\ a = Count(SubSeq(s, 1, p - 1), t) /\ b = From(s, p, t)
                     /\ c = From(s, p + 1, t)
  OBVIOUS
<1>3. a \in Nat /\ b \in Nat /\ c \in Nat /\ Count(s, t) \in Nat
  BY <1>1, <1>2, CountIsNat DEF From
<1>4. b = Is(s, p, t) + c
  <2>1. p \in 1..(Len(s) + 1) /\ p \in (p - 1)..Len(s) /\ Len(s) \in p..Len(s)
    OBVIOUS
  <2>2. Tally(SubSeq(s, p, Len(s)), t,
              Count(SubSeq(s, p, p), t) + Count(SubSeq(s, p + 1, Len(s)), t))
    BY <2>1, CountSplit
  <2>3. Tally(SubSeq(s, p, p), t, IF s[p] = t THEN 1 ELSE 0)
    BY CountOne
  <2>4. QED
    BY <1>2, <2>2, <2>3 DEF Tally, From, Is
<1>5. Count(s, t) = a + b
  <2>1. /\ 1 \in 1..(Len(s) + 1) /\ p - 1 \in (1 - 1)..Len(s) /\ Len(s) \in (p - 1)..Len(s)
        /\ (p - 1) + 1 = p
    OBVIOUS
  <2>2. Tally(SubSeq(s, 1, Len(s)), t,
              Count(SubSeq(s, 1, p - 1), t) + Count(SubSeq(s, (p - 1) + 1, Len(s)), t))
    BY <2>1, CountSplit
  <2>3. SubSeq(s, 1, Len(s)) = s
    BY SubSeqFull
  <2>4. QED
    BY <1>2, <2>1, <2>2, <2>3 DEF Tally, From
<1>6. QED
  BY <1>2, <1>3, <1>4, <1>5 DEF Around

Amid(s, p, q, t) ==
    /\ From(s, p + 1, t) = Inside(s, p, q, t) + Is(s, q, t) + From(s, q + 1, t)
    /\ Inside(s, p, q, t) \in Nat

LEMMA CountAmid ==
    ASSUME NEW s \in Seq(Token), NEW p \in 1..Len(s), NEW q \in (p + 1)..Len(s), NEW t
    PROVE  Amid(s, p, q, t)
<1>1. q \in 1..Len(s) /\ p + 1 \in 1..(Len(s) + 1) /\ q - 1 \in ((p + 1) - 1)..Len(s)
      /\ Len(s) \in (q - 1)..Len(s) /\ (q - 1) + 1 = q
  OBVIOUS
<1>2. Tally(SubSeq(s, p + 1, Len(s)), t,
            Count(SubSeq(s, p + 1, q - 1), t) + Count(SubSeq(s, (q - 1) + 1, Len(s)), t))
  BY <1>1, CountSplit
<1>3. From(s, p + 1, t) = Inside(s, p, q, t) + From(s, q, t)
  BY <1>1, <1>2 DEF Tally, From, Inside
<1>4. Around(s, q, t)
  BY <1>1, CountAround
<1>5. Inside(s, p, q, t) \in Nat
  <2>1. SubSeq(s, p + 1, q - 1) \in Seq(Token)
    OBVIOUS
  <2>2. QED
    BY <2>1, CountIsNat DEF Inside
<1>6. Is(s, q, t) \in Nat
  BY DEF Is
<1>7. QED
  BY <1>3, <1>4, <1>5, <1>6 DEF Around, Amid
------------------------------------------------------------------------------
(* The paths of an answer *)

\* The section headers of a text, and what is from the first of them on.
Headers(s) == {i \in DOMAIN s : s[i] \in {Practical, Poetic}}

Body(s) == IF Headers(s) = {} THEN s ELSE SubSeq(s, Min(Headers(s)), Len(s))

\* What TrimSpace returns: empty, or with something solid.
Trimmed(x) == x \in Seq(Token) /\ (x # <<>> => Solid(x) # <<>>)

LEMMA TrimIsTrimmed ==
    ASSUME NEW s \in Seq(Token)
    PROVE  Trimmed(TrimSpace(s))
  BY TrimmedIsText, SolidTrim DEF Trimmed

LEMMA AfterKeeps ==
    ASSUME NEW s \in Seq(Token), NEW i \in 1..Len(s)
    PROVE  /\ Trimmed(After(s, i))
           /\ \A t : t \notin WhiteSpace => Count(After(s, i), t) = From(s, i + 1, t)
<1>1. SubSeq(s, i + 1, Len(s)) \in Seq(Token)
  OBVIOUS
<1>2. QED
  BY <1>1, TrimIsTrimmed, CountTrim DEF After, From

LEMMA BetweenKeeps ==
    ASSUME NEW s \in Seq(Token), NEW i \in 1..Len(s), NEW j \in (i + 1)..Len(s)
    PROVE  /\ Trimmed(Between(s, i, j))
           /\ \A t : t \notin WhiteSpace => Count(Between(s, i, j), t) = Inside(s, i, j, t)
<1>1. SubSeq(s, i + 1, j - 1) \in Seq(Token)
  OBVIOUS
<1>2. QED
  BY <1>1, TrimIsTrimmed, CountTrim DEF Between, Inside

\* First is the first occurrence.
LEMMA FirstIsFirst ==
    ASSUME NEW s \in Seq(Token), NEW t, Has(s, t)
    PROVE  /\ First(s, t) \in 1..Len(s) /\ s[First(s, t)] = t
           /\ \A i \in 1..Len(s) : s[i] = t => First(s, t) <= i
<1> DEFINE S == {i \in DOMAIN s : s[i] = t}
<1>1. S \in SUBSET Nat /\ S # {} /\ \A i \in 1..Len(s) : s[i] = t => i \in S
  BY DEF Has
<1>2. \A i \in S : i \in 1..Len(s) /\ s[i] = t
  OBVIOUS
<1> HIDE DEF S
<1>3. Min(S) \in S /\ \A y \in S : Min(S) <= y
  BY <1>1, MinIsMember
<1>4. QED
  BY <1>1, <1>2, <1>3 DEF First, S

\* The body of a text begins at its first header.
LEMMA BodyBegins ==
    ASSUME NEW s \in Seq(Token), NEW p \in 1..Len(s), s[p] \in {Practical, Poetic},
           \A i \in 1..Len(s) : s[i] \in {Practical, Poetic} => p <= i
    PROVE  /\ Headers(s) # {} /\ Min(Headers(s)) = p
           /\ \A t : Count(Body(s), t) = From(s, p, t)
<1>1. p \in Headers(s) /\ Headers(s) \in SUBSET Nat
  BY DEF Headers
<1>2. \A i \in Headers(s) : i \in 1..Len(s) /\ p <= i
  BY DEF Headers
<1>3. Min(Headers(s)) \in Headers(s) /\ \A y \in Headers(s) : Min(Headers(s)) <= y
  BY <1>1, MinIsMember
<1>4. Min(Headers(s)) = p
  <2>1. PICK m \in Nat : m = Min(Headers(s)) /\ m <= p /\ p <= m
    BY <1>1, <1>2, <1>3
  <2>2. QED
    BY <2>1
<1>5. QED
  BY <1>1, <1>4 DEF Body, From

\* Words are neither headers nor white space.
LEMMA WordsApart ==
    /\ \A w \in Words : w \notin WhiteSpace /\ w \notin {Practical, Poetic}
    /\ Practical \notin WhiteSpace /\ Poetic \notin WhiteSpace /\ Practical # Poetic
  BY AgentAssumption DEF WhiteSpace, Blank, Newline, Practical, Poetic

\* The two paths divide the body among them: each word goes to one of them, and no
\* header that is there once.
Divided(r, x, y) ==
    /\ Trimmed(x) /\ Trimmed(y)
    /\ Headers(r) = {} => x = <<>> /\ y = <<>>
    /\ Headers(r) # {} => \A w \in Words : Count(x, w) + Count(y, w) = Count(Body(r), w)
    /\ Headers(r) # {} /\ Count(r, Practical) <= 1 /\ Count(r, Poetic) <= 1 =>
          \A t \in {Practical, Poetic} : Count(x, t) + Count(y, t) = 0

\* An answer with one section only.
LEMMA OneSection ==
    ASSUME NEW r \in Seq(Token), NEW t \in {Practical, Poetic}, Has(r, t),
           NEW u \in {Practical, Poetic}, u # t, ~ Has(r, u)
    PROVE  /\ Divided(r, After(r, First(r, t)), <<>>)
           /\ Divided(r, <<>>, After(r, First(r, t)))
<1>1. PICK p \in 1..Len(r) : /\ p = First(r, t) /\ r[p] = t
                             /\ \A i \in 1..Len(r) : r[i] = t => p <= i
  BY FirstIsFirst
<1>2. \A i \in 1..Len(r) : r[i] \in {Practical, Poetic} => p <= i
  BY <1>1 DEF Has
<1>3. Headers(r) # {} /\ \A v : Count(Body(r), v) = From(r, p, v)
  BY <1>1, <1>2, BodyBegins
<1>4. PICK x : x = After(r, p)
  OBVIOUS
<1>5. Trimmed(x) /\ \A v : v \notin WhiteSpace => Count(x, v) = From(r, p + 1, v)
  BY <1>4, AfterKeeps
<1>6. ASSUME NEW w \in Words PROVE Count(x, w) = Count(Body(r), w)
  <2>1. Around(r, p, w) /\ Is(r, p, w) = 0
    BY <1>1, CountAround, WordsApart DEF Is
  <2>2. QED
    BY <1>3, <1>5, <2>1, WordsApart DEF Around
<1>7. ASSUME Count(r, Practical) <= 1, Count(r, Poetic) <= 1, NEW v \in {Practical, Poetic}
      PROVE  Count(x, v) = 0
  <2>1. Around(r, p, v) /\ Count(x, v) = From(r, p + 1, v)
    BY <1>5, CountAround, WordsApart
  <2>2. CASE v = t
    BY <1>1, <1>7, <2>1, <2>2 DEF Around, Is
  <2>3. CASE v # t
    <3>1. Count(r, v) = 0 /\ Is(r, p, v) = 0
      BY <1>1, <2>3, CountIsNat DEF Is
    <3>2. QED
      BY <2>1, <3>1 DEF Around
  <2>4. QED
    BY <2>2, <2>3
<1>8. \A v : Count(<<>>, v) = 0
  BY CountEmpty
<1>9. x \in Seq(Token) /\ \A v : Count(x, v) \in Nat
  BY <1>5, CountIsNat DEF Trimmed
<1>10. Trimmed(<<>>)
  BY DEF Trimmed
<1>11. Divided(r, x, <<>>) /\ Divided(r, <<>>, x)
  BY <1>3, <1>5, <1>6, <1>7, <1>8, <1>9, <1>10 DEF Divided
<1>12. QED
  BY <1>1, <1>4, <1>11

\* An answer with both sections, the first at t and the second at u.
LEMMA TwoSections ==
    ASSUME NEW r \in Seq(Token), NEW t \in {Practical, Poetic}, Has(r, t),
           NEW u \in {Practical, Poetic}, u # t, Has(r, u), First(r, t) < First(r, u)
    PROVE  /\ Divided(r, Between(r, First(r, t), First(r, u)), After(r, First(r, u)))
           /\ Divided(r, After(r, First(r, u)), Between(r, First(r, t), First(r, u)))
<1>1. PICK p \in 1..Len(r) : /\ p = First(r, t) /\ r[p] = t
                             /\ \A i \in 1..Len(r) : r[i] = t => p <= i
  BY FirstIsFirst
<1>2. PICK q \in 1..Len(r) : /\ q = First(r, u) /\ r[q] = u
                             /\ \A i \in 1..Len(r) : r[i] = u => q <= i
  BY FirstIsFirst
<1>3. p < q /\ q \in (p + 1)..Len(r)
  BY <1>1, <1>2
<1>4. \A i \in 1..Len(r) : r[i] \in {Practical, Poetic} => p <= i
  <2>1. ASSUME NEW i \in 1..Len(r), r[i] \in {Practical, Poetic} PROVE p <= i
    <3>1. r[i] = t \/ r[i] = u
      BY <2>1
    <3>2. p <= i \/ q <= i
      BY <1>1, <1>2, <3>1
    <3>3. QED
      BY <1>3, <3>2
  <2>2. QED
    BY <2>1
<1>5. Headers(r) # {} /\ \A v : Count(Body(r), v) = From(r, p, v)
  BY <1>1, <1>4, BodyBegins
<1>6. PICK x, y : x = Between(r, p, q) /\ y = After(r, q)
  OBVIOUS
<1>7. /\ Trimmed(x) /\ Trimmed(y)
      /\ \A v : v \notin WhiteSpace => Count(x, v) = Inside(r, p, q, v)
      /\ \A v : v \notin WhiteSpace => Count(y, v) = From(r, q + 1, v)
  <2>1. Trimmed(x) /\ \A v : v \notin WhiteSpace => Count(x, v) = Inside(r, p, q, v)
    BY <1>3, <1>6, BetweenKeeps
  <2>2. Trimmed(y) /\ \A v : v \notin WhiteSpace => Count(y, v) = From(r, q + 1, v)
    BY <1>6, AfterKeeps
  <2>3. QED
    BY <2>1, <2>2
<1>8. \A v : Around(r, p, v) /\ Amid(r, p, q, v) /\ From(r, q + 1, v) \in Nat
  BY <1>3, CountAround, CountAmid DEF Around
<1>9. ASSUME NEW w \in Words PROVE Count(x, w) + Count(y, w) = Count(Body(r), w)
  <2>1. Is(r, p, w) = 0 /\ Is(r, q, w) = 0
    BY <1>1, <1>2, WordsApart DEF Is
  <2>2. Count(x, w) = Inside(r, p, q, w) /\ Count(y, w) = From(r, q + 1, w)
    BY <1>7, WordsApart
  <2>3. QED
    BY <1>5, <1>8, <2>1, <2>2 DEF Around, Amid
<1>10. ASSUME Count(r, Practical) <= 1, Count(r, Poetic) <= 1, NEW v \in {Practical, Poetic}
       PROVE  Count(x, v) + Count(y, v) = 0
  <2>1. Count(x, v) = Inside(r, p, q, v) /\ Count(y, v) = From(r, q + 1, v)
    BY <1>7, WordsApart
  <2>2. Is(r, p, v) + Is(r, q, v) = 1
    BY <1>1, <1>2 DEF Is
  <2>3. Count(r, v) <= 1
    BY <1>10
  <2>4. Is(r, p, v) \in Nat /\ Is(r, q, v) \in Nat
    BY DEF Is
  <2>5. QED
    BY <1>8, <2>1, <2>2, <2>3, <2>4 DEF Around, Amid
<1>11. Divided(r, x, y)
  BY <1>5, <1>7, <1>9, <1>10 DEF Divided
<1>12. \A v : Count(x, v) \in Nat /\ Count(y, v) \in Nat
  BY <1>7, CountIsNat DEF Trimmed
<1>13. Divided(r, y, x)
  <2>1. \A v : Count(x, v) + Count(y, v) = Count(y, v) + Count(x, v)
    BY <1>12
  <2>2. QED
    BY <1>11, <2>1 DEF Divided
<1>14. QED
  BY <1>1, <1>2, <1>6, <1>11, <1>13

\* SplitNeologismPaths divides an answer, whatever sections it has.
LEMMA SplitDivides ==
    ASSUME NEW r \in Seq(Token)
    PROVE  Divided(r, SplitNeologismPaths(r)[1], SplitNeologismPaths(r)[2])
<1> DEFINE P == First(r, Practical)
           Q == First(r, Poetic)
<1>1. Practical # Poetic
  BY WordsApart
<1>2. CASE Has(r, Practical) /\ Has(r, Poetic)
  <2>1. /\ P \in 1..Len(r) /\ r[P] = Practical
        /\ Q \in 1..Len(r) /\ r[Q] = Poetic
    BY <1>2, FirstIsFirst
  <2>2. CASE P < Q
    <3>1. Divided(r, Between(r, P, Q), After(r, Q))
      BY <1>1, <1>2, <2>2, TwoSections
    <3>2. SplitNeologismPaths(r) = <<Between(r, P, Q), After(r, Q)>>
      BY <1>2, <2>2 DEF SplitNeologismPaths
    <3>3. QED
      BY <3>1, <3>2
  <2>3. CASE Q < P
    <3>1. Divided(r, After(r, P), Between(r, Q, P))
      BY <1>1, <1>2, <2>3, TwoSections
    <3>2. ~ (P < Q)
      BY <2>1, <2>3
    <3>3. SplitNeologismPaths(r) = <<After(r, P), Between(r, Q, P)>>
      BY <1>2, <3>2 DEF SplitNeologismPaths
    <3>4. QED
      BY <3>1, <3>3
  <2>4. QED
    BY <1>1, <2>1, <2>2, <2>3
<1>3. CASE Has(r, Practical) /\ ~ Has(r, Poetic)
  <2>1. Divided(r, After(r, P), <<>>)
    BY <1>1, <1>3, OneSection
  <2>2. SplitNeologismPaths(r) = <<After(r, P), <<>> >>
    BY <1>3 DEF SplitNeologismPaths
  <2>3. QED
    BY <2>1, <2>2
<1>4. CASE ~ Has(r, Practical) /\ Has(r, Poetic)
  <2>1. Divided(r, <<>>, After(r, Q))
    BY <1>1, <1>4, OneSection
  <2>2. SplitNeologismPaths(r) = << <<>>, After(r, Q)>>
    BY <1>4 DEF SplitNeologismPaths
  <2>3. QED
    BY <2>1, <2>2
<1>5. CASE ~ Has(r, Practical) /\ ~ Has(r, Poetic)
  <2>1. SplitNeologismPaths(r) = << <<>>, <<>> >>
    BY <1>5 DEF SplitNeologismPaths
  <2>2. Headers(r) = {}
    BY <1>5 DEF Headers, Has
  <2>3. Trimmed(<<>>)
    BY DEF Trimmed
  <2>4. Divided(r, <<>>, <<>>)
    BY <2>2, <2>3 DEF Divided
  <2>5. QED
    BY <2>1, <2>4
<1>6. QED
  BY <1>2, <1>3, <1>4, <1>5

\* What lists of one and of two texts have in them.
Joined(ss, s) == FlattenSeq(ss) = s

LEMMA FlattenOne ==
    ASSUME NEW x \in Seq(Token)
    PROVE  Joined(<<x>>, x)
<1>1. <<>> \in Seq(Seq(Token)) /\ Append(<<>>, x) = <<x>>
  OBVIOUS
<1>2. FlattenSeq(Append(<<>>, x)) = FlattenSeq(<<>>) \o x
  BY <1>1, FlattenAppend
<1>3. <<>> \o x = x
  OBVIOUS
<1>4. QED
  BY <1>1, <1>2, <1>3, FlattenEmpty DEF Joined

LEMMA FlattenTwo ==
    ASSUME NEW x \in Seq(Token), NEW y \in Seq(Token)
    PROVE  Joined(<<x, y>>, x \o y)
<1>1. <<x>> \in Seq(Seq(Token)) /\ Append(<<x>>, y) = <<x, y>>
  <2>1. <<x>> \in Seq(Seq(Token)) /\ Len(<<x>>) = 1 /\ <<x>>[1] = x
    OBVIOUS
  <2>2. PICK c \in Seq(Seq(Token)) : c = <<x>> /\ Len(c) = 1 /\ c[1] = x
    BY <2>1
  <2>3. PICK d : d = Append(c, y)
    OBVIOUS
  <2>4. /\ d \in Seq(Seq(Token)) /\ Len(d) = 2 /\ d[1] = x /\ d[2] = y
    BY <2>2, <2>3
  <2>5. <<x, y>> \in Seq(Seq(Token)) /\ Len(<<x, y>>) = 2
    OBVIOUS
  <2>6. PICK e \in Seq(Seq(Token)) : e = <<x, y>> /\ Len(e) = 2 /\ e[1] = x /\ e[2] = y
    BY <2>5
  <2>7. \A i \in 1..Len(d) : d[i] = e[i]
    <3>1. \A i \in 1..2 : i = 1 \/ i = 2
      OBVIOUS
    <3>2. QED
      BY <2>4, <2>6, <3>1
  <2>8. d = e
    BY <2>4, <2>6, <2>7, SeqEqual
  <2>9. QED
    BY <2>2, <2>3, <2>6, <2>8
<1>2. FlattenSeq(Append(<<x>>, y)) = FlattenSeq(<<x>>) \o y
  BY <1>1, FlattenAppend
<1>3. Joined(<<x>>, x)
  BY FlattenOne
<1>4. QED
  BY <1>1, <1>2, <1>3 DEF Joined

\* The body of a text is text.
LEMMA BodyIsText ==
    ASSUME NEW s \in Seq(Token)
    PROVE  Body(s) \in Seq(Token)
<1>1. CASE Headers(s) = {}
  BY <1>1 DEF Body
<1>2. CASE Headers(s) # {}
  <2>1. PICK p : p = Min(Headers(s))
    OBVIOUS
  <2>2. Headers(s) \in SUBSET Nat /\ \A i \in Headers(s) : i \in 1..Len(s)
    BY DEF Headers
  <2>3. p \in 1..Len(s)
    BY <1>2, <2>1, <2>2, MinIsMember
  <2>4. SubSeq(s, p, Len(s)) \in Seq(Token)
    BY <2>3
  <2>5. QED
    BY <1>2, <2>1, <2>4 DEF Body
<1>3. QED
  BY <1>1, <1>2

\* The artifacts d keep the answer r.
KeptIn(r, d) ==
    /\ \A i \in 1..Len(d) : Solid(d[i]) # <<>>
    /\ \A w \in Words : Count(FlattenSeq(d), w) >= Count(Body(r), w)
    /\ /\ Count(r, Practical) <= 1 /\ Count(r, Poetic) <= 1
       /\ \E w \in Words : Has(Body(r), w)
       => \/ Headers(r) = {}
          \/ ~ (Has(FlattenSeq(d), Practical) \/ Has(FlattenSeq(d), Poetic))

\* So do one or two texts that hold what two paths have.
LEMMA KeptByTwo ==
    ASSUME NEW r \in Seq(Token), NEW x, NEW y, Divided(r, x, y),
           x # <<>> \/ y # <<>>,
           NEW d, NEW k \in Seq(Token), Joined(d, k),
           \A t : Count(k, t) = Count(x, t) + Count(y, t),
           \A i \in 1..Len(d) : Solid(d[i]) # <<>>
    PROVE  KeptIn(r, d)
<1>1. Headers(r) # {} /\ FlattenSeq(d) = k
  BY DEF Divided, Joined
<1>2. \A w \in Words : Count(k, w) = Count(Body(r), w) /\ Count(k, w) \in Nat
  BY <1>1, CountIsNat DEF Divided
<1>3. ASSUME Count(r, Practical) <= 1, Count(r, Poetic) <= 1
      PROVE  ~ Has(k, Practical) /\ ~ Has(k, Poetic)
  BY <1>1, <1>3, CountIsNat DEF Divided
<1>4. \A w \in Words : Count(k, w) >= Count(Body(r), w)
  BY <1>2
<1>5. QED
  BY <1>1, <1>3, <1>4 DEF KeptIn

LEMMA PathsKeep ==
    ASSUME NEW r \in Seq(Token), Solid(r) # <<>>
    PROVE  KeptIn(r, Paths(r))
<1>1. PICK x, y : x = SplitNeologismPaths(r)[1] /\ y = SplitNeologismPaths(r)[2]
  OBVIOUS
<1>2. Divided(r, x, y)
  BY <1>1, SplitDivides
<1>3. Trimmed(x) /\ Trimmed(y)
  BY <1>2 DEF Divided
<1>4. x \in Seq(Token) /\ y \in Seq(Token)
  BY <1>3 DEF Trimmed
<1>5. /\ x = <<>> /\ y = <<>> => Paths(r) = <<r>>
      /\ x = <<>> /\ y # <<>> => Paths(r) = <<y>>
      /\ x # <<>> /\ y = <<>> => Paths(r) = <<x>>
      /\ x # <<>> /\ y # <<>> => Paths(r) = <<x, y>>
  BY <1>1, PathsAreText DEF Paths
<1>6. \A t : Count(<<>>, t) = 0 /\ Count(x, t) \in Nat /\ Count(y, t) \in Nat
  BY <1>4, CountEmpty, CountIsNat
<1>7. CASE x = <<>> /\ y = <<>>
  <2>1. PICK d : d = <<r>>
    OBVIOUS
  <2>2. Paths(r) = d /\ FlattenSeq(d) = r /\ \A i \in 1..Len(d) : d[i] = r
    BY <1>5, <1>7, <2>1, FlattenOne DEF Joined
  <2>3. CASE Headers(r) = {}
    <3>1. Body(r) = r
      BY <2>3 DEF Body
    <3>2. \A w \in Words : Count(r, w) >= Count(r, w)
      BY CountIsNat
    <3>3. QED
      BY <2>2, <2>3, <3>1, <3>2 DEF KeptIn
  <2>4. CASE Headers(r) # {}
    <3>1. \A w \in Words : Count(Body(r), w) = 0
      <4>1. \A w \in Words : Count(x, w) + Count(y, w) = Count(Body(r), w)
        BY <1>2, <2>4 DEF Divided
      <4>2. \A w : Count(x, w) = 0 /\ Count(y, w) = 0
        BY <1>7, CountEmpty
      <4>3. QED
        BY <4>1, <4>2
    <3>2. \A w \in Words : ~ Has(Body(r), w)
      BY <3>1, BodyIsText, CountIsNat
    <3>3. \A w \in Words : Count(r, w) >= 0
      BY CountIsNat
    <3>4. QED
      BY <2>2, <3>1, <3>2, <3>3 DEF KeptIn
  <2>5. QED
    BY <2>3, <2>4
<1>8. CASE x = <<>> /\ y # <<>>
  <2>1. PICK d : d = <<y>>
    OBVIOUS
  <2>2. Joined(d, y) /\ \A i \in 1..Len(d) : Solid(d[i]) # <<>>
    BY <1>3, <1>4, <1>8, <2>1, FlattenOne DEF Trimmed
  <2>3. \A t : Count(y, t) = Count(x, t) + Count(y, t)
    BY <1>6, <1>8
  <2>4. KeptIn(r, d)
    BY <1>2, <1>4, <1>8, <2>2, <2>3, KeptByTwo
  <2>5. QED
    BY <1>5, <1>8, <2>1, <2>4
<1>9. CASE x # <<>> /\ y = <<>>
  <2>1. PICK d : d = <<x>>
    OBVIOUS
  <2>2. Joined(d, x) /\ \A i \in 1..Len(d) : Solid(d[i]) # <<>>
    BY <1>3, <1>4, <1>9, <2>1, FlattenOne DEF Trimmed
  <2>3. \A t : Count(x, t) = Count(x, t) + Count(y, t)
    BY <1>6, <1>9
  <2>4. KeptIn(r, d)
    BY <1>2, <1>4, <1>9, <2>2, <2>3, KeptByTwo
  <2>5. QED
    BY <1>5, <1>9, <2>1, <2>4
<1>10. CASE x # <<>> /\ y # <<>>
  <2>1. PICK d, k : d = <<x, y>> /\ k = x \o y
    OBVIOUS
  <2>2. Joined(d, k)
    BY <1>4, <2>1, FlattenTwo
  <2>3. \A i \in 1..Len(d) : Solid(d[i]) # <<>>
    BY <1>3, <1>10, <2>1 DEF Trimmed
  <2>4. \A t : Count(k, t) = Count(x, t) + Count(y, t)
    <3>1. ASSUME NEW t PROVE Count(k, t) = Count(x, t) + Count(y, t)
      <4>1. Tally(x \o y, t, Count(x, t) + Count(y, t))
        BY <1>4, CountConcat
      <4>2. QED
        BY <2>1, <4>1 DEF Tally
    <3>2. QED
      BY <3>1
  <2>5. k \in Seq(Token)
    <3>1. x \o y \in Seq(Token)
      BY <1>4
    <3>2. QED
      BY <2>1, <3>1
  <2>6. KeptIn(r, d)
    BY <1>2, <1>10, <2>2, <2>3, <2>4, <2>5, KeptByTwo
  <2>7. QED
    BY <1>5, <1>10, <2>1, <2>6
<1>11. QED
  BY <1>7, <1>8, <1>9, <1>10

\* A text is trimmed to what is from its first to its last solid token.
TrimmedFrom(s, a, b) ==
    /\ a \in 1..Len(s) /\ b \in a..Len(s)
    /\ TrimSpace(s) = SubSeq(s, a, b)
    /\ \A i \in 1..Len(s) : i < a \/ i > b => s[i] \in WhiteSpace

LEMMA TrimBounds ==
    ASSUME NEW s \in Seq(Token), TrimSpace(s) # <<>>
    PROVE  \E a, b : TrimmedFrom(s, a, b)
<1> DEFINE solid == {i \in DOMAIN s : s[i] \notin WhiteSpace}
<1>1. Len(s) \in Nat /\ solid \in SUBSET Nat /\ solid \in SUBSET (1..Len(s))
  OBVIOUS
<1>2. \A i \in 1..Len(s) : i \notin solid => s[i] \in WhiteSpace
  OBVIOUS
<1>3. solid # {}
  BY DEF TrimSpace
<1>4. PICK a, b : a = Min(solid) /\ b = Max(solid)
  OBVIOUS
<1>5. TrimSpace(s) = SubSeq(s, a, b)
  BY <1>3, <1>4 DEF TrimSpace
<1> HIDE DEF solid
<1>6. a \in solid /\ b \in solid /\ \A y \in solid : a <= y /\ y <= b
  BY <1>1, <1>3, <1>4, MinIsMember, MaxIsMember
<1>7. a \in 1..Len(s) /\ b \in a..Len(s)
  BY <1>1, <1>6
<1>8. \A i \in 1..Len(s) : i < a \/ i > b => s[i] \in WhiteSpace
  BY <1>1, <1>2, <1>6, <1>7
<1>9. TrimmedFrom(s, a, b)
  BY <1>5, <1>7, <1>8 DEF TrimmedFrom
<1>10. QED
  BY <1>9

\* White space around an answer changes neither its headers nor its body.
LEMMA BodyTrim ==
    ASSUME NEW s \in Seq(Token), NEW r \in Seq(Token), r = TrimSpace(s), r # <<>>
    PROVE  /\ Headers(r) = {} <=> Headers(s) = {}
           /\ \A w \in Words : Count(Body(r), w) = Count(Body(s), w)
<1>1. \A t : t \notin WhiteSpace => Count(r, t) = Count(s, t)
  BY CountTrim
<1>2. \A w \in Words : w \notin WhiteSpace
  BY WordsApart
<1>3. ASSUME NEW z \in Seq(Token)
      PROVE  Headers(z) = {} <=> Count(z, Practical) = 0 /\ Count(z, Poetic) = 0
  <2>1. Headers(z) = {} <=> ~ Has(z, Practical) /\ ~ Has(z, Poetic)
    BY DEF Headers, Has
  <2>2. QED
    BY <2>1, CountIsNat
<1>4. Headers(r) = {} <=> Headers(s) = {}
  BY <1>1, <1>3, WordsApart
<1>5. CASE Headers(s) = {}
  <2>1. Body(s) = s /\ Body(r) = r
    BY <1>4, <1>5 DEF Body
  <2>2. QED
    BY <1>1, <1>2, <1>4, <2>1
<1>6. CASE Headers(s) # {}
  <2>1. PICK a, b : TrimmedFrom(s, a, b)
    BY TrimBounds
  <2>2. /\ a \in 1..Len(s) /\ b \in a..Len(s) /\ r = SubSeq(s, a, b)
        /\ \A i \in 1..Len(s) : i < a \/ i > b => s[i] \in WhiteSpace
    BY <2>1 DEF TrimmedFrom
  <2>3. Len(r) = b - a + 1 /\ \A i \in 1..Len(r) : r[i] = s[a + i - 1] /\ a + i - 1 \in 1..Len(s)
    BY <2>2
  <2>4. PICK h : h = Min(Headers(s))
    OBVIOUS
  <2>5. /\ h \in 1..Len(s) /\ s[h] \in {Practical, Poetic}
        /\ \A i \in 1..Len(s) : s[i] \in {Practical, Poetic} => h <= i
    <3>1. Headers(s) \in SUBSET Nat /\ \A i \in Headers(s) : i \in 1..Len(s) /\ s[i] \in {Practical, Poetic}
      BY DEF Headers
    <3>2. h \in Headers(s) /\ \A y \in Headers(s) : h <= y
      BY <1>6, <2>4, <3>1, MinIsMember
    <3>3. \A i \in 1..Len(s) : s[i] \in {Practical, Poetic} => i \in Headers(s)
      BY DEF Headers
    <3>4. QED
      BY <3>1, <3>2, <3>3
  <2>6. h \in a..b
    <3>1. s[h] \notin WhiteSpace
      BY <2>5, WordsApart
    <3>2. ~ (h < a) /\ ~ (h > b)
      BY <2>2, <2>5, <3>1
    <3>3. QED
      BY <2>2, <2>5, <3>2
  <2>7. PICK p : p = h - a + 1
    OBVIOUS
  <2>8. p \in 1..Len(r) /\ a + p - 1 = h /\ r[p] = s[h]
    BY <2>2, <2>3, <2>6, <2>7
  <2>9. \A i \in 1..Len(r) : r[i] \in {Practical, Poetic} => p <= i
    <3>1. ASSUME NEW i \in 1..Len(r), r[i] \in {Practical, Poetic} PROVE p <= i
      <4>1. h <= a + i - 1
        BY <2>3, <2>5, <3>1
      <4>2. QED
        BY <2>2, <2>6, <2>7, <4>1
    <3>2. QED
      BY <3>1
  <2>10. \A t : Count(Body(s), t) = From(s, h, t)
    BY <2>5, BodyBegins
  <2>11. \A t : Count(Body(r), t) = From(r, p, t)
    BY <2>5, <2>8, <2>9, BodyBegins
  <2>12. SubSeq(r, p, Len(r)) = SubSeq(s, h, b)
    <3>1. /\ a \in 1..Len(s) /\ b \in 1..Len(s)
          /\ p \in 1..(b - a + 1) /\ Len(r) \in 1..(b - a + 1)
      BY <2>2, <2>3, <2>8
    <3>2. SubSeq(SubSeq(s, a, b), p, Len(r)) = SubSeq(s, a + p - 1, a + Len(r) - 1)
      BY <3>1, SubSeqOfSubSeq
    <3>3. a + Len(r) - 1 = b
      BY <2>2, <2>3
    <3>4. QED
      BY <2>2, <2>8, <3>2, <3>3
  <2>13. ASSUME NEW w \in Words PROVE Count(Body(r), w) = Count(Body(s), w)
    <3>1. h \in 1..(Len(s) + 1) /\ b \in (h - 1)..Len(s) /\ Len(s) \in b..Len(s)
      BY <2>2, <2>5, <2>6
    <3>2. Tally(SubSeq(s, h, Len(s)), w,
                Count(SubSeq(s, h, b), w) + Count(SubSeq(s, b + 1, Len(s)), w))
      BY <3>1, CountSplit
    <3>3. Count(SubSeq(s, b + 1, Len(s)), w) = 0
      <4>1. PICK e : e = SubSeq(s, b + 1, Len(s))
        OBVIOUS
      <4>2. e \in Seq(Token) /\ \A i \in 1..Len(e) : e[i] = s[b + i] /\ b + i \in 1..Len(s) /\ b + i > b
        BY <2>2, <4>1
      <4>3. \A i \in 1..Len(e) : e[i] \in WhiteSpace
        BY <2>2, <4>2
      <4>4. ~ Has(e, w)
        BY <1>2, <4>2, <4>3 DEF Has
      <4>5. QED
        BY <4>1, <4>2, <4>4, CountIsNat
    <3>4. Count(SubSeq(s, h, b), w) \in Nat
      <4>1. SubSeq(s, h, b) \in Seq(Token)
        BY <2>2, <2>5, <2>6
      <4>2. QED
        BY <4>1, CountIsNat
    <3>5. From(s, h, w) = Count(SubSeq(s, h, b), w)
      BY <3>2, <3>3, <3>4 DEF Tally, From
    <3>6. From(r, p, w) = Count(SubSeq(s, h, b), w)
      BY <2>12 DEF From
    <3>7. QED
      BY <2>10, <2>11, <3>5, <3>6
  <2>14. QED
    BY <1>4, <2>13
<1>7. QED
  BY <1>5, <1>6

\* The artifacts of a completed neologism keep the answer (RunNeologism,
\* SplitNeologismPaths): see AnswerIsKept.
THEOREM AnswerIsKeptAlways == Spec => []AnswerIsKept
<1>1. IInv /\ Flowing => AnswerIsKept
  <2> SUFFICES ASSUME IInv, Flowing, skill = "neologism", "completed" \in Kinds
               PROVE  AnswerIsKept
    BY DEF AnswerIsKept
  <2>1. full \in Seq(Token) /\ heard \in Seq(Event) /\ skill \in Skills
    BY DEF IInv, TypeOK, Skills
  <2>2. PICK r \in Seq(Token) : r = TrimSpace(full)
    BY <2>1, TrimmedIsText
  <2>3. PICK a \in Seq(Event) : a = Artifacts
    <3>1. Artifacts = Within(heard, ArtifactEvent)
      BY DEF Artifacts, ArtifactEvent
    <3>2. QED
      BY <2>1, <3>1, WithinIsSublist
  <2>4. Due = Paths(r) /\ Len(Due) \in {1, 2}
    <3>1. Due = Paths(r)
      BY <2>2 DEF Due
    <3>2. QED
      BY <2>1, <3>1, DueIsText DEF IInv
  <2>5. /\ Len(a) = Len(Due)
        /\ \A i \in 1..Len(a) : a[i].text = Due[i]
    BY <2>3 DEF Flowing
  <2>6. r # <<>>
    <3>1. "artifact" \in Kinds
      <4>1. Delivered = Len(a) /\ Len(a) # 0
        BY <2>3, <2>4, <2>5 DEF Flowing
      <4>2. QED
        BY <4>1 DEF IInv, Counting
    <3>2. QED
      BY <2>2, <3>1 DEF Flowing, UsesLLM
  <2>7. KeptIn(r, Due)
    BY <2>1, <2>2, <2>4, <2>6, PathsKeep, SolidTrim
  <2>8. [i \in DOMAIN Artifacts |-> Artifacts[i].text] = Due
    <3>1. PICK d : d = Due
      OBVIOUS
    <3>2. d = [i \in 1..Len(d) |-> d[i]]
      <4>1. PICK x, y : x = SplitNeologismPaths(r)[1] /\ y = SplitNeologismPaths(r)[2]
        OBVIOUS
      <4>2. d \in {<<r>>, <<x>>, <<y>>, <<x, y>>}
        BY <2>4, <3>1, <4>1, PathsAreText DEF Paths
      <4>3. \A z \in {<<r>>, <<x>>, <<y>>, <<x, y>>} : z = [i \in 1..Len(z) |-> z[i]]
        OBVIOUS
      <4>4. QED
        BY <4>2, <4>3
    <3>3. DOMAIN a = 1..Len(d)
      BY <2>5, <3>1
    <3>4. [i \in DOMAIN a |-> a[i].text] = d
      BY <2>5, <3>1, <3>2, <3>3
    <3>5. QED
      BY <2>3, <3>1, <3>4
  <2>9. PICK kept : kept = FlattenSeq([i \in DOMAIN Artifacts |-> Artifacts[i].text])
    OBVIOUS
  <2>10. kept = FlattenSeq(Due)
    BY <2>8, <2>9
  <2>11. /\ Headers(r) = {} <=> Headers(full) = {}
         /\ \A w \in Words : Count(Body(r), w) = Count(Body(full), w)
    BY <2>1, <2>2, <2>6, BodyTrim
  <2>12. Count(r, Practical) = Count(full, Practical) /\ Count(r, Poetic) = Count(full, Poetic)
    BY <2>1, <2>2, CountTrim, WordsApart
  <2>13. \A w \in Words : Has(Body(full), w) => Has(Body(r), w)
    <3>1. Body(full) \in Seq(Token) /\ Body(r) \in Seq(Token)
      BY <2>1, BodyIsText
    <3>2. QED
      BY <2>11, <3>1, CountIsNat
  <2>14. \A i \in DOMAIN Artifacts : Solid(Artifacts[i].text) # <<>>
    <3>1. \A i \in 1..Len(Due) : Solid(Due[i]) # <<>>
      BY <2>7 DEF KeptIn
    <3>2. DOMAIN a = 1..Len(a)
      OBVIOUS
    <3>3. \A i \in DOMAIN a : Solid(a[i].text) # <<>>
      BY <2>5, <3>1, <3>2
    <3>4. QED
      BY <2>3, <3>3
  <2>15. \A w \in Words : Count(kept, w) >= Count(Body(full), w)
    BY <2>7, <2>10, <2>11 DEF KeptIn
  <2>16. /\ Count(full, Practical) <= 1 /\ Count(full, Poetic) <= 1
         /\ \E w \in Words : Has(Body(full), w)
         => Headers(full) = {} \/ ~ (Has(kept, Practical) \/ Has(kept, Poetic))
    BY <2>7, <2>10, <2>11, <2>12, <2>13 DEF KeptIn
  <2>17. QED
    BY <2>9, <2>14, <2>15, <2>16 DEF AnswerIsKept, Headers, Body
<1>2. QED
  BY <1>1, Invariance, TextFlows, PTL
==============================================================================
