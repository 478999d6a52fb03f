-------------------------------- MODULE Agent --------------------------------
(***************************************************************************)
(* One message to the A2A agent: claimsInterceptor and eldamoAgentExecutor    *)
(* (a2a.go), the skill executors (internal/skills) and the LLM client they    *)
(* read from.  An executor is an iterator: it yields events to the SDK, which *)
(* may stop it at any yield, after which it must yield no more.                *)
(*                                                                         *)
(* Text is a sequence of tokens: words, white space, sentence ends and the     *)
(* two section headers of a neologism.  Progress messages carry no text here.  *)
(***************************************************************************)
EXTENDS Integers, Sequences, FiniteSets, FiniteSetsExt, SequencesExt, Lists

CONSTANTS Words,        \* words of an answer
          Calls,        \* the messages considered, a set of Call
          LLMConfigs,   \* values of Deps.LLMEnabled considered
          Chunks,       \* skill -> the pieces its LLM answers are made of
          MaxText,      \* bound on the length of an LLM answer
          FlushAt       \* the buffer length that forces a flush (150 bytes)

Skills == {"neologism", "translate", "name"}

Scopes == {"agent:invoke", "skill:neologism", "skill:translate",
           "skill:name-generate"}

\* What the routing looks at.  claims: oauthMiddleware left some; asks: the
\* skills whose trigger words the text has; concepts: keywords of a name.
Call == [claims : BOOLEAN, scopes : SUBSET Scopes, asks : SUBSET Skills,
         concepts : 1..3]

Blank == "blank"        \* white space other than a newline
Newline == "newline"
Stop == "stop"          \* one of . ! ?
Practical == "PracticalDelim"
Poetic == "PoeticDelim"

Token == Words \cup {Blank, Newline, Stop, Practical, Poetic}

ASSUME AgentAssumption ==
    /\ Calls \subseteq Call
    /\ LLMConfigs \subseteq BOOLEAN
    /\ \A k \in {"translate", "neologism"} : Chunks[k] \subseteq Seq(Token)
    /\ MaxText \in Nat /\ FlushAt \in Nat
    /\ Words \cap {Blank, Newline, Stop, Practical, Poetic} = {}

VARIABLES
    call,       \* the message
    llm,        \* Deps.LLMEnabled
    skill,      \* the executor chosen, "none" before the choice
    phase,      \* where that executor is
    heard,      \* the events yielded
    listening,  \* no yield has returned false
    left,       \* concepts still to look up
    roots,      \* roots found
    full, buf,  \* the text received; the part not streamed on yet
    ledger      \* the lines LogUsage wrote

vars == <<call, llm, skill, phase, heard, listening, left, roots, full, buf, ledger>>

EventKinds == {"message", "submitted", "working", "artifact", "completed", "failed"}

Event == [kind : EventKinds, text : Seq(Token)]

Init ==
    /\ call \in Calls
    /\ llm \in LLMConfigs
    /\ skill = "none" /\ phase = "arrived"
    /\ heard = <<>> /\ listening = TRUE
    /\ left = 0 /\ roots = 0
    /\ full = <<>> /\ buf = <<>>
    /\ ledger = <<>>

\* yield(e, nil): when it returns FALSE the executor returns, else it goes on.
Yield(kind, text, next) ==
    /\ heard' = Append(heard, [kind |-> kind, text |-> text])
    /\ \E goOn \in BOOLEAN :
          /\ listening' = goOn
          /\ phase' = IF goOn THEN next ELSE "over"

Note(next) == Yield("working", <<>>, next)

LogUsage(status) == ledger' = Append(ledger, status)

WhiteSpace == {Blank, Newline}

\* strings.TrimSpace
TrimSpace(s) ==
    LET solid == {i \in DOMAIN s : s[i] \notin WhiteSpace}
    IN  IF solid = {} THEN <<>> ELSE SubSeq(s, Min(solid), Max(solid))
------------------------------------------------------------------------------
(* The interceptor and the routing *)

\* Mutant: agent:invoke is not asked for.
BeforeUnscoped ==
    /\ phase = "arrived"
    /\ phase' = IF call.claims THEN "admitted" ELSE "over"
    /\ UNCHANGED <<call, llm, skill, heard, listening, left, roots, full, buf, ledger>>

\* claimsInterceptor.Before: a call without claims or without agent:invoke is
\* answered with an error and reaches no executor.
Before ==
    /\ phase = "arrived"
    /\ phase' = IF call.claims /\ "agent:invoke" \in call.scopes
                THEN "admitted" ELSE "over"
    /\ UNCHANGED <<call, llm, skill, heard, listening, left, roots, full, buf, ledger>>

\* The order matters: any language name makes a text a name request.
Route(asks) ==
    IF "neologism" \in asks THEN "neologism"
    ELSE IF "translate" \in asks THEN "translate"
    ELSE IF "name" \in asks THEN "name" ELSE "echo"

ScopeOf == [neologism |-> "skill:neologism", translate |-> "skill:translate",
            name |-> "skill:name-generate"]

UsesLLM(k) == k \in {"neologism", "translate"}

\* Mutant: the scope of a name request is checked whatever the skill is.
MayRunAsName(k) ==
    /\ UsesLLM(k) => llm
    /\ k # "echo" => ScopeOf["name"] \in call.scopes

MayRun(k) ==
    /\ UsesLLM(k) => llm
    /\ k # "echo" => ScopeOf[k] \in call.scopes

\* Execute: choose the executor; scopeRejection is one of them.
Execute ==
    /\ phase = "admitted"
    /\ skill' = Route(call.asks)
    /\ phase' = IF MayRun(skill') /\ skill' # "echo" THEN "start" ELSE "reply"
    /\ UNCHANGED <<call, llm, heard, listening, left, roots, full, buf, ledger>>

\* runEcho and scopeRejection: one bare message, and no task.
Reply ==
    /\ phase = "reply"
    /\ Yield("message", <<>>, "over")
    /\ UNCHANGED <<call, llm, skill, left, roots, full, buf, ledger>>
------------------------------------------------------------------------------
(* What the three executors have in common *)

Submit ==
    /\ phase = "start"
    /\ Yield("submitted", <<>>, "announce")
    /\ UNCHANGED <<call, llm, skill, left, roots, full, buf, ledger>>

Announce ==
    /\ phase = "announce"
    /\ Note("lookup")
    /\ left' = IF skill = "name" THEN call.concepts ELSE 0
    /\ UNCHANGED <<call, llm, skill, roots, full, buf, ledger>>

First(s, token) == Min({i \in DOMAIN s : s[i] = token})

Has(s, token) == \E i \in DOMAIN s : s[i] = token

After(s, i) == TrimSpace(SubSeq(s, i + 1, Len(s)))

Between(s, i, j) == TrimSpace(SubSeq(s, i + 1, j - 1))

\* Mutant: the practical path is taken to come first.
SplitInOrder(s) ==
    IF Has(s, Practical) /\ Has(s, Poetic)
    THEN <<Between(s, First(s, Practical), First(s, Poetic)), After(s, First(s, Poetic))>>
    ELSE <<IF Has(s, Practical) THEN After(s, First(s, Practical)) ELSE <<>>,
           IF Has(s, Poetic) THEN After(s, First(s, Poetic)) ELSE <<>> >>

\* SplitNeologismPaths: the practical and the poetic path, <<>> when there is none.
SplitNeologismPaths(s) ==
    LET practIdx == First(s, Practical)
        poetIdx == First(s, Poetic)
    IN  IF Has(s, Practical) /\ Has(s, Poetic)
        THEN IF practIdx < poetIdx
             THEN <<Between(s, practIdx, poetIdx), After(s, poetIdx)>>
             ELSE <<After(s, practIdx), Between(s, poetIdx, practIdx)>>
        ELSE <<IF Has(s, Practical) THEN After(s, practIdx) ELSE <<>>,
               IF Has(s, Poetic) THEN After(s, poetIdx) ELSE <<>> >>

\* Mutant: an answer without sections has no artifact.
PathsOnly(response) ==
    LET paths == SplitNeologismPaths(response)
    IN  IF paths[1] = <<>> THEN IF paths[2] = <<>> THEN <<>> ELSE <<paths[2]>>
        ELSE IF paths[2] = <<>> THEN <<paths[1]>> ELSE paths

\* The artifacts of a neologism: its paths, or the whole answer without any.
Paths(response) ==
    LET paths == SplitNeologismPaths(response)
    IN  IF paths[1] = <<>> THEN IF paths[2] = <<>> THEN <<response>> ELSE <<paths[2]>>
        ELSE IF paths[2] = <<>> THEN <<paths[1]>> ELSE paths

\* The artifacts of a successful run, in the order they are yielded.  A name's
\* can be any text.
Due ==
    CASE skill = "name" -> << <<Stop>> >>
      [] skill = "translate" -> <<TrimSpace(full)>>
      [] skill = "neologism" -> Paths(TrimSpace(full))

\* How many have been.
Delivered == Cardinality({i \in DOMAIN heard : heard[i].kind = "artifact"})

Deliver ==
    /\ phase = "deliver" /\ Delivered < Len(Due)
    /\ Yield("artifact", Due[Delivered + 1], "deliver")
    /\ UNCHANGED <<call, llm, skill, left, roots, full, buf, ledger>>

Complete ==
    /\ phase = "deliver" /\ Delivered = Len(Due)
    /\ Yield("completed", <<>>, "over")
    /\ UNCHANGED <<call, llm, skill, left, roots, full, buf, ledger>>
------------------------------------------------------------------------------
(* RunNameGenerate *)

\* Mutant: one lookup too many.
LookUpOnceMore ==
    /\ phase = "lookup" /\ skill = "name" /\ left >= 0
    /\ Note("lookup")
    /\ left' = left - 1
    /\ \E found \in {0, 1} : roots' = roots + found
    /\ UNCHANGED <<call, llm, skill, full, buf, ledger>>

\* One concept is looked up, and found or skipped.
LookUp ==
    /\ phase = "lookup" /\ skill = "name" /\ left > 0
    /\ Note("lookup")
    /\ left' = left - 1
    /\ \E found \in {0, 1} : roots' = roots + found
    /\ UNCHANGED <<call, llm, skill, full, buf, ledger>>

\* The lookups are done: fail without a root, else compound them.
Compound ==
    /\ phase = "lookup" /\ skill = "name" /\ left = 0
    /\ IF roots = 0 THEN Yield("failed", <<>>, "over") ELSE Note("deliver")
    /\ UNCHANGED <<call, llm, skill, left, roots, full, buf, ledger>>
------------------------------------------------------------------------------
(* RunTranslate and RunNeologism: before the LLM is asked *)

\* The lexicon may have candidates (roots and anchors) to report.
Prepare ==
    /\ phase = "lookup" /\ UsesLLM(skill)
    /\ \/ Note("think")
       \/ phase' = "think" /\ UNCHANGED <<heard, listening>>
    /\ UNCHANGED <<call, llm, skill, left, roots, full, buf, ledger>>

\* The stream begins when the loop over it does.
Think ==
    /\ phase = "think"
    /\ Note("reading")
    /\ UNCHANGED <<call, llm, skill, left, roots, full, buf, ledger>>
------------------------------------------------------------------------------
(* Reading the LLM's stream *)

\* The buffer is to be streamed on: it holds a sentence end, or it is long.
Boundary(s) == (\E i \in DOMAIN s : s[i] \in {Stop, Newline}) \/ Len(s) > FlushAt

\* Mutant: the answer of yield is ignored.
FlushBufHeedless(s, next) ==
    IF TrimSpace(s) = <<>>
    THEN buf' = s /\ phase' = next /\ UNCHANGED <<heard, listening>>
    ELSE /\ buf' = <<>>
         /\ heard' = Append(heard, [kind |-> "working", text |-> TrimSpace(s)])
         /\ listening' \in BOOLEAN
         /\ phase' = next

\* Mutant: the buffer is not reset.
FlushBufKept(s, next) ==
    /\ buf' = s
    /\ IF TrimSpace(s) = <<>>
       THEN phase' = next /\ UNCHANGED <<heard, listening>>
       ELSE Yield("working", TrimSpace(s), next)

\* flushBuf, for a buffer s: white space alone stays in the buffer.
FlushBuf(s, next) ==
    IF TrimSpace(s) = <<>>
    THEN buf' = s /\ phase' = next /\ UNCHANGED <<heard, listening>>
    ELSE buf' = <<>> /\ Yield("working", TrimSpace(s), next)

\* GenerateContentStream yields a chunk; it may be empty (usage only).
Receive ==
    /\ phase = "reading"
    /\ \E c \in Chunks[skill] :
          /\ Len(full \o c) <= MaxText
          /\ full' = full \o c
          /\ IF skill = "translate"
             THEN IF Boundary(buf \o c) THEN FlushBuf(buf \o c, "reading")
                  ELSE buf' = buf \o c /\ UNCHANGED <<phase, heard, listening>>
             ELSE UNCHANGED <<buf, phase, heard, listening>>
    /\ UNCHANGED <<call, llm, skill, left, roots, ledger>>

\* The stream ends: [DONE], or the end of the body without it.
StreamEnds ==
    /\ phase = "reading"
    /\ IF skill = "translate" THEN FlushBuf(buf, "read")
       ELSE phase' = "read" /\ UNCHANGED <<buf, heard, listening>>
    /\ UNCHANGED <<call, llm, skill, left, roots, full, ledger>>

\* The client yields an error and ends: the request failed, a status other
\* than 200, a line that is no JSON, a read error, the context cancelled.
StreamFails ==
    /\ phase = "reading"
    /\ LogUsage("error")
    /\ Yield("failed", <<>>, "over")
    /\ UNCHANGED <<call, llm, skill, left, roots, full, buf>>

\* Mutant: an empty answer ends the run without a word.
JudgeSilently ==
    /\ phase = "read"
    /\ LogUsage(IF TrimSpace(full) = <<>> THEN "error" ELSE "ok")
    /\ phase' = IF TrimSpace(full) = <<>> THEN "over" ELSE "deliver"
    /\ UNCHANGED <<call, llm, skill, heard, listening, left, roots, full, buf>>

\* Mutant: an empty answer is not accounted for.
JudgeUnlogged ==
    /\ phase = "read"
    /\ IF TrimSpace(full) = <<>>
       THEN UNCHANGED ledger /\ Yield("failed", <<>>, "over")
       ELSE LogUsage("ok") /\ phase' = "deliver" /\ UNCHANGED <<heard, listening>>
    /\ UNCHANGED <<call, llm, skill, left, roots, full, buf>>

\* The whole answer is in: white space alone is a failure.
Judge ==
    /\ phase = "read"
    /\ IF TrimSpace(full) = <<>>
       THEN LogUsage("error") /\ Yield("failed", <<>>, "over")
       ELSE LogUsage("ok") /\ phase' = "deliver" /\ UNCHANGED <<heard, listening>>
    /\ UNCHANGED <<call, llm, skill, left, roots, full, buf>>
------------------------------------------------------------------------------
Run == Submit \/ Announce \/ LookUp \/ Compound \/ Prepare \/ Think
       \/ Judge \/ Deliver \/ Complete

Steps == Before \/ Execute \/ Reply \/ Run

Ending == StreamEnds \/ StreamFails

\* The exchange is over: the server waits for another.
Rest == phase = "over" /\ UNCHANGED vars

Next == Steps \/ Receive \/ Ending \/ Rest

Spec == Init /\ [][Next]_vars

\* The executor runs.  Nothing makes the stream go on or end: its context is the
\* one the SDK hands to Execute, no code sets a deadline on it, and the client
\* has no timeout (localLLMHTTPClient).
FairSpec == Spec /\ WF_vars(Steps)
------------------------------------------------------------------------------
(* Properties *)

Kinds == {heard[i].kind : i \in DOMAIN heard}

TypeOK ==
    /\ call \in Calls /\ llm \in BOOLEAN
    /\ skill \in Skills \cup {"none", "echo"}
    /\ phase \in {"arrived", "admitted", "reply", "start", "announce", "lookup",
                  "think", "reading", "read", "deliver", "over"}
    /\ heard \in Seq(Event) /\ listening \in BOOLEAN
    /\ left \in 0..3 /\ roots \in 0..3
    /\ full \in Seq(Token) /\ buf \in Seq(Token)
    /\ ledger \in Seq({"ok", "error"}) /\ Len(ledger) <= 1

\* A task exists only for a caller whose token had agent:invoke and the scope of
\* the first skill its text asks for, and needs no LLM that is not there
\* (claimsInterceptor.Before, Execute).
TasksAreAllowed ==
    "submitted" \in Kinds =>
        /\ call.claims /\ {"agent:invoke", ScopeOf[skill]} \subseteq call.scopes
        /\ skill \in call.asks /\ (UsesLLM(skill) => llm)
        /\ "neologism" \in call.asks => skill = "neologism"
        /\ skill = "name" => call.asks = {"name"}

Solid(s) == Within(s, Token \ WhiteSpace)

Artifacts == Within(heard, [kind : {"artifact"}, text : Seq(Token)])

\* The texts of the working events, one after the other.
Streamed == FlattenSeq([i \in DOMAIN heard |->
                          IF heard[i].kind = "working" THEN heard[i].text ELSE <<>>])

\* What a translation streams is what it received, white space apart: no sentence
\* is lost, repeated or reordered on its way through flushBuf.
NothingIsLost ==
    /\ skill = "translate" => Solid(Streamed) \o Solid(buf) = Solid(full)
    /\ skill = "translate" /\ "artifact" \in Kinds =>
            Solid(Streamed) = Solid(Artifacts[1].text)

Count(s, token) == Len(Within(s, {token}))

\* When a neologism completes, no artifact is empty; each word after the first
\* section header is in the artifacts at least as often as in the answer; and an answer
\* with each header once is divided there, unless it has no word after one.  The
\* split loses and mixes up nothing, whichever path comes first or is missing.
AnswerIsKept ==
    skill = "neologism" /\ "completed" \in Kinds =>
        LET headers == {i \in DOMAIN full : full[i] \in {Practical, Poetic}}
            body == IF headers = {} THEN full
                    ELSE SubSeq(full, Min(headers), Len(full))
            kept == FlattenSeq([i \in DOMAIN Artifacts |-> Artifacts[i].text])
        IN  /\ \A i \in DOMAIN Artifacts : Solid(Artifacts[i].text) # <<>>
            /\ \A w \in Words : Count(kept, w) >= Count(body, w)
            /\ /\ Count(full, Practical) <= 1 /\ Count(full, Poetic) <= 1
               /\ \E w \in Words : Has(body, w)
               => headers = {} \/ ~ (Has(kept, Practical) \/ Has(kept, Poetic))

\* The usage ledger agrees with the task: one line for each answer heard to its
\* end, "ok" exactly when the task completed (LogUsage).
LedgerAgrees ==
    UsesLLM(skill) /\ Kinds \cap {"completed", "failed"} # {} =>
        ledger = IF "completed" \in Kinds THEN <<"ok">> ELSE <<"error">>

\* Where the executor is and what it has yielded by then.
BeforeTask ==
    /\ phase \in {"arrived", "admitted"} => skill = "none"
    /\ phase \in {"arrived", "admitted", "reply", "start"} => Kinds = {}
    /\ phase \in {"arrived", "admitted", "reply", "start", "announce"} =>
          left = 0 /\ roots = 0
    /\ phase = "admitted" => call.claims /\ "agent:invoke" \in call.scopes

InTask == {"start", "announce", "lookup", "think", "reading", "read", "deliver"}

DuringTask ==
    /\ phase \in InTask =>
          /\ skill \in Skills
          /\ call.claims /\ {"agent:invoke", ScopeOf[skill]} \subseteq call.scopes
          /\ skill \in call.asks /\ (UsesLLM(skill) => llm)
          /\ "neologism" \in call.asks => skill = "neologism"
          /\ skill = "name" => call.asks = {"name"}
    /\ phase \in {"think", "reading", "read"} => UsesLLM(skill)
    /\ phase = "announce" => Kinds = {"submitted"}
    /\ phase \in {"lookup", "think", "reading", "read"} => Kinds = {"submitted", "working"}
    /\ phase = "deliver" =>
          /\ {"submitted", "working"} \subseteq Kinds
          /\ Kinds \subseteq {"submitted", "working", "artifact"}
          /\ Delivered <= Len(Due)

\* A stopped executor is over, and so is its ledger.
Stopping ==
    /\ ~listening => phase = "over"
    /\ phase \notin {"deliver", "over"} => ledger = <<>>
    /\ phase = "deliver" /\ UsesLLM(skill) => ledger = <<"ok">>
    /\ phase = "deliver" /\ ~UsesLLM(skill) => ledger = <<>>

\* Artifacts are counted, and follow the first status events only.
Counting ==
    /\ Delivered \in Nat
    /\ "artifact" \notin Kinds => Delivered = 0
    /\ left + roots <= 3

\* The inductive invariant of AgentProofs.
IInv ==
    /\ TypeOK
    /\ BeforeTask /\ DuringTask /\ Stopping /\ Counting
    /\ TasksAreAllowed /\ LedgerAgrees

\* LogUsage is "called on every invocation, success or failure".
EveryInvocationIsLogged ==
    phase = "over" /\ full # <<>> => ledger # <<>>

\* An executor whose yield returned false yields no more (it would panic).
SilentOnceStopped == [][~listening => heard' = heard]_vars

\* A submitted task comes to its end unless its caller goes away or the LLM's
\* stream never ends: nothing else can hold an executor back, and none ends
\* without a word (RunTranslate, RunNeologism, RunNameGenerate).
TasksEnd ==
    ("submitted" \in Kinds) ~>
        \/ Kinds \cap {"completed", "failed"} # {}
        \/ ~listening
        \/ [](phase = "reading")

TaskState ==
    IF Kinds \cap {"completed", "failed", "message", "working", "submitted"} = {}
    THEN "none"
    ELSE IF "message" \in Kinds THEN "replied"
    ELSE IF "completed" \in Kinds THEN "completed"
    ELSE IF "failed" \in Kinds THEN "failed"
    ELSE IF "working" \in Kinds THEN "working" ELSE "submitted"

Life == INSTANCE TaskLife WITH state <- TaskState, artifacts <- Delivered

\* What a caller hears is the life of an A2A task, or one reply: exactly one end,
\* after at most two artifacts, and none of them when the task fails.
FollowsTaskLife == Life!Spec
=============================================================================
