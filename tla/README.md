# Formal models of eldamoapi

eldamoapi serves the Eldamo lexicon of Tolkien's languages over HTTP, MCP and
A2A, behind its own OAuth 2.1 authorization server. These modules model the
parts whose correctness depends on order and concurrency - logins, tokens and
the user directory; the gates in front of the endpoints; the A2A agent, its
streaming skills and its stored tasks - and the lexicon index, whose algorithms
must be right on tangled data. `PROJECT.json` lists components, runs, findings and hazards, and maps
each definition to the lines it translates.

    tlc -config OAuthTokens.cfg MCOAuth      # one run
    tlapm OAuthProofs.tla                    # the proofs

## The system

| Part | State | Operations | Hard because |
|---|---|---|---|
| User directory and `eldamo-admin` (`cmd/eldamo-admin`) | `authorized_users`, `access_requests` in Firestore | add, pre-register, approve, grant, revoke-scope, grant-all, token | commands make several Firestore calls, nothing is a transaction; the server writes the same documents at first login |
| Client registry (`oauth.go`) | `registered_clients`; metadata documents on the web | register, resolve, compare redirect URIs | a write may fail after it was applied; loopback URIs are compared loosely |
| Authorization server (`oauth.go`) | `mcp_auth_codes`; signed tokens, kept nowhere | login callback, code exchange, refresh | clients send the same exchange twice at once; reads and deletes are separate; revocation races issuing |
| Bearer middleware, gates (`oauth.go`, `main.go`) | none | verify a token, pass claims on | a token's scopes outlive a revocation, and refreshes go on meanwhile |
| A2A agent (`a2a.go`) | none | check the caller, choose a skill, stream events | the caller may leave at any event |
| Skills (`internal/skills`) | buffers of one run | name-generate, translate, neologism | early returns inside callbacks inside loops; LLM streams that fail or end empty |
| LLM clients (`a2a.go`, `llm_local.go`) | one HTTP stream | generate | streams end in several ways, and one backend has no timeout |
| Task store (`taskstore_firestore.go`) | `a2a_tasks` in Firestore | Create, Update, Get, List | optimistic transactions, retries, lost answers, TTL purge; List filters after its limit; servers stop with executors at work |
| Lexicon index (`index`) | maps and a trie, built once, then only read | load, search by keyword or prefix, derivations, root anchors | references form cycles and diamonds, point forward, or name nothing; map order is random |
| MCP tools (`main.go`) | none | enquire_lexicon, get_word_details, get_derivations, get_root_anchors | results of two searches are joined and cut |
| MCP multiplexer (`main.go`) | none | chooses SSE or streamable HTTP | the SDK owns the protocol and the sessions |

Firestore is what the parts share: the admin commands, the login callback and
both token grants meet in `authorized_users`; the agent writes task states
through the task store. A token signed by the authorization server is all the
bearer middleware looks at. The name generator and the translator search the same
index as the MCP tools. Requests run concurrently, each in its own goroutine,
and the admin command line runs in other processes.

What makes each part correct:

* directory: a document belongs to the account it is keyed by, however commands
  and logins interleave; an approved request has a user.
* registry: a client told its id can be resolved; codes go only to URIs that
  registration would accept.
* authorization server: codes are used once and not after expiry; tokens stay
  bound to the user and client of their code; what is signed is never older
  than the request.
* agent and skills: a caller hears a legal task life - one end, artifacts only
  before completion and none on failure - and the whole answer; nothing is
  yielded to a caller that has gone.
* gates: a revocation reaches every endpoint within one access token lifetime.
* task store: each call is atomic; no acknowledged update is lost; every call
  is answered; List shows the newest matching tasks of the caller and no others.
* agent with its store: what is stored is at every moment a legal task life,
  whatever save fails or server stops; no unfinished task stays for ever.
* lexicon: search, derivations and anchors answer what the data file says,
  whatever the order of its lines and however its references are tangled; names
  lose no consonant of their roots.

## Modules

| Module | Models |
|---|---|
| `Directory` | the two user collections and each admin command, one action per Firestore call |
| `ClientRegistry` | registration, metadata documents, redirect comparison |
| `OAuth` | extends both: concurrent handlers of the login callback and the token endpoint, the clock, TTL purge, failing calls |
| `Gateway` | extends `OAuth`: `oauthMiddleware` and the scope gate, over the tokens signed |
| `OAuthProofs`, `RegistrationProofs` | theorems about `OAuth`; the second those about redirects, clients and approvals |
| `GatewayProofs` | theorem about `Gateway` |
| `TaskCalls` | requests and answers of `taskstore.Store` |
| `VersionedTasks` | the promise: an atomic, versioned store |
| `TaskStore` | the Firestore implementation, with a mapping onto `VersionedTasks` |
| `TaskStoreProofs` | theorems about `TaskStore` |
| `TaskLife` | the promise of the agent: the life of a task as its caller hears it |
| `Agent` | interceptor, routing, the three skills and the LLM stream, with a mapping onto `TaskLife` |
| `AgentProofs` | theorems about `Agent` |
| `AgentTasks` | executors that follow `TaskLife`, the SDK that saves their events, the store and its `List`, servers that stop; the stored tasks mapped onto `TaskLife` again |
| `AgentTasksProofs` | theorems about `AgentTasks` |
| `Compounding` | choice of a root, vowel elision, assimilation, suffixes |
| `Lexicon` | extends it: loading, search, derivations, root anchors, the four MCP tools, the name generator's lookups |
| `LexiconProofs` | theorems about `Lexicon` |
| `Lists` | the loops over slices that the modules share: filter, pick positions, drop repetitions, add up |
| `ListProofs` | lemmas about them, and about the library's sequences, for lists of any length |
| `MCOAuth`, `MCGateway`, `MCTaskStore`, `MCAgent`, `MCAgentTasks`, `MCLexicon` | constants of the runs |

How they fit: `OAuth` is `Directory` and `ClientRegistry` with the handlers that
write to both, and `Gateway` is `OAuth` with the endpoints. `TaskStore`
implements `VersionedTasks` and `Agent` implements `TaskLife`; `AgentTasks` puts
the two together at that level: its executors yield what `TaskLife` allows and
its saves are the atomic writes of `VersionedTasks`.

Definitions marked *Mutant* are wrong variants of the definition that follows
them, each the way a plausible bug would be. No specification uses them. They
record, per property, a change of the code that the property notices: with the
mutant in place of the original, TLC reports that property violated.

### OAuth

A handler is a record with a program location `at` and what it has read so far.
The login callback goes `preregistered` -> `activate` -> `resolve` -> `store`
(the first two only when the uid has no document); an exchange goes `delete` ->
`verify` -> `fetch` -> `issue`; a refresh starts at `fetch`. Each location is
one Firestore call, so everything else can happen between two of them. A
document's content is kept in `codeDoc` and its presence in `live`. JWTs are
records. `grant` in a token (the code at the root of its refresh chain) and
`heldSince` (the scopes the subject has held since the request came in) are
history, read by properties only. `Faults` names the calls that may fail; a write
that reports an error may have been applied.

Abstracted: PKCE is a function `S256` from verifiers to challenges; an ID token
is the uid it verifies to and the address it names (`EmailOf`; the callback does
not look at `email_verified`). `add` and `approve` write whatever address they
are given. Random draws are fresh; a code that a request gets
wrong at the first read is a refused request without effect. External to `src/`
and taken from how it is used: the sign-in portal that writes
`access_requests`, the Firestore console, TTL policies. Left out: a server without Firestore, which
registers clients without storing them (`oauth.go:378`) and can neither resolve
them nor issue a code.

### Gateway

Nothing is looked up when a request arrives: `Serves(path, t)` is the whole of the
middleware and the gate, a predicate on a token and the clock. What needs
modelling is what came before, so `Gateway` adds to `OAuth`'s steps one history
variable, `lastAlive`: when each user last held each scope, or had a token
request under way that was made while holding it. `RevocationBites` compares it
with what is served. Tokens an administrator signs by hand (`MintToken`) are not
bound by it: the command takes their scopes and lifetime as told. The A2A
endpoint has no gate of its own (`Required` is empty there): `Agent` checks the
scope of each skill. `AUTH_BYPASS`, which switches the check off for local
testing, is left out.

### TaskStore

A call is `begun` until its closure has read the document, `staged` with the
write to commit, `stale` once the document was written after that read, and
`answered`. Only a `staged` transaction commits; Firestore may abort either.
`RunTransaction` retries `MaxAttempts` times. `Purge` takes a document whose
`expiresAt` has passed. Two assumptions about the surroundings are guards:
task ids are drawn afresh, so a purged id is not created again, and a Create
does not take longer than a task's lifetime (seven days).

### Agent

One message from its arrival to the end of its stream. `heard` is the sequence of
events yielded and `listening` turns false when a yield returns false, which it
may at any event. `phase` is the place in the executor. Text is a sequence of
tokens - words, blanks, newlines, sentence ends, the two section headers - since
`flushBuf`, `TrimSpace` and `SplitNeologismPaths` tell only these apart;
progress messages carry none. `Chunks` gives the pieces an LLM stream is made
of. The LLM's stream runs in the executor's goroutine, so a chunk and the flush
it causes are one step.

Abstracted: the message is the set of skills it triggers and the number of
concepts; a lookup finds something or does not (`Lexicon` has the lookup itself);
the name is one token; a usage record is its status. An artifact is its text: the
labels under which the two paths of a neologism are delivered are left out.

### AgentTasks

`docs` is the collection, `recent` its order by `updatedAt`, `run` what an executor
and the SDK know of their task: where it is and the version last saved. An event
is saved before the next is taken. `Save` has three outcomes: written; refused by
the store; failed - and then the write may have been applied or not. In the last
two the executor is stopped. `durable` is the choice of `newA2AHandler`: Firestore,
or memory, which does not fail and does not outlive its server. `Crash` stops any
of the running executors (several servers run) or, in memory, all of them. Nothing
resumes an executor, as nothing in the code does; `life` counts the days until
`expiresAt` and `Purge` is the TTL policy.

`List` is an operator, and `ListIsNewestMatching` asks it every request in every
state. The property says what may be missing from a page, including what the
limit in front of the filters can hide: a matching task is not found when
`4 * pageSize` newer ones of the caller do not match.

Assumed of the surroundings: the SDK saves the events of a task one after another
and stops the executor when a save fails; each task has one executor (a message
that names an existing task is the SDK's matter); `updatedAt` is taken when the
closure runs and stands for the moment of the commit. An execution may take any
time, and may hang: its task can expire under it, and then its next event is
refused. Left out: the status-timestamp filter and the history cut of `List`.

### Lexicon

`LoadLine` reads one line of the file into the maps and the trie, whose nodes are
their paths. When all is read the index does not change, so callers cannot
disturb each other and the model has one at a time, whose answer is in `answer`.
`GetRootAnchors` recurses over the data; its calls are the frames of `walk.stack`,
each holding the targets its loop has not reached. `CollectIDs` ranges over Go
maps, whose order is random: its value is the set of the results of all orders in
which the children of the trie's nodes may come - those where a word precedes the
longer ones that begin with it, and words that begin alike stay together. The
loop of `SearchKeyword` that intersects the lists of the tokens leaves the ids
that are in all of them (`Shared`), in the order of the last.

References are by id, as the code intends, in the run `lexicon`; the embedded file
names spellings instead, which `lexicon_derivations` shows. Texts are lower case,
as each comparison of the code folds them. A line has the fields that matter:
`gloss` stands for the gloss, its neologism form and the notes. Left out: an
unterminated last line, which `NewIndex` drops (`index.go:134`; the file ends with
a newline); the refusal of an empty id; JSON.

## Runs

| Run | Instance | Shows |
|---|---|---|
| `oauth_tokens` | 2 handlers, 1 user, 1 client, 2 codes, 3 admin steps, 2 instants | `IInv` (the inductive invariant), `SpentCodesAreGone`, `ScopesAreFresh`, `ExpiryCutsOff` |
| `oauth_binding` | 1 handler, a registered and a metadata client, 2 verifiers, 4 URIs, 2 endpoints | `TypeOK`, `RevocationBites`, `TokensFollowTheirGrant`, `RedirectsAreRegistrable`, `AnnouncedClientsResolve` |
| `oauth_faults` | 2 handlers, 2 accounts, 4 admin steps, failing reads and writes | `KeyedByOwner`, `ApprovedHaveDocument` |
| `task_store` | 2 callers, 1 task, 2 payloads, 2 users, 3 attempts, 3 versions, 2 instants, lost answers | `TypeOK`, `IInv`, `AcknowledgedVersionsDiffer`, `ImplementsPromise`, `LifeNeverShortens`, `CallsReturn` |
| `agent` | every set of triggers, six sets of scopes, LLM on and off, answers of up to 4 tokens, streams that fail, end or hang | `TypeOK`, `IInv`, `TasksAreAllowed`, `NothingIsLost`, `AnswerIsKept`, `LedgerAgrees`, `SilentOnceStopped`, `TasksEnd`, `FollowsTaskLife` |
| `agent_tasks` | 3 tasks of one caller in two contexts or of three callers, either store, failing saves, stopping servers, hung executors, pages of up to 2 | `IInv`, `ListIsNewestMatching`, `StoredFollowsLife`, `TasksAreSettled` |
| `lexicon` | every file of three out of six lines and of four tangled lines in every order, 12 queries, 3 filters, 16 name requests | `IInv`, `AnchorsAreExact`, `DerivationsAreExact`, `SearchIsExact`, `NamesKeepConsonants`, `WalksEnd` |

Five runs are expected to find a violation: the code does not do what its
comments or documents say.

| Run | Property | What TLC shows |
|---|---|---|
| `oauth_single_use` | `SingleUse` | two exchanges read a code before either deletes it, and both get tokens |
| `oauth_delete_fails` | `SpentCodesAreGone` | a Delete that fails is ignored and the code stays redeemable |
| `oauth_pre_register` | `ActiveUsersAreServed` | a pre-registered user is activated under the e-mail key, and the exchange looks under the uid |
| `agent_usage` | `EveryInvocationIsLogged` | a caller leaves while an answer is streamed, and the LLM call is not accounted for |
| `lexicon_derivations` | `NamedDerivationsAreFound` | the line of *calar* derives it from *KAL*, but by spelling: the lookup by id finds it in neither direction |

### Bounds

* Two handlers or callers: each race in the code is between two requests on one
  document. One code, task or user is what they race for; `oauth_tokens` has a
  second code so that a refused exchange can be told from a spent code, and
  `oauth_faults` a second account so that a document can get a wrong owner.
* `MaxTime` 1 with a code and task lifetime of 0: before, at and after expiry.
* `MaxAdmin` 2 to 4: pre-register, activation and one or two commands around them;
  in `oauth_faults` the request and the three steps of `approve` that follow it.
* `MaxAttempts` 3, `MaxVersion` 3: lose a race, retry, lose again, give up.
* `MaxText` 4, `FlushAt` 2: two chunks or more on each side of a flush; preamble,
  header, word and second header; a buffer too long without a sentence end.
* `RefreshTTL` 2 against `AccessTTL` 1 in `oauth_binding`: a refresh token outlives
  the access token it came with, so that a refresh happens after a revocation.
* `agent_tasks`: three tasks and pages of 1 or 2 fetched two-fold, so that a page is
  full, the fetch is cut, and a matching task is hidden by newer ones; `TaskTTL` 1
  and `MaxVersion` 2: a day before and a day after, executions of two to four events.
* `lexicon`: the lines hold a cycle of length two and of length one, a diamond, a
  repeated and an unknown reference, a reference forward and backward, a phrase, a
  stem, a one-letter word and a word of vowels only; a cap of 2 below the number of
  hits.
* Symmetry is used for handlers and codes, and only where no liveness property
  is checked. `CHECK_DEADLOCK FALSE` is set where a server whose codes and clock
  are used up has nothing left to do; the agent is checked for deadlock.

### Fairness

* `TaskStore`: weak fairness of each caller's own steps - Firestore answers, and
  the goroutine is scheduled. `CallsReturn` needs no more, as attempts are
  bounded.
* `Agent`: weak fairness of the executor's own steps, a goroutine that waits for
  nothing but the LLM. Nothing is assumed of the stream: the local client has no
  timeout and relies on "callers" to bound it "via ctx" (`llm_local.go:111-115`), but
  `Execute` passes the SDK's context on and no code sets a deadline; `--timeout` of
  `scripts/deploy.sh` is about Cloud Run's requests. So `TasksEnd` says that a task
  comes to its end unless the caller leaves or the stream is read for ever, and
  `AgentTasks` lets executors hang.
* `AgentTasks`: weak fairness of `Day`, and of `Purge`: the TTL policy is registered
  as `docs/DEVELOPMENT.md:425` says. Nothing makes a `Submit`, an `Advance` or a
  `Crash` happen. Without `Purge` an executor that hangs or was stopped would leave
  its task for ever; in memory, one that hangs does.
* `Lexicon`: weak fairness of `Walk`, a running goroutine that waits for nothing.

## Proofs

`OAuthProofs`, for every number of handlers, users, clients and codes, any
lifetimes, and any faults:

* `Invariance`: `Spec => []IInv`. `IInv` joins type correctness with
  `KeyedByOwner`, which is not inductive alone: a first login updates whatever
  document it found earlier, so `LinksGoToOwnAddress` says that document is keyed
  by the caller's own address. `TokensFollowTheirGrant` needs the same statement of
  the handlers on their way (`HandlersFollowTheirGrant`), and `KeyedByOwner`,
  since a token is signed with the uid stored in the document. `ScopesAreFresh`
  needs `ScopesAreFollowed`: until the user is read, the history holds what the
  subject may be given now.
* from it `TypeCorrect`, `OwnersKept`, `TokensBound`, `RevocationHonoured`, and
  `SpentOnce`, which assumes that Delete does not fail.
* `ExpiryEndsCodes`, an action property: a handler gets past `verify` only with a
  code that has not expired, whatever the others, the TTL policy and failing calls
  do to the document meanwhile.

`RegistrationProofs`, for the same constants and faults: `ApprovedAreAuthorized`,
`AnnouncedResolve` and `CodesGoToRegistrable`. Their invariant `AInv` adds what an
approval on its way has already written, and that every stored redirect URI passed
registration; `SameIsRegistrable` says that the loose comparison does not
leave that set.

`GatewayProofs`: `RevocationReaches`. `TokensAreRecent` bounds the expiry of each
token by `lastAlive`; `AliveIsFollowed` makes it inductive, since a token is signed
with scopes that are alive at that moment by `OAuth`'s invariant.

`TaskStoreProofs`, for every number of callers, ids, payloads, users and attempts:

* `Invariance`: the key is `StagedFits` - the write of a transaction that is not
  stale fits the document stored now. `NoLostUpdate` follows with
  `AcknowledgedAreStored` and `PurgedForGood`; `LifeKept` from `ExpiriesInOrder`,
  because the clock only goes forward and a stale write is not committed.
* `Implementation`: under the mapping each step of a transaction is a step of
  `VersionedTasks` or none; the commit is the instant a write takes effect.

The assumptions are those of the modules: shapes of the constants, `None` apart
from all values, `EmailOf` a function from accounts to addresses; in
`CompoundingAssumption`, that the consonants the code names (n, r, t, l, d) are not
among the vowels; in `LexiconAssumption`, that the lines of a file have
different ids, questions are texts, the cap of a page
is a number and a name request asks for one of the two genders.

`AgentProofs`, for every set of messages, every LLM answer and every bound:

* `Invariance`: `IInv` says for each phase what has been yielded by then
  (`BeforeTask`, `DuringTask`), that an executor whose yield returned false is over
  and what the ledger holds (`Stopping`), and counts artifacts, lookups and roots
  (`Counting`). The properties alone are not inductive: they speak of what was
  heard, and what may be yielded next depends on the phase. `AfterYield` and
  `AfterFlush` say once what a yield and a flush add.
* from it `TypeCorrect`, `TasksAreAllowedAlways`, `LedgerAgreesAlways` and
  `SilentOnceStoppedAlways`.
* `Implementation`: each event is a step of `TaskLife`, each other step is none of
  it. It rests on `DueIsText`: every answer that is not white space gives one or
  two artifacts, whatever its sections (`PathsAreText`, from the positions that
  `FirstIsIndex` and `MinIsMember` give).
* `NothingIsLostAlways`, by an invariant of its own (`Flowing`, stated with the
  proofs): the artifacts so far are those due, and the buffer is empty but for white
  space once the stream was read. `AnswerIsKeptAlways` uses it too, and counts words:
  the sections that `SplitNeologismPaths` cuts out
  cover what follows the first header (`PathsKeep`), and neither joining
  (`CountConcat`) nor trimming (`CountTrim`) drops a word.

`AgentTasksProofs`, for every number of tasks and users, any faults and bounds:

* `StoreAgrees`: `IInv` joins that `recent` orders what is stored, that an executor
  at work knows its document exactly as long as it is there (`EventsAreSaved`), and
  ownership (`TasksAreOwned`). That a save is refused only when the document was
  purged is a consequence.
* `StoredTasksLive`: each write is a step of `TaskLife`; it needs `EventsAreSaved`,
  since what an executor yields follows what it knows, not what is stored.
* `PagesAreNewest`: `IInv` says that `recent` orders what is stored; owner, limit,
  filters and page size keep that order, and each leaves out only what the property
  allows it to.

`LexiconProofs`, for every data file, its names and its references:

* `IndexIsFaithful`: `IndexFollowsFile` relates the two derivation maps to the lines
  read so far, `SearchFollowsFile` the maps of words and the trie. `WalkOK` says what
  a traversal has seen or has on its stack; when the stack is empty, what it has seen
  is closed under descent, hence all of `Reach`.
* `AnchorsExact` from it.
* `SearchIsExactAlways`: tokens are the maximal runs of letters (`TokensFound`), so
  the two searches give exactly the ids of the words that hold the tokens or begin
  with the query (`KeywordHits`, `PrefixHits`); joined, each is there once
  (`CombinedIsExact`), and a bijection counts them. Keyword hits come first, so
  that the cut drops prefix hits before them.
* `DerivationsAreExactAlways`: both maps follow the same lines, and the answer names
  each word once.
* `NamesKeepConsonantsAlways`: by induction over the roots, `Made` relates a compound
  to its pieces; `Joined` is one join with its elision and assimilation, where
  `CompoundingAssumption` is needed.

`ListProofs` has what these proofs need of lists. The library's induction theorems
take a predicate as a parameter, which no installed prover instantiates;
here induction is over sets of numbers instead (`Least`, `Induct`, `InductTo`), and
`Recursion` gives the recursive functions by which the loops are defined. With
these, facts about lists of every length are proved.

Only model-checked: liveness (`CallsReturn`, `TasksEnd`, `TasksAreSettled`,
`WalksEnd`), which is outside the prover's reach. The properties of the five runs
that find a violation are not theorems.

## Not modelled

* The parsing of messages (`ParseNameRequest`, `ParseTranslateRequest`,
  `ParseNeologismRequest`): the agent takes its outcome, the skills triggered and
  the concepts, as given. It is string matching letter by letter; its one choice is
  that `ParseTranslateRequest` ranges over a Go map of language names
  (`translate.go:69`), so that a text with two of them has a random target.
* `McpMultiplexerHandler`: a stateless choice between the two transports, whose
  sessions are the SDK's.
* `List`'s status-timestamp filter and history cut.
* The text-to-speech proxy, agent cards, discovery documents, MCP prompts and
  resources: static, or one call passed on.
* Network dialling, JWT cryptography, formatting and logging; deployment scripts,
  of which the TTL policies appear as assumptions.

## Plan

1. Done: `Directory`, `ClientRegistry`, `OAuth`, `Gateway`; `TaskStore` against
   `VersionedTasks`; `Agent` against `TaskLife`; `AgentTasks`; `Compounding` and
   `Lexicon`; each with proofs.
2. Done: a theorem for every safety property that a passing run checks.
3. Message parsing, with the byte offsets of `translate.go:54`, over a small
   alphabet in which a letter and its lower case differ in length.
4. `grant` and `revoke-scope` on a pre-registered user, and the history cut of
   `List` with a length taken from the request as it is.
