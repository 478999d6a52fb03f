------------------------------- MODULE Lexicon -------------------------------
(***************************************************************************)
(* The lexicon of index.go, and the four read-only tools of main.go and the   *)
(* name generator that ask it.                                                *)
(*                                                                         *)
(* NewIndex reads the file line by line before the server listens; from then   *)
(* on nothing writes the index, so callers cannot disturb each other and one    *)
(* asks at a time.  GetRootAnchors is a recursion over the data, modelled with   *)
(* its stack.  Texts are case-folded, as every comparison of the code is.        *)
(***************************************************************************)
EXTENDS Compounding, FiniteSets

CONSTANTS Names,         \* strings that may stand in refs and derivs, the ids among them
          Ids,           \* ids of words
          Spelling,      \* the text of each name
          Letters,       \* what tokenize keeps: a-z and 0-9
          StopWords,
          NameSpeeches,  \* parts of speech that contain "name"
          Files,         \* data files: sequences of lines
          Questions,     \* texts a caller may look for
          Filters,       \* values for language, speech and category, "" for any
          NameRequests,  \* what the name generator may be asked
          Cap            \* bound: at most 50 matches in an answer

Line == [id : Ids, word : Seq(STRING), stem : Seq(STRING), gloss : Seq(STRING),
         language : STRING, speech : STRING, category : STRING,
         refs : Seq(Names), derivs : Seq(Names)]

\* Every id stands on one line, as in the embedded file.
IdsDiffer(f) == \A i, j \in DOMAIN f : f[i].id = f[j].id => i = j

ASSUME LexiconAssumption ==
    /\ Ids \subseteq Names
    /\ None \notin Line
    /\ \A f \in Files : f \in Seq(Line) /\ IdsDiffer(f)
    /\ Questions \subseteq Seq(STRING) /\ Cap \in Nat
    /\ NameRequests \subseteq [lang : STRING, gender : {"masculine", "feminine"},
                              concepts : Seq(Seq(STRING))]

VARIABLES file,          \* the data file
          next,          \* the line NewIndex reads next
          words,         \* Words: name -> line, or None
          trie,          \* Trie: the nodes by their path, each with its WordIDs
          inverted,      \* InvertedMap: token -> ids
          derivsSource,  \* DerivsSource: name -> names of ancestors
          derivsTarget,  \* DerivsTarget: name -> names of descendants
          walk,          \* the GetRootAnchors under way, or None
          answer         \* what the last caller was told, or None

index == <<file, next, words, trie, inverted, derivsSource, derivsTarget>>
vars == <<index, walk, answer>>

Init ==
    /\ file \in Files
    /\ next = 1
    /\ words = [n \in Names |-> None]
    /\ trie = [p \in {<<>>} |-> <<>>]
    /\ inverted = <<>>
    /\ derivsSource = [n \in Names |-> <<>>]
    /\ derivsTarget = [n \in Names |-> <<>>]
    /\ walk = None
    /\ answer = None

Loaded == next > Len(file)
Free == Loaded /\ walk = None /\ answer = None
Known == {n \in Names : words[n] # None}

--------------------------------------------------------------------------------
(* Loading. *)

\* The words of a text longer than one character that are no stop words, in order.
tokenize(text) ==
    LET In(i) == i \in DOMAIN text /\ text[i] \in Letters
        starts == Positions(text, {i \in DOMAIN text : In(i) /\ ~In(i - 1)})
        End(i) == Min({j \in i..Len(text) : ~In(j + 1)})
        runs == [k \in DOMAIN starts |-> SubSeq(text, starts[k], End(starts[k]))]
    IN  Within(runs, {w \in ToSet(runs) : Len(w) > 1} \ StopWords)

\* id is appended to the list of every key, new keys included.
File(lists, keys, id) ==
    [k \in DOMAIN lists \cup keys |->
        (IF k \in DOMAIN lists THEN lists[k] ELSE <<>>)
        \o (IF k \in keys THEN <<id>> ELSE <<>>)]

\* The nodes on the way get a child where one is missing, the last one the id.
Insert(t, word, id) ==
    [p \in DOMAIN t \cup Prefixes(word) |->
        (IF p \in DOMAIN t THEN t[p] ELSE <<>>)
        \o (IF p = word THEN <<id>> ELSE <<>>)]

\* id, once for every time the list names n.
Copies(list, n, id) == [i \in 1..Cardinality({j \in DOMAIN list : list[j] = n}) |-> id]

\* A mutant: what a word names as derived from it is not recorded as having it as source.
SourcesAfterRefs(w, n) == IF n = w.id THEN w.refs ELSE <<>>

SourcesAfter(w, n) ==
    (IF n = w.id THEN w.refs ELSE <<>>) \o Copies(w.derivs, n, w.id)

TargetsAfter(w, n) ==
    Copies(w.refs, n, w.id) \o (IF n = w.id THEN w.derivs ELSE <<>>)

LoadLine ==
    LET w == file[next]
        text == w.word \o <<Blank>> \o w.gloss
    IN  /\ ~Loaded
        /\ next' = next + 1
        /\ words' = [words EXCEPT ![w.id] = w]
        /\ trie' = Insert(trie, w.word, w.id)
        /\ derivsSource' = [n \in Names |-> derivsSource[n] \o SourcesAfter(w, n)]
        /\ derivsTarget' = [n \in Names |-> derivsTarget[n] \o TargetsAfter(w, n)]
        /\ inverted' = File(inverted, ToSet(tokenize(text)), w.id)
        /\ UNCHANGED <<file, walk, answer>>

--------------------------------------------------------------------------------
(* Searching. *)

Passes(w, f) ==
    /\ f.language \in {"", w.language}
    /\ f.speech \in {"", w.speech}
    /\ f.category \in {"", w.category}

filterAndHydrate(ids, f) ==
    Within(Distinct(ids), {n \in Names : words[n] # None /\ Passes(words[n], f)})

Hits(token) == IF token \in DOMAIN inverted THEN inverted[token] ELSE <<>>

\* A mutant: one token is enough.
SharedByOne(tokens) == {n \in Names : \E t \in ToSet(tokens) : n \in ToSet(Hits(t))}

\* What the loop over the tokens leaves of the ids, by intersecting one list after another.
Shared(tokens) == {n \in Names : \A t \in ToSet(tokens) : n \in ToSet(Hits(t))}

\* intersect keeps the order of the list that comes last.
SearchKeyword(query, f) ==
    LET tokens == tokenize(query)
    IN  IF tokens = <<>> THEN <<>>
        ELSE filterAndHydrate(Within(Hits(Last(tokens)), Shared(tokens)), f)

\* The ids at and below a node, for each order in which Go may range over the children:
\* a word comes before the longer ones that begin with it, and those that begin alike
\* stay together.
CollectIDs(p) ==
    LET ends == {q \in DOMAIN trie : IsPrefix(p, q) /\ trie[q] # <<>>}
        Visited(order) ==
            \A i, k \in DOMAIN order : i < k =>
                /\ ~IsPrefix(order[k], order[i])
                /\ \A r \in Prefixes(order[i]) \cap Prefixes(order[k]), j \in i..k :
                      IsPrefix(r, order[j])
    IN  {FlattenSeq([k \in DOMAIN order |-> trie[order[k]]]) :
            order \in {o \in SetToSeqs(ends) : Visited(o)}}

SearchPrefix(prefix, f) ==
    IF prefix \in DOMAIN trie
    THEN {filterAndHydrate(ids, f) : ids \in CollectIDs(prefix)}
    ELSE {<<>>}

TrimSpace(s) ==
    LET ink == {i \in DOMAIN s : s[i] # Blank}
    IN  IF ink = {} THEN <<>> ELSE SubSeq(s, Min(ink), Max(ink))

\* enquire_lexicon: the keyword hits, then the prefix hits that are new.
Enquire(q, f) ==
    LET query == TrimSpace(q)
        keyword == SearchKeyword(query, f)
    IN  /\ Free
        /\ IF query = <<>>
           THEN answer' = [kind |-> "error"]
           ELSE \E prefix \in SearchPrefix(query, f) :
                  LET combined == Distinct(keyword \o prefix)
                      limit == Min({Cap, Len(combined)})
                  IN  answer' = [kind |-> "matches", query |-> query, filter |-> f,
                                 total |-> Len(combined),
                                 matches |-> SubSeq(combined, 1, limit)]
        /\ UNCHANGED <<index, walk>>

GetWordDetails(n) ==
    /\ Free
    /\ answer' = [kind |-> "details", id |-> n, word |-> words[n]]
    /\ UNCHANGED <<index, walk>>

--------------------------------------------------------------------------------
(* Etymology. *)

GetDerivations(n, direction) ==
    Within(Distinct(IF direction = "ancestors" THEN derivsSource[n] ELSE derivsTarget[n]),
           Known)

AskDerivations(n, direction) ==
    /\ Free
    /\ answer' = [kind |-> direction, id |-> n, words |-> GetDerivations(n, direction)]
    /\ UNCHANGED <<index, walk>>

\* GetRootAnchors: each frame of `stack` holds the targets its loop has not reached.
StartAnchors(n) ==
    /\ Free
    /\ walk' = [id |-> n, stack |-> <<derivsTarget[n]>>, seen |-> {}, results |-> <<>>]
    /\ UNCHANGED <<index, answer>>

Frame == Head(walk.stack)

\* traverse returns; the first call returns to the caller of the tool.
WalkReturn ==
    /\ walk # None /\ Frame = <<>>
    /\ IF Len(walk.stack) = 1
       THEN /\ walk' = None
            /\ answer' = [kind |-> "anchors", id |-> walk.id, words |-> walk.results]
       ELSE /\ walk' = [walk EXCEPT !.stack = Tail(@)]
            /\ UNCHANGED answer
    /\ UNCHANGED index

\* A mutant: the loop continues with the target it skipped.
AdvanceNot(stack) == stack

\* The loop of the innermost call goes on to the next target.
Advance(stack) == <<Tail(Head(stack))>> \o Tail(stack)

WalkSkip ==
    /\ walk # None /\ Frame # <<>> /\ Head(Frame) \in walk.seen
    /\ walk' = [walk EXCEPT !.stack = Advance(@)]
    /\ UNCHANGED <<index, answer>>

IsName(n) == words[n] # None /\ words[n].speech \in NameSpeeches

\* A mutant: only names are followed further.
FollowsNames(n) == IsName(n)

Follows(n) == words[n] # None

WalkVisit ==
    /\ walk # None /\ Frame # <<>> /\ Head(Frame) \notin walk.seen
    /\ LET t == Head(Frame)
           rest == Advance(walk.stack)
       IN  walk' = [walk EXCEPT
                      !.seen = @ \cup {t},
                      !.stack = IF Follows(t) THEN <<derivsTarget[t]>> \o rest ELSE rest,
                      !.results = IF IsName(t) THEN Append(@, t) ELSE @]
    /\ UNCHANGED <<index, answer>>

Walk == WalkReturn \/ WalkSkip \/ WalkVisit

--------------------------------------------------------------------------------
(* Naming. *)

\* The root for a concept: among the primary words, or among all when there are none.
Root(concept, lang) ==
    LET Found(category) ==
            SearchKeyword(concept, [language |-> lang, speech |-> "", category |-> category])
        candidates == IF Found("primary") # <<>> THEN Found("primary") ELSE Found("")
    IN  BestRoot([k \in DOMAIN candidates |-> words[candidates[k]]])

GenerateName(req) ==
    LET found == [k \in DOMAIN req.concepts |-> Root(req.concepts[k], req.lang)]
        roots == Within(found, ToSet(found) \ {None})
        bases == [k \in DOMAIN roots |-> BaseForm(roots[k])]
        suffix == Suffix(req.lang, req.gender)
    IN  /\ Free
        /\ answer' = IF roots = <<>> THEN [kind |-> "error"]
                     ELSE [kind |-> "name", bases |-> bases, suffix |-> suffix,
                           name |-> AppendSuffix(Compound(bases), suffix)]
        /\ UNCHANGED <<index, walk>>

\* The caller has its answer.
Rest == answer # None /\ answer' = None /\ UNCHANGED <<index, walk>>

Next ==
    \/ LoadLine
    \/ \E q \in Questions, f \in Filters : Enquire(q, f)
    \/ \E n \in Names :
          \/ GetWordDetails(n)
          \/ \E direction \in {"ancestors", "descendants"} : AskDerivations(n, direction)
          \/ StartAnchors(n)
    \/ Walk
    \/ \E req \in NameRequests : GenerateName(req)
    \/ Rest

\* A handler that walks the index is a running goroutine.
Spec == Init /\ [][Next]_vars /\ WF_vars(Walk)

--------------------------------------------------------------------------------
(* Properties. *)

\* The line makes y a descendant of x: y's line refers to x, or x's line derives y.
Derives(w, y, x) == (w.id = y /\ x \in ToSet(w.refs)) \/ (w.id = x /\ y \in ToSet(w.derivs))

Descends(y, x) == \E i \in DOMAIN file : i < next /\ Derives(file[i], y, x)

WalkState ==
    [id : Names, stack : Seq(Seq(Names)), seen : SUBSET Names, results : Seq(Names)]

\* Types.
TypeOK ==
    /\ file \in Files
    /\ next \in 1..(Len(file) + 1)
    /\ words \in [Names -> Line \cup {None}]
    /\ \A p \in DOMAIN trie : trie[p] \in Seq(Ids)
    /\ \A t \in DOMAIN inverted : inverted[t] \in Seq(Ids)
    /\ derivsSource \in [Names -> Seq(Names)]
    /\ derivsTarget \in [Names -> Seq(Names)]
    /\ walk \in WalkState \cup {None}

\* The two derivation maps say what the lines read so far say, and say it both ways.
IndexFollowsFile ==
    /\ \A n \in Names : words[n] # None <=> \E i \in DOMAIN file : i < next /\ file[i].id = n
    /\ \A n \in Known : words[n].id = n
    /\ \A x, y \in Names :
          /\ y \in ToSet(derivsTarget[x]) <=> Descends(y, x)
          /\ x \in ToSet(derivsSource[y]) <=> Descends(y, x)

\* A set that holds what descends from n and what descends from each known member.
Closed(S, n) ==
    \A x \in S \cup {n}, y \in Names :
        (x = n \/ words[x] # None) /\ Descends(y, x) => y \in S

\* What the traversal from n has to visit: the least such set.
Reach(n) == {y \in Names : \A S \in SUBSET Names : Closed(S, n) => y \in S}

PendingOf(stack) == UNION {ToSet(stack[k]) : k \in DOMAIN stack}
Pending == PendingOf(walk.stack)

AnchorsOf(S) == {y \in S : IsName(y)}

\* A traversal has seen or has pending on its stack whatever the names it followed lead
\* to, nothing else, and has listed each name it saw once.
WalkOK ==
    walk # None =>
        /\ Loaded
        /\ walk.stack # <<>>
        /\ walk.seen \cup Pending \subseteq Reach(walk.id)
        /\ \A y \in Names : Descends(y, walk.id) => y \in walk.seen \cup Pending
        /\ \A x \in walk.seen, y \in Names :
              words[x] # None /\ Descends(y, x) => y \in walk.seen \cup Pending
        /\ ToSet(walk.results) = AnchorsOf(walk.seen)
        /\ IsInjective(walk.results)

\* get_root_anchors lists the names reachable from the word over known words, each once,
\* in whatever cycles and diamonds the data is tangled.
AnchorsAreExact ==
    answer # None /\ answer.kind = "anchors" =>
        /\ ToSet(answer.words) = AnchorsOf(Reach(answer.id))
        /\ IsInjective(answer.words)

\* The maximal runs of letters of a text, longer than one, that are no stop words.
TokensOf(text) ==
    LET In(i) == i \in DOMAIN text /\ text[i] \in Letters
        Maximal(i, j) == i < j /\ ~In(i - 1) /\ ~In(j + 1) /\ \A k \in i..j : In(k)
        runs == {r \in (1..Len(text)) \X (1..Len(text)) : Maximal(r[1], r[2])}
    IN  {SubSeq(text, r[1], r[2]) : r \in runs} \ StopWords

TextOf(w) == w.word \o <<Blank>> \o w.gloss

Read == {file[i] : i \in {j \in DOMAIN file : j < next}}

IdsOf(W) == {w.id : w \in W}

\* The three search structures say what the lines read so far say: each word is found by
\* its id, below each beginning of its spelling, and under each of its tokens.
SearchFollowsFile ==
    /\ IsFiniteSet(DOMAIN trie)
    /\ \A w \in Read : /\ words[w.id] = w
                      /\ Prefixes(w.word) \subseteq DOMAIN trie
                      /\ TokensOf(TextOf(w)) \subseteq DOMAIN inverted
    /\ \A p \in DOMAIN trie : ToSet(trie[p]) = IdsOf({w \in Read : w.word = p})
    /\ \A t \in DOMAIN inverted :
          ToSet(inverted[t]) = IdsOf({w \in Read : t \in TokensOf(TextOf(w))})

\* The index answers only once it is complete.
AnswersWait == answer # None => Loaded

\* The inductive invariant of the proofs.
IInv ==
    /\ TypeOK /\ IndexFollowsFile /\ SearchFollowsFile
    /\ WalkOK /\ AnchorsAreExact /\ AnswersWait

\* get_derivations lists the known words one step away in the file, each once, and so says
\* that y descends from x exactly when it says that x is an ancestor of y.
DerivationsAreExact ==
    answer # None /\ answer.kind \in {"ancestors", "descendants"} =>
        /\ IsInjective(answer.words)
        /\ ToSet(answer.words) =
             {m \in Known : IF answer.kind = "ancestors" THEN Descends(answer.id, m)
                                                        ELSE Descends(m, answer.id)}

ByKeyword(query, f) ==
    {w \in ToSet(file) : /\ Passes(w, f) /\ TokensOf(query) # {}
                         /\ TokensOf(query) \subseteq TokensOf(TextOf(w))}

ByPrefix(query, f) == {w \in ToSet(file) : Passes(w, f) /\ IsPrefix(query, w.word)}

\* enquire_lexicon finds the words that pass the filter and either hold all tokens of the
\* query or are spelt with it as prefix: it counts all of them, shows each at most once,
\* and drops none but beyond the cap, prefix hits first.
SearchIsExact ==
    answer # None /\ answer.kind = "matches" =>
        LET byKeyword == ByKeyword(answer.query, answer.filter)
            found == byKeyword \cup ByPrefix(answer.query, answer.filter)
            shown == [k \in DOMAIN answer.matches |-> words[answer.matches[k]]]
        IN  /\ answer.total = Cardinality(found)
            /\ Len(shown) = Min({Cap, answer.total})
            /\ IsInjective(shown)
            /\ ToSet(shown) \subseteq found
            /\ \A j \in DOMAIN shown :
                  shown[j] \in byKeyword => \A i \in 1..j : shown[i] \in byKeyword

\* A started traversal ends.
WalksEnd == walk # None ~> walk = None

Consonants(s) == Len(s) - Len(Within(s, Vowels))

\* The places where one piece of a name ends and the next begins with a vowel.
Meets(pieces) == {i \in 1..(Len(pieces) - 1) : VowelsMeet(pieces[i], pieces[i + 1])}

\* Compounding loses nothing but one vowel wherever two meet: a name has the consonants
\* of its roots and its suffix, changed perhaps but none dropped.
NamesKeepConsonants ==
    answer # None /\ answer.kind = "name" =>
        LET pieces == Append(Within(answer.bases, ToSet(answer.bases) \ {<<>>}), answer.suffix)
        IN  /\ Consonants(answer.name) = Total([i \in DOMAIN pieces |-> Consonants(pieces[i])])
            /\ Len(answer.name) =
                  Total([i \in DOMAIN pieces |-> Len(pieces[i])]) - Cardinality(Meets(pieces))

\* What the use cases expect of the embedded file, whose lines name derivations by their
\* spelling: get_derivations leads from a word to the words its line names.
NamedDerivationsAreFound ==
    Loaded =>
        \A v, w \in ToSet(file) :
            (\E n \in ToSet(v.derivs) : Spelling[n] = w.word)
                => w.id \in ToSet(GetDerivations(v.id, "ancestors")
                                   \o GetDerivations(v.id, "descendants"))
================================================================================
