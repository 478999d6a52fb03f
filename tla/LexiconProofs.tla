---------------------------- MODULE LexiconProofs ----------------------------
(***************************************************************************)
(* Theorems about the lexicon, for every data file: the derivation maps say   *)
(* what the file says, and get_root_anchors is exact.                         *)
(***************************************************************************)
EXTENDS Lexicon, ListProofs

\* Copies repeats the id as often as the list has the name, so not at all or at least once.
LEMMA ElementsOfCopies ==
    ASSUME NEW list \in Seq(Names), NEW n, NEW id \in Ids
    PROVE  /\ Copies(list, n, id) \in Seq(Names)
           /\ ToSet(Copies(list, n, id)) = IF n \in ToSet(list) THEN {id} ELSE {}
<1> DEFINE at == {j \in DOMAIN list : list[j] = n}
           c == Copies(list, n, id)
<1>1. IsFiniteSet(at) /\ Cardinality(at) \in Nat
  <2>1. IsFiniteSet(1..Len(list)) /\ at \subseteq 1..Len(list)
    BY FS_Interval
  <2> QED
    BY <2>1, FS_Subset, FS_CardinalityType
<1>2. id \in Names
  BY LexiconAssumption
<1>3. c = [i \in 1..Cardinality(at) |-> id]
  BY DEF Copies
<1>4. c \in Seq(Names)
  BY <1>1, <1>2, <1>3
<1>5. at = {} <=> n \notin ToSet(list)
  BY DEF ToSet
<1>6. CASE at = {}
  <2>1. Cardinality(at) = 0
    BY <1>6, FS_EmptySet
  <2>2. ToSet(c) = {}
    BY <1>3, <2>1 DEF ToSet
  <2> QED
    BY <1>4, <1>5, <1>6, <2>2
<1>7. CASE at # {}
  <2>0. Cardinality(at) # 0
    BY <1>1, <1>7, FS_EmptySet
  <2>1. Cardinality(at) >= 1
    <3> HIDE DEF at
    <3> QED
      BY <1>1, <2>0
  <2>2. 1 \in DOMAIN c /\ \A i \in DOMAIN c : c[i] = id
    BY <1>1, <1>3, <2>1
  <2>3. ToSet(c) = {id}
    BY <2>2 DEF ToSet
  <2> QED
    BY <1>4, <1>5, <1>7, <2>3
<1> QED
  BY <1>6, <1>7
--------------------------------------------------------------------------------
(* Tokens. *)

\* The positions of a text that hold letters, and the stretches of them.
Lettered(text) == {i \in DOMAIN text : text[i] \in Letters}

Stretch(text, i, j) ==
    /\ i \in 1..Len(text) /\ j \in 1..Len(text) /\ i <= j
    /\ i - 1 \notin Lettered(text) /\ j + 1 \notin Lettered(text)
    /\ \A k \in i..j : k \in Lettered(text)

\* The tokens of a text are its stretches longer than one that are no stop words.
LEMMA TokensAreStretches ==
    ASSUME NEW E, NEW text \in Seq(E), NEW x
    PROVE  x \in TokensOf(text) <=>
              /\ x \notin StopWords
              /\ \E i, j \in 1..Len(text) :
                    i < j /\ Stretch(text, i, j) /\ x = SubSeq(text, i, j)
<1> DEFINE L == Len(text)
           In(i) == i \in DOMAIN text /\ text[i] \in Letters
           Maximal(i, j) == i < j /\ ~In(i - 1) /\ ~In(j + 1) /\ \A k \in i..j : In(k)
           runs == {r \in (1..L) \X (1..L) : Maximal(r[1], r[2])}
<1>1. TokensOf(text) = {SubSeq(text, r[1], r[2]) : r \in runs} \ StopWords
  BY DEF TokensOf
<1>2. \A i : In(i) <=> i \in Lettered(text)
  BY DEF Lettered
<1> HIDE DEF In
<1>3. L \in Nat
  OBVIOUS
<1>4. \A i, j \in 1..L : Maximal(i, j) <=> i < j /\ Stretch(text, i, j)
  BY <1>2, <1>3 DEF Stretch
<1> HIDE DEF Maximal, L
<1>5. \A i, j \in 1..L : Maximal(i, j) => <<i, j>> \in runs
  OBVIOUS
<1>6. \A r \in runs : /\ r[1] \in 1..L /\ r[2] \in 1..L
                      /\ Maximal(r[1], r[2])
  OBVIOUS
<1>7. x \in {SubSeq(text, r[1], r[2]) : r \in runs} <=>
         \E i, j \in 1..L : Maximal(i, j) /\ x = SubSeq(text, i, j)
  <2>1. ASSUME NEW i \in 1..L, NEW j \in 1..L, Maximal(i, j), x = SubSeq(text, i, j)
        PROVE  x \in {SubSeq(text, r[1], r[2]) : r \in runs}
    <3>1. PICK r \in runs : r[1] = i /\ r[2] = j
      BY <1>5, <2>1
    <3>2. QED
      BY <2>1, <3>1
  <2>2. QED
    BY <1>6, <2>1
<1>8. QED
  BY <1>1, <1>4, <1>7 DEF L

\* The end of the stretch that begins at i.
StretchEnd(text, i) == Min({j \in i..Len(text) : j + 1 \notin Lettered(text)})

LEMMA StretchEnds ==
    ASSUME NEW E, NEW text \in Seq(E), NEW i \in Lettered(text), i - 1 \notin Lettered(text)
    PROVE  /\ StretchEnd(text, i) \in i..Len(text) /\ Stretch(text, i, StretchEnd(text, i))
           /\ \A j \in 1..Len(text) : Stretch(text, i, j) => j = StretchEnd(text, i)
<1> DEFINE L == Len(text)
           e == StretchEnd(text, i)
           S == {j \in i..L : j + 1 \notin Lettered(text)}
<1>1. L \in Nat /\ i \in 1..L /\ L + 1 \notin Lettered(text)
  BY DEF Lettered
<1>2. L \in S /\ S \subseteq Nat /\ S \subseteq i..L
  BY <1>1
<1>3. e \in S /\ \A j \in S : e <= j
  <2> HIDE DEF S
  <2>1. Min(S) \in S /\ \A j \in S : Min(S) <= j
    BY <1>2, MinIsMember
  <2>2. QED
    BY <2>1 DEF S, StretchEnd
<1> HIDE DEF e
<1>4. ASSUME NEW k \in i..e PROVE k \in Lettered(text)
  <2>1. CASE k = i
    BY <2>1
  <2>2. CASE k # i
    <3>1. k - 1 \in i..L /\ ~(e <= k - 1) /\ (k - 1) + 1 = k
      BY <1>1, <1>3, <1>4, <2>2
    <3>2. k - 1 \notin S
      BY <1>3, <3>1
    <3>3. QED
      BY <3>1, <3>2
  <2>3. QED
    BY <2>1, <2>2
<1>5. e \in i..L /\ e + 1 \notin Lettered(text)
  BY <1>3
<1>6. Stretch(text, i, e)
  <2>1. i \in 1..Len(text) /\ e \in 1..Len(text) /\ i <= e
    BY <1>1, <1>5
  <2>2. QED
    BY <1>4, <1>5, <2>1 DEF Stretch
<1>7. ASSUME NEW j \in 1..L, Stretch(text, i, j) PROVE j = e
  <2>1. j \in i..L /\ j + 1 \notin Lettered(text) /\ \A k \in i..j : k \in Lettered(text)
    BY <1>1, <1>7 DEF Stretch
  <2>2. e <= j
    BY <1>3, <2>1
  <2>3. CASE e < j
    <3>1. e + 1 \in i..j
      BY <1>1, <1>3, <2>1, <2>3
    <3>2. QED
      BY <1>5, <2>1, <3>1
  <2>4. QED
    BY <1>1, <1>3, <2>1, <2>2, <2>3
<1>8. QED
  BY <1>5, <1>6, <1>7 DEF e

\* tokenize returns exactly the tokens.
LEMMA TokensFound ==
    ASSUME NEW E, NEW text \in Seq(E)
    PROVE  /\ tokenize(text) \in Seq(Seq(E))
           /\ ToSet(tokenize(text)) = TokensOf(text)
<1> DEFINE L == Len(text)
           In(i) == i \in DOMAIN text /\ text[i] \in Letters
           A == {i \in DOMAIN text : In(i) /\ ~In(i - 1)}
           starts == Positions(text, A)
           End(i) == Min({j \in i..L : ~In(j + 1)})
           runs == [k \in DOMAIN starts |-> SubSeq(text, starts[k], End(starts[k]))]
           wanted == {w \in ToSet(runs) : Len(w) > 1} \ StopWords
<1>1. tokenize(text) = Within(runs, wanted)
  BY DEF tokenize
<1>2. \A i : In(i) <=> i \in Lettered(text)
  BY DEF Lettered
<1>3. L \in Nat /\ DOMAIN text = 1..L
  OBVIOUS
<1> HIDE DEF In, L
<1>4. starts \in Seq(1..L) /\ ToSet(starts) = A
  <2> HIDE DEF A
  <2>1. starts \in Seq(1..L) /\ ToSet(starts) = (1..L) \cap A
    BY PositionsTaken DEF L
  <2>2. A \subseteq 1..L
    BY <1>3 DEF A
  <2>3. QED
    BY <2>1, <2>2
<1>5. ASSUME NEW i \in A
      PROVE  /\ i \in 1..L /\ End(i) \in i..L /\ Stretch(text, i, End(i))
             /\ \A j \in 1..L : Stretch(text, i, j) => j = End(i)
             /\ SubSeq(text, i, End(i)) \in Seq(E)
             /\ Len(SubSeq(text, i, End(i))) = End(i) - i + 1
  <2>1. i \in Lettered(text) /\ i - 1 \notin Lettered(text) /\ i \in 1..L
    BY <1>2, <1>3
  <2>2. End(i) = StretchEnd(text, i)
    BY <1>2 DEF L, StretchEnd
  <2>3. PICK e : e = End(i)
    OBVIOUS
  <2>4. /\ e \in i..L /\ Stretch(text, i, e)
        /\ \A j \in 1..L : Stretch(text, i, j) => j = e
    BY <2>1, <2>2, <2>3, StretchEnds DEF L
  <2>5. SubSeq(text, i, e) \in Seq(E) /\ Len(SubSeq(text, i, e)) = e - i + 1
    <3>1. i \in Int /\ e \in Int /\ i <= e /\ \A k \in i..e : text[k] \in E
      BY <1>3, <2>1, <2>4
    <3>2. QED
      BY <3>1, SubSeqProperties
  <2>6. QED
    BY <2>1, <2>3, <2>4, <2>5
<1> HIDE DEF End, A
<1>6. \A k \in DOMAIN starts : starts[k] \in A
  BY <1>4 DEF ToSet
<1>7. /\ runs \in Seq(Seq(E))
      /\ \A x : x \in ToSet(runs) <=> \E i \in A : x = SubSeq(text, i, End(i))
  <2>1. DOMAIN starts = 1..Len(starts) /\ Len(starts) \in Nat
    BY <1>4
  <2>2. \A k \in 1..Len(starts) : SubSeq(text, starts[k], End(starts[k])) \in Seq(E)
    BY <1>5, <1>6, <2>1
  <2>3. runs \in Seq(Seq(E))
    BY <2>1, <2>2
  <2>4. \A i \in A : \E k \in DOMAIN starts : starts[k] = i
    BY <1>4 DEF ToSet
  <2>5. QED
    BY <1>6, <2>3, <2>4 DEF ToSet
<1> HIDE DEF runs
<1>8. tokenize(text) \in Seq(Seq(E)) /\ ToSet(tokenize(text)) = ToSet(runs) \cap wanted
  <2> HIDE DEF wanted
  <2>1. QED
    BY <1>1, <1>7, ElementsOfWithin
<1>9. ASSUME NEW x PROVE x \in ToSet(runs) \cap wanted <=> x \in TokensOf(text)
  <2>1. x \in ToSet(runs) \cap wanted <=>
           x \notin StopWords /\ \E i \in A : x = SubSeq(text, i, End(i)) /\ Len(x) > 1
    BY <1>7
  <2>2. ASSUME NEW i \in A, x = SubSeq(text, i, End(i)), Len(x) > 1
        PROVE  \E a, b \in 1..L : a < b /\ Stretch(text, a, b) /\ x = SubSeq(text, a, b)
    <3>1. i \in 1..L /\ End(i) \in i..L /\ Stretch(text, i, End(i)) /\ Len(x) = End(i) - i + 1
      BY <1>5, <2>2
    <3>2. i < End(i) /\ End(i) \in 1..L
      BY <1>3, <2>2, <3>1
    <3>3. QED
      BY <2>2, <3>1, <3>2
  <2>3. ASSUME NEW a \in 1..L, NEW b \in 1..L, a < b, Stretch(text, a, b), x = SubSeq(text, a, b)
        PROVE  \E i \in A : x = SubSeq(text, i, End(i)) /\ Len(x) > 1
    <3>1. a \in Lettered(text) /\ a - 1 \notin Lettered(text)
      BY <2>3, <1>3 DEF Stretch
    <3>2. a \in A
      BY <1>2, <1>3, <3>1 DEF A
    <3>3. b = End(a) /\ Len(SubSeq(text, a, End(a))) = End(a) - a + 1
      BY <1>5, <2>3, <3>2
    <3>4. Len(x) > 1
      BY <2>3, <3>3
    <3>5. QED
      BY <2>3, <3>2, <3>3, <3>4
  <2>4. x \in TokensOf(text) <=>
           /\ x \notin StopWords
           /\ \E a, b \in 1..L : a < b /\ Stretch(text, a, b) /\ x = SubSeq(text, a, b)
    BY TokensAreStretches DEF L
  <2>5. QED
    BY <2>1, <2>2, <2>3, <2>4
<1>10. QED
  BY <1>8, <1>9
--------------------------------------------------------------------------------
(* The derivation maps. *)

\* What a line adds to the two lists of a word.
LEMMA LineAdds ==
    ASSUME NEW w \in Line, NEW x \in Names, NEW y \in Names
    PROVE  /\ TargetsAfter(w, x) \in Seq(Names)
           /\ SourcesAfter(w, y) \in Seq(Names)
           /\ y \in ToSet(TargetsAfter(w, x)) <=> Derives(w, y, x)
           /\ x \in ToSet(SourcesAfter(w, y)) <=> Derives(w, y, x)
<1>1. w.id \in Ids /\ w.refs \in Seq(Names) /\ w.derivs \in Seq(Names)
  BY DEF Line
<1> DEFINE derivs == IF x = w.id THEN w.derivs ELSE <<>>
           refs == IF y = w.id THEN w.refs ELSE <<>>
<1>2. /\ derivs \in Seq(Names)
      /\ ToSet(derivs) = IF x = w.id THEN ToSet(w.derivs) ELSE {}
  BY <1>1 DEF ToSet
<1>3. /\ refs \in Seq(Names)
      /\ ToSet(refs) = IF y = w.id THEN ToSet(w.refs) ELSE {}
  BY <1>1 DEF ToSet
<1>4. /\ TargetsAfter(w, x) \in Seq(Names)
      /\ ToSet(TargetsAfter(w, x)) =
            (IF x \in ToSet(w.refs) THEN {w.id} ELSE {}) \cup ToSet(derivs)
  <2> HIDE DEF derivs
  <2>1. /\ Copies(w.refs, x, w.id) \in Seq(Names)
        /\ ToSet(Copies(w.refs, x, w.id)) = IF x \in ToSet(w.refs) THEN {w.id} ELSE {}
    BY <1>1, ElementsOfCopies
  <2>2. TargetsAfter(w, x) = Copies(w.refs, x, w.id) \o derivs
    BY DEF TargetsAfter, derivs
  <2> QED
    BY <1>2, <2>1, <2>2, ElementsOfConcat
<1>5. /\ SourcesAfter(w, y) \in Seq(Names)
      /\ ToSet(SourcesAfter(w, y)) =
            ToSet(refs) \cup (IF y \in ToSet(w.derivs) THEN {w.id} ELSE {})
  <2> HIDE DEF refs
  <2>1. /\ Copies(w.derivs, y, w.id) \in Seq(Names)
        /\ ToSet(Copies(w.derivs, y, w.id)) = IF y \in ToSet(w.derivs) THEN {w.id} ELSE {}
    BY <1>1, ElementsOfCopies
  <2>2. SourcesAfter(w, y) = refs \o Copies(w.derivs, y, w.id)
    BY DEF SourcesAfter, refs
  <2> QED
    BY <1>3, <2>1, <2>2, ElementsOfConcat
<1>6. y \in ToSet(TargetsAfter(w, x)) <=> Derives(w, y, x)
  BY <1>2, <1>4 DEF Derives
<1>7. x \in ToSet(SourcesAfter(w, y)) <=> Derives(w, y, x)
  BY <1>3, <1>5 DEF Derives
<1> QED
  BY <1>4, <1>5, <1>6, <1>7

--------------------------------------------------------------------------------
(* The search structures. *)

\* The beginnings of a text: finitely many, the text itself among them.
LEMMA PrefixesOfText ==
    ASSUME NEW E, NEW s \in Seq(E)
    PROVE  /\ IsFiniteSet(Prefixes(s)) /\ s \in Prefixes(s)
           /\ \A p \in Seq(E) : IsPrefix(p, s) => p \in Prefixes(s)
<1> DEFINE N == Len(s)
           P == Prefixes(s)
           f == [l \in 0..N |-> SubSeq(s, 1, l)]
<1>1. N \in Nat /\ N \in 0..N /\ SubSeq(s, 1, N) = s
  BY SubSeqFull
<1>2. P = {SubSeq(s, 1, l) : l \in 0..N}
  BY DEF Prefixes
<1> HIDE DEF N, P
<1>3. IsFiniteSet(P)
  <2>1. f \in [0..N -> P] /\ \A p \in P : \E l \in 0..N : f[l] = p
    BY <1>2
  <2> HIDE DEF f
  <2>2. f \in Surjection(0..N, P)
    BY <2>1 DEF Surjection
  <2>3. IsFiniteSet(0..N)
    BY <1>1, FS_Interval
  <2>4. QED
    BY <2>2, <2>3, FS_Surjection
<1>4. s \in P
  BY <1>1, <1>2
<1>5. ASSUME NEW p \in Seq(E), IsPrefix(p, s) PROVE p \in P
  <2>1. Len(p) \in 0..N /\ SubSeq(p, 1, Len(p)) = SubSeq(s, 1, Len(p))
    BY <1>1, <1>5 DEF IsPrefix, N
  <2>2. SubSeq(p, 1, Len(p)) = p
    BY SubSeqFull
  <2>3. QED
    BY <1>2, <2>1, <2>2
<1>6. QED
  BY <1>3, <1>4, <1>5 DEF P

\* The text that a line is found by.
Text == Seq(STRING \cup {Blank})

LEMMA TextOfLine ==
    ASSUME NEW w \in Line
    PROVE  /\ TextOf(w) \in Text /\ w.word \in Seq(STRING) /\ w.id \in Ids
           /\ ToSet(tokenize(TextOf(w))) = TokensOf(TextOf(w))
<1> DEFINE S == STRING \cup {Blank}
<1>1. w.word \in Seq(STRING) /\ w.gloss \in Seq(STRING) /\ w.id \in Ids
  BY DEF Line
<1>2. \A i \in 1..Len(w.word) : w.word[i] \in S
  BY <1>1
<1>3. \A i \in 1..Len(w.gloss) : w.gloss[i] \in S
  BY <1>1
<1>4. w.word \in Seq(S) /\ w.gloss \in Seq(S) /\ <<Blank>> \in Seq(S)
  BY <1>1, <1>2, <1>3
<1>5. TextOf(w) \in Seq(S)
  <2> HIDE DEF S
  <2>1. w.word \o <<Blank>> \in Seq(S)
    BY <1>4
  <2>2. QED
    BY <1>4, <2>1 DEF TextOf
<1> HIDE DEF S
<1>6. ToSet(tokenize(TextOf(w))) = TokensOf(TextOf(w))
  BY <1>5, TokensFound
<1>7. QED
  BY <1>1, <1>5, <1>6 DEF Text, S

\* A line that is read is of the file.
LEMMA ReadLines ==
    ASSUME IInv
    PROVE  Read \subseteq Line /\ Read \subseteq ToSet(file)
<1>1. file \in Seq(Line)
  BY LexiconAssumption DEF IInv, TypeOK
<1>2. QED
  BY <1>1 DEF Read, ToSet

\* Reading a line keeps what is said of the search structures.
LEMMA LoadLineFollows ==
    ASSUME IInv, LoadLine
    PROVE  SearchFollowsFile'
<1> DEFINE w == file[next]
<1>1. /\ file \in Seq(Line) /\ IdsDiffer(file) /\ next \in DOMAIN file /\ next \in Nat
      /\ DOMAIN file = 1..Len(file) /\ w \in Line
  <2>1. file \in Seq(Line) /\ IdsDiffer(file)
    BY LexiconAssumption DEF IInv, TypeOK
  <2>2. QED
    BY <2>1 DEF IInv, TypeOK, LoadLine, Loaded
<1>2. /\ next' = next + 1 /\ file' = file
      /\ words' = [words EXCEPT ![w.id] = w]
      /\ trie' = Insert(trie, w.word, w.id)
      /\ inverted' = File(inverted, ToSet(tokenize(TextOf(w))), w.id)
  BY DEF LoadLine, TextOf
<1>3. /\ TextOf(w) \in Text /\ w.word \in Seq(STRING) /\ w.id \in Ids /\ w.id \in Names
      /\ ToSet(tokenize(TextOf(w))) = TokensOf(TextOf(w))
  BY <1>1, TextOfLine, LexiconAssumption
<1>4. Read' = Read \cup {w}
  <2>1. \A i \in DOMAIN file : i < next' <=> i < next \/ i = next
    BY <1>1, <1>2
  <2>2. QED
    BY <1>1, <1>2, <2>1 DEF Read
<1>5. \A v \in Read : v.id # w.id
  <2>1. \A i \in DOMAIN file : i < next => file[i].id # file[next].id
    BY <1>1 DEF IdsDiffer
  <2>2. QED
    BY <2>1 DEF Read
<1> HIDE DEF w
<1>6. Read \subseteq Line
  BY ReadLines
<1>7. /\ IsFiniteSet(Prefixes(w.word)) /\ w.word \in Prefixes(w.word)
      /\ \A v \in Read : v.word \in Prefixes(v.word) /\ v.id \in Names
  <2>1. \A v \in Read : v.word \in Seq(STRING) /\ v.id \in Names
    BY <1>6, LexiconAssumption DEF Line
  <2>2. QED
    BY <1>3, <2>1, PrefixesOfText
<1>8. /\ IsFiniteSet(DOMAIN trie)
      /\ \A v \in Read : /\ words[v.id] = v
                         /\ Prefixes(v.word) \subseteq DOMAIN trie
                         /\ TokensOf(TextOf(v)) \subseteq DOMAIN inverted
      /\ \A p \in DOMAIN trie : ToSet(trie[p]) = IdsOf({v \in Read : v.word = p})
      /\ \A t \in DOMAIN inverted :
            ToSet(inverted[t]) = IdsOf({v \in Read : t \in TokensOf(TextOf(v))})
      /\ \A p \in DOMAIN trie : trie[p] \in Seq(Ids)
      /\ \A t \in DOMAIN inverted : inverted[t] \in Seq(Ids)
      /\ words \in [Names -> Line \cup {None}]
  BY DEF IInv, TypeOK, SearchFollowsFile
<1>9. \A v \in Read \cup {w} : words'[v.id] = v
  BY <1>2, <1>3, <1>5, <1>7, <1>8
<1>10. /\ ToSet(<<>>) = {} /\ ToSet(<<w.id>>) = {w.id}
       /\ <<>> \in Seq(Ids) /\ <<w.id>> \in Seq(Ids)
  BY <1>3 DEF ToSet
<1>11. DOMAIN trie' = DOMAIN trie \cup Prefixes(w.word)
  BY <1>2 DEF Insert
<1>12. IsFiniteSet(DOMAIN trie')
  <2>1. PICK A, B : A = DOMAIN trie /\ B = Prefixes(w.word)
    OBVIOUS
  <2>2. IsFiniteSet(A) /\ IsFiniteSet(B)
    BY <1>7, <1>8, <2>1
  <2>3. IsFiniteSet(A \cup B)
    BY <2>2, FS_Union
  <2>4. QED
    BY <1>11, <2>1, <2>3
<1>13. ASSUME NEW p \in DOMAIN trie'
       PROVE  ToSet(trie'[p]) = IdsOf({v \in Read \cup {w} : v.word = p})
  <2>1. PICK a, b : /\ a = (IF p \in DOMAIN trie THEN trie[p] ELSE <<>>)
                    /\ b = (IF p = w.word THEN <<w.id>> ELSE <<>>)
    OBVIOUS
  <2>2. trie'[p] = a \o b
    BY <1>2, <1>13, <2>1 DEF Insert
  <2>3. a \in Seq(Ids) /\ ToSet(a) = IdsOf({v \in Read : v.word = p})
    <3>1. CASE p \in DOMAIN trie
      BY <1>8, <2>1, <3>1
    <3>2. CASE p \notin DOMAIN trie
      <4>1. {v \in Read : v.word = p} = {}
        BY <1>7, <1>8, <3>2
      <4>2. QED
        BY <1>10, <2>1, <3>2, <4>1 DEF IdsOf
    <3>3. QED
      BY <3>1, <3>2
  <2>4. b \in Seq(Ids) /\ ToSet(b) = IdsOf({v \in {w} : v.word = p})
    BY <1>10, <2>1 DEF IdsOf
  <2>5. ToSet(trie'[p]) = ToSet(a) \cup ToSet(b)
    <3>1. a \in Seq(Ids) /\ b \in Seq(Ids)
      BY <2>3, <2>4
    <3>2. ToSet(a \o b) = ToSet(a) \cup ToSet(b)
      BY <3>1, ElementsOfConcat
    <3>3. QED
      BY <2>2, <3>2
  <2>6. QED
    BY <2>3, <2>4, <2>5 DEF IdsOf
<1>14. DOMAIN inverted' = DOMAIN inverted \cup TokensOf(TextOf(w))
  BY <1>2, <1>3 DEF File
<1>15. ASSUME NEW t \in DOMAIN inverted'
       PROVE  ToSet(inverted'[t]) = IdsOf({v \in Read \cup {w} : t \in TokensOf(TextOf(v))})
  <2>1. PICK a, b : /\ a = (IF t \in DOMAIN inverted THEN inverted[t] ELSE <<>>)
                    /\ b = (IF t \in TokensOf(TextOf(w)) THEN <<w.id>> ELSE <<>>)
    OBVIOUS
  <2>2. inverted'[t] = a \o b
    BY <1>2, <1>3, <1>15, <2>1 DEF File
  <2>3. a \in Seq(Ids) /\ ToSet(a) = IdsOf({v \in Read : t \in TokensOf(TextOf(v))})
    <3>1. CASE t \in DOMAIN inverted
      BY <1>8, <2>1, <3>1
    <3>2. CASE t \notin DOMAIN inverted
      <4>1. {v \in Read : t \in TokensOf(TextOf(v))} = {}
        BY <1>8, <3>2
      <4>2. QED
        BY <1>10, <2>1, <3>2, <4>1 DEF IdsOf
    <3>3. QED
      BY <3>1, <3>2
  <2>4. b \in Seq(Ids) /\ ToSet(b) = IdsOf({v \in {w} : t \in TokensOf(TextOf(v))})
    BY <1>10, <2>1 DEF IdsOf
  <2>5. ToSet(inverted'[t]) = ToSet(a) \cup ToSet(b)
    <3>1. a \in Seq(Ids) /\ b \in Seq(Ids)
      BY <2>3, <2>4
    <3>2. ToSet(a \o b) = ToSet(a) \cup ToSet(b)
      BY <3>1, ElementsOfConcat
    <3>3. QED
      BY <2>2, <3>2
  <2>6. QED
    BY <2>3, <2>4, <2>5 DEF IdsOf
<1>16. \A v \in Read \cup {w} : /\ Prefixes(v.word) \subseteq DOMAIN trie'
                               /\ TokensOf(TextOf(v)) \subseteq DOMAIN inverted'
  BY <1>8, <1>11, <1>14
<1>17. QED
  BY <1>4, <1>9, <1>12, <1>13, <1>15, <1>16 DEF SearchFollowsFile

\* Reading a line keeps the invariant.
LEMMA LoadLineKeeps ==
    ASSUME IInv, LoadLine
    PROVE  IInv'
<1> DEFINE w == file[next]
<1>1. /\ file \in Files /\ file \in Seq(Line) /\ IdsDiffer(file)
      /\ next \in DOMAIN file /\ next \in Nat /\ DOMAIN file = 1..Len(file)
      /\ w \in Line /\ w.id \in Ids /\ w.id \in Names /\ w.word \in Seq(STRING)
      /\ w # None
  <2>1. file \in Files /\ file \in Seq(Line) /\ IdsDiffer(file)
    BY LexiconAssumption DEF IInv, TypeOK
  <2>2. next \in DOMAIN file /\ next \in Nat /\ DOMAIN file = 1..Len(file)
    BY <2>1 DEF IInv, TypeOK, LoadLine, Loaded
  <2>3. w \in Line
    BY <2>1, <2>2
  <2> QED
    BY <2>1, <2>2, <2>3, LexiconAssumption DEF Line
<1>2. /\ next' = next + 1 /\ words' = [words EXCEPT ![w.id] = w]
      /\ trie' = Insert(trie, w.word, w.id)
      /\ derivsSource' = [n \in Names |-> derivsSource[n] \o SourcesAfter(w, n)]
      /\ derivsTarget' = [n \in Names |-> derivsTarget[n] \o TargetsAfter(w, n)]
      /\ inverted' = File(inverted, ToSet(tokenize(w.word \o <<Blank>> \o w.gloss)), w.id)
      /\ file' = file /\ walk' = walk /\ answer' = answer
  BY DEF LoadLine
<1>3. walk = None /\ answer = None
  BY DEF IInv, WalkOK, AnswersWait, LoadLine
<1> HIDE DEF w
<1>4. \A i \in DOMAIN file : i < next' <=> i < next \/ i = next
  BY <1>1, <1>2
<1>5. \A x, y \in Names : Descends(y, x)' <=> Descends(y, x) \/ Derives(w, y, x)
  BY <1>1, <1>2, <1>4 DEF Descends, Derives, w
<1>6. /\ derivsSource' \in [Names -> Seq(Names)]
      /\ derivsTarget' \in [Names -> Seq(Names)]
      /\ \A x, y \in Names :
            /\ y \in ToSet(derivsTarget'[x]) <=> Descends(y, x)'
            /\ x \in ToSet(derivsSource'[y]) <=> Descends(y, x)'
  <2>1. SUFFICES ASSUME NEW x \in Names, NEW y \in Names
                 PROVE  /\ derivsSource'[y] \in Seq(Names)
                        /\ derivsTarget'[x] \in Seq(Names)
                        /\ y \in ToSet(derivsTarget'[x]) <=> Descends(y, x)'
                        /\ x \in ToSet(derivsSource'[y]) <=> Descends(y, x)'
    BY <1>2
  <2>2. /\ derivsSource[y] \in Seq(Names) /\ derivsTarget[x] \in Seq(Names)
        /\ y \in ToSet(derivsTarget[x]) <=> Descends(y, x)
        /\ x \in ToSet(derivsSource[y]) <=> Descends(y, x)
    BY DEF IInv, TypeOK, IndexFollowsFile
  <2>3. /\ TargetsAfter(w, x) \in Seq(Names)
        /\ SourcesAfter(w, y) \in Seq(Names)
        /\ y \in ToSet(TargetsAfter(w, x)) <=> Derives(w, y, x)
        /\ x \in ToSet(SourcesAfter(w, y)) <=> Derives(w, y, x)
    BY <1>1, LineAdds
  <2>4. /\ derivsTarget'[x] = derivsTarget[x] \o TargetsAfter(w, x)
        /\ derivsSource'[y] = derivsSource[y] \o SourcesAfter(w, y)
    BY <1>2
  <2>5. /\ derivsTarget'[x] \in Seq(Names)
        /\ ToSet(derivsTarget'[x]) = ToSet(derivsTarget[x]) \cup ToSet(TargetsAfter(w, x))
    BY <2>2, <2>3, <2>4, ElementsOfConcat
  <2>6. /\ derivsSource'[y] \in Seq(Names)
        /\ ToSet(derivsSource'[y]) = ToSet(derivsSource[y]) \cup ToSet(SourcesAfter(w, y))
    BY <2>2, <2>3, <2>4, ElementsOfConcat
  <2> QED
    BY <1>5, <2>2, <2>3, <2>5, <2>6
<1>7. /\ words' \in [Names -> Line \cup {None}]
      /\ \A n \in Names : words'[n] = IF n = w.id THEN w ELSE words[n]
  BY <1>1, <1>2 DEF IInv, TypeOK
<1>8. \A n \in Names : words'[n] # None <=> \E i \in DOMAIN file : i < next' /\ file[i].id = n
  <2>1. \A n \in Names : words[n] # None <=> \E i \in DOMAIN file : i < next /\ file[i].id = n
    BY DEF IInv, IndexFollowsFile
  <2> QED
    BY <1>1, <1>4, <1>7, <2>1 DEF w
<1>9. \A n \in Names : words'[n] # None => words'[n].id = n
  BY <1>7 DEF IInv, IndexFollowsFile, Known
<1>10. \A p \in DOMAIN trie' : trie'[p] \in Seq(Ids)
  <2>1. SUFFICES ASSUME NEW p \in DOMAIN trie'
                 PROVE  trie'[p] \in Seq(Ids)
    OBVIOUS
  <2>2. trie'[p] = (IF p \in DOMAIN trie THEN trie[p] ELSE <<>>)
                   \o (IF p = w.word THEN <<w.id>> ELSE <<>>)
    BY <1>2, <2>1 DEF Insert
  <2>3. /\ (IF p \in DOMAIN trie THEN trie[p] ELSE <<>>) \in Seq(Ids)
        /\ (IF p = w.word THEN <<w.id>> ELSE <<>>) \in Seq(Ids)
    BY <1>1 DEF IInv, TypeOK
  <2> QED
    BY <2>2, <2>3, ElementsOfConcat
<1>11. \A t \in DOMAIN inverted' : inverted'[t] \in Seq(Ids)
  <2> DEFINE keys == ToSet(tokenize(w.word \o <<Blank>> \o w.gloss))
  <2> HIDE DEF keys
  <2>1. SUFFICES ASSUME NEW t \in DOMAIN inverted'
                 PROVE  inverted'[t] \in Seq(Ids)
    OBVIOUS
  <2>2. inverted'[t] = (IF t \in DOMAIN inverted THEN inverted[t] ELSE <<>>)
                       \o (IF t \in keys THEN <<w.id>> ELSE <<>>)
    BY <1>2, <2>1 DEF File, keys
  <2>3. /\ (IF t \in DOMAIN inverted THEN inverted[t] ELSE <<>>) \in Seq(Ids)
        /\ (IF t \in keys THEN <<w.id>> ELSE <<>>) \in Seq(Ids)
    BY <1>1 DEF IInv, TypeOK
  <2> QED
    BY <2>2, <2>3, ElementsOfConcat
<1>12. TypeOK'
  <2>1. next' \in 1..(Len(file') + 1)
    BY <1>1, <1>2
  <2> QED
    BY <1>1, <1>2, <1>3, <1>6, <1>7, <1>10, <1>11, <2>1 DEF TypeOK
<1>13. IndexFollowsFile'
  BY <1>2, <1>6, <1>8, <1>9 DEF IndexFollowsFile, Known
<1>14. WalkOK' /\ AnchorsAreExact' /\ AnswersWait'
  BY <1>2, <1>3 DEF WalkOK, AnchorsAreExact, AnswersWait
<1> QED
  BY <1>12, <1>13, <1>14, LoadLineFollows DEF IInv
--------------------------------------------------------------------------------
(* The traversal. *)

\* What is reachable depends on the index alone.
LEMMA IndexDecides ==
    ASSUME UNCHANGED index
    PROVE  /\ \A x, y : Descends(y, x)' <=> Descends(y, x)
           /\ \A n : Reach(n)' = Reach(n)
           /\ \A S : AnchorsOf(S)' = AnchorsOf(S)
           /\ Loaded' <=> Loaded
BY DEF index, Descends, Derives, Reach, Closed, AnchorsOf, IsName, Loaded

\* A step that leaves the index alone keeps what is said of the index.
LEMMA IndexKept ==
    ASSUME IInv, UNCHANGED index,
           walk' \in WalkState \cup {None}, WalkOK', AnchorsAreExact', AnswersWait'
    PROVE  IInv'
<1>1. TypeOK'
  BY DEF IInv, TypeOK, index
<1>2. IndexFollowsFile'
  BY IndexDecides DEF IInv, IndexFollowsFile, Known, index
<1>3. SearchFollowsFile'
  BY DEF IInv, SearchFollowsFile, Read, index
<1> QED
  BY <1>1, <1>2, <1>3 DEF IInv

\* The least closed set is closed.
LEMMA ReachIsClosed ==
    ASSUME NEW n
    PROVE  Closed(Reach(n), n)
<1> SUFFICES ASSUME NEW x \in Reach(n) \cup {n}, NEW y \in Names,
                    x = n \/ words[x] # None, Descends(y, x),
                    NEW S \in SUBSET Names, Closed(S, n)
             PROVE  y \in S
  BY DEF Closed, Reach
<1>1. x \in S \cup {n}
  BY DEF Reach
<1> QED
  BY <1>1 DEF Closed

\* What is pending with one more frame on the stack.
LEMMA PendingPush ==
    ASSUME NEW f \in Seq(Names), NEW rest \in Seq(Seq(Names))
    PROVE  /\ <<f>> \o rest \in Seq(Seq(Names)) /\ <<f>> \o rest # <<>>
           /\ PendingOf(<<f>> \o rest) = ToSet(f) \cup PendingOf(rest)
<1> DEFINE s == <<f>> \o rest
<1>1. /\ s \in Seq(Seq(Names))
      /\ DOMAIN s = 1..(Len(rest) + 1) /\ Len(rest) \in Nat /\ DOMAIN rest = 1..Len(rest)
      /\ s[1] = f
      /\ \A i \in 1..Len(rest) : s[i + 1] = rest[i]
  OBVIOUS
<1>2. s # <<>>
  BY <1>1
<1>3. ASSUME NEW i \in DOMAIN s
      PROVE  ToSet(s[i]) \subseteq ToSet(f) \cup PendingOf(rest)
  <2>1. CASE i = 1
    BY <1>1, <2>1
  <2>2. CASE i # 1
    <3>1. i - 1 \in DOMAIN rest /\ s[i] = rest[i - 1]
      BY <1>1, <1>3, <2>2
    <3> QED
      BY <3>1 DEF PendingOf
  <2> QED
    BY <2>1, <2>2
<1>4. ToSet(f) \subseteq PendingOf(s)
  BY <1>1 DEF PendingOf
<1>5. ASSUME NEW i \in DOMAIN rest
      PROVE  ToSet(rest[i]) \subseteq PendingOf(s)
  <2>1. i + 1 \in DOMAIN s /\ s[i + 1] = rest[i]
    BY <1>1, <1>5
  <2> QED
    BY <2>1 DEF PendingOf
<1>6. PendingOf(s) \subseteq ToSet(f) \cup PendingOf(rest)
  BY <1>3 DEF PendingOf
<1>7. PendingOf(rest) \subseteq PendingOf(s)
  BY <1>5 DEF PendingOf
<1> QED
  BY <1>1, <1>2, <1>4, <1>6, <1>7

\* What is pending on a stack that is not empty.
LEMMA PendingPop ==
    ASSUME NEW s \in Seq(Seq(Names)), s # <<>>
    PROVE  /\ Head(s) \in Seq(Names) /\ Tail(s) \in Seq(Seq(Names))
           /\ PendingOf(s) = ToSet(Head(s)) \cup PendingOf(Tail(s))
<1>1. /\ Head(s) \in Seq(Names) /\ Tail(s) \in Seq(Seq(Names))
      /\ s = <<Head(s)>> \o Tail(s)
  OBVIOUS
<1> QED
  BY <1>1, PendingPush

\* What is pending once the loop goes on.
LEMMA PendingAdvance ==
    ASSUME NEW s \in Seq(Seq(Names)), s # <<>>, Head(s) # <<>>
    PROVE  /\ Advance(s) \in Seq(Seq(Names)) /\ Advance(s) # <<>>
           /\ Head(Head(s)) \in Names
           /\ PendingOf(s) = {Head(Head(s))} \cup PendingOf(Advance(s))
<1>1. /\ Head(s) \in Seq(Names) /\ Tail(s) \in Seq(Seq(Names))
      /\ PendingOf(s) = ToSet(Head(s)) \cup PendingOf(Tail(s))
  BY PendingPop
<1>2. /\ Head(Head(s)) \in Names /\ Tail(Head(s)) \in Seq(Names)
      /\ ToSet(Head(s)) = {Head(Head(s))} \cup ToSet(Tail(Head(s)))
  BY <1>1, ElementsOfHeadTail
<1>3. /\ Advance(s) \in Seq(Seq(Names)) /\ Advance(s) # <<>>
      /\ PendingOf(Advance(s)) = ToSet(Tail(Head(s))) \cup PendingOf(Tail(s))
  BY <1>1, <1>2, PendingPush DEF Advance
<1> QED
  BY <1>1, <1>2, <1>3

\* What holds while a traversal runs.
LEMMA WalkFacts ==
    ASSUME IInv, walk # None
    PROVE  /\ walk = [id |-> walk.id, stack |-> walk.stack, seen |-> walk.seen,
                      results |-> walk.results]
           /\ walk.id \in Names /\ walk.stack \in Seq(Seq(Names)) /\ walk.stack # <<>>
           /\ walk.seen \subseteq Names /\ walk.results \in Seq(Names)
           /\ Loaded
BY DEF IInv, TypeOK, WalkOK, WalkState

\* Starting a traversal.
LEMMA StartAnchorsKeeps ==
    ASSUME IInv, NEW n \in Names, StartAnchors(n)
    PROVE  IInv'
<1>1. /\ UNCHANGED index /\ answer' = answer /\ Loaded /\ answer = None
      /\ walk' = [id |-> n, stack |-> <<derivsTarget[n]>>, seen |-> {}, results |-> <<>>]
  BY DEF StartAnchors, Free
<1>2. derivsTarget[n] \in Seq(Names) /\ <<derivsTarget[n]>> \in Seq(Seq(Names))
  BY DEF IInv, TypeOK
<1>3. walk' \in WalkState
  BY <1>1, <1>2 DEF WalkState
<1>4. PendingOf(walk'.stack) = ToSet(derivsTarget[n])
  <2>1. DOMAIN walk'.stack = {1} /\ walk'.stack[1] = derivsTarget[n]
    BY <1>1
  <2> QED
    BY <2>1 DEF PendingOf
<1>5. \A y \in Names : y \in ToSet(derivsTarget[n]) <=> Descends(y, n)
  BY DEF IInv, IndexFollowsFile
<1>6. ToSet(derivsTarget[n]) \subseteq Names
  BY <1>2 DEF ToSet
<1>7. ToSet(derivsTarget[n]) \subseteq Reach(n)
  BY <1>5, <1>6, ReachIsClosed DEF Closed
<1>8. ToSet(<<>>) = {} /\ IsInjective(<<>>) /\ AnchorsOf({}) = {}
  BY DEF ToSet, IsInjective, AnchorsOf
<1>9. WalkOK'
  <2>1. walk'.id = n /\ walk'.seen = {} /\ walk'.results = <<>> /\ walk'.stack # <<>>
    BY <1>1
  <2> QED
    BY <1>1, <1>4, <1>5, <1>6, <1>7, <1>8, <2>1, IndexDecides DEF WalkOK, Pending
<1>10. AnchorsAreExact' /\ AnswersWait'
  BY <1>1 DEF AnchorsAreExact, AnswersWait
<1> QED
  BY <1>1, <1>3, <1>9, <1>10, IndexKept

\* Taking from the stack what was seen already.
LEMMA WalkShrinks ==
    ASSUME IInv, walk # None, UNCHANGED <<index, answer>>,
           NEW stack \in Seq(Seq(Names)), stack # <<>>,
           walk' = [walk EXCEPT !.stack = stack],
           PendingOf(stack) \subseteq Pending,
           Pending \subseteq PendingOf(stack) \cup walk.seen
    PROVE  IInv'
<1>1. /\ walk.id \in Names /\ walk.seen \subseteq Names /\ walk.results \in Seq(Names)
      /\ Loaded
      /\ walk' = [id |-> walk.id, stack |-> stack, seen |-> walk.seen,
                  results |-> walk.results]
  BY WalkFacts
<1>2. walk' \in WalkState
  BY <1>1 DEF WalkState
<1>3. /\ walk'.id = walk.id /\ walk'.seen = walk.seen /\ walk'.results = walk.results
      /\ walk'.stack = stack
  BY <1>1
<1>4. WalkOK'
  BY <1>1, <1>3, IndexDecides DEF IInv, WalkOK, Pending, index
<1>5. AnchorsAreExact' /\ AnswersWait'
  BY IndexDecides DEF IInv, AnchorsAreExact, AnswersWait
<1> QED
  BY <1>2, <1>4, <1>5, IndexKept

\* Passing over a target already seen.
LEMMA WalkSkipKeeps ==
    ASSUME IInv, WalkSkip
    PROVE  IInv'
<1>1. /\ walk # None /\ Head(walk.stack) # <<>> /\ Head(Head(walk.stack)) \in walk.seen
      /\ UNCHANGED <<index, answer>>
      /\ walk' = [walk EXCEPT !.stack = Advance(walk.stack)]
  BY DEF WalkSkip, Frame
<1>2. walk.stack \in Seq(Seq(Names)) /\ walk.stack # <<>>
  BY <1>1, WalkFacts
<1>3. /\ Advance(walk.stack) \in Seq(Seq(Names)) /\ Advance(walk.stack) # <<>>
      /\ Pending = {Head(Head(walk.stack))} \cup PendingOf(Advance(walk.stack))
  BY <1>1, <1>2, PendingAdvance DEF Pending
<1> QED
  BY <1>1, <1>3, WalkShrinks

\* The end of a call of traverse.
LEMMA WalkReturnKeeps ==
    ASSUME IInv, WalkReturn
    PROVE  IInv'
<1>1. walk # None /\ Head(walk.stack) = <<>> /\ UNCHANGED index
  BY DEF WalkReturn, Frame
<1>2. /\ walk.stack \in Seq(Seq(Names)) /\ walk.stack # <<>> /\ Loaded
      /\ walk.id \in Names /\ walk.seen \subseteq Names
  BY <1>1, WalkFacts
<1>3. /\ Tail(walk.stack) \in Seq(Seq(Names))
      /\ Pending = PendingOf(Tail(walk.stack))
  <2>1. ToSet(<<>>) = {}
    BY DEF ToSet
  <2> QED
    BY <1>1, <1>2, <2>1, PendingPop DEF Pending
<1>4. CASE Len(walk.stack) = 1
  <2>1. /\ walk' = None
        /\ answer' = [kind |-> "anchors", id |-> walk.id, words |-> walk.results]
    BY <1>4 DEF WalkReturn
  <2>2. Pending = {}
    <3>1. Len(Tail(walk.stack)) = 0
      BY <1>2, <1>4
    <3> QED
      BY <1>3, <3>1 DEF PendingOf
  <2>3. Closed(walk.seen, walk.id)
    BY <1>1, <1>2, <2>2 DEF IInv, WalkOK, Closed
  <2>4. walk.seen = Reach(walk.id)
    <3>1. Reach(walk.id) \subseteq walk.seen
      BY <1>2, <2>3 DEF Reach
    <3>2. walk.seen \subseteq Reach(walk.id)
      BY <1>1 DEF IInv, WalkOK
    <3> QED
      BY <3>1, <3>2
  <2>5. ToSet(walk.results) = AnchorsOf(Reach(walk.id)) /\ IsInjective(walk.results)
    BY <1>1, <2>4 DEF IInv, WalkOK
  <2>6. AnchorsAreExact'
    <3>1. answer'.id = walk.id /\ answer'.words = walk.results
      BY <2>1
    <3> QED
      BY <1>1, <2>5, <3>1, IndexDecides DEF AnchorsAreExact
  <2>7. WalkOK' /\ AnswersWait'
    BY <1>1, <1>2, <2>1, IndexDecides DEF WalkOK, AnswersWait
  <2> QED
    BY <1>1, <2>1, <2>6, <2>7, IndexKept
<1>5. CASE Len(walk.stack) # 1
  <2>1. /\ walk' = [walk EXCEPT !.stack = Tail(walk.stack)]
        /\ UNCHANGED <<index, answer>>
    BY <1>5 DEF WalkReturn
  <2>2. Tail(walk.stack) # <<>>
    <3>1. /\ Len(walk.stack) \in Nat \ {0}
          /\ Len(Tail(walk.stack)) = Len(walk.stack) - 1
      BY <1>2
    <3>2. Len(Tail(walk.stack)) # 0
      BY <1>5, <3>1
    <3>3. Len(<<>>) = 0
      OBVIOUS
    <3> QED
      BY <3>2, <3>3
  <2> QED
    BY <1>1, <1>3, <2>1, <2>2, WalkShrinks
<1> QED
  BY <1>4, <1>5

\* Visiting a target for the first time.
LEMMA WalkVisitKeeps ==
    ASSUME IInv, WalkVisit
    PROVE  IInv'
<1> DEFINE t == Head(Head(walk.stack))
           rest == Advance(walk.stack)
           stack == IF words[t] # None THEN <<derivsTarget[t]>> \o rest ELSE rest
           seen == walk.seen \cup {t}
           results == IF IsName(t) THEN Append(walk.results, t) ELSE walk.results
<1>1. /\ walk # None /\ Head(walk.stack) # <<>> /\ t \notin walk.seen
      /\ UNCHANGED <<index, answer>>
  BY DEF WalkVisit, Frame
<1>2. /\ walk.stack \in Seq(Seq(Names)) /\ walk.stack # <<>> /\ Loaded
      /\ walk.id \in Names /\ walk.seen \subseteq Names /\ walk.results \in Seq(Names)
  BY <1>1, WalkFacts
<1>3. walk' = [id |-> walk.id, stack |-> stack, seen |-> seen, results |-> results]
  BY <1>1, WalkFacts DEF WalkVisit, Frame, Follows
<1>4. /\ rest \in Seq(Seq(Names)) /\ rest # <<>> /\ t \in Names
      /\ Pending = {t} \cup PendingOf(rest)
  BY <1>1, <1>2, PendingAdvance DEF Pending
<1> HIDE DEF t, rest
<1>5. derivsTarget[t] \in Seq(Names) /\ ToSet(derivsTarget[t]) \subseteq Names
  BY <1>4 DEF IInv, TypeOK, ToSet
<1>6. /\ stack \in Seq(Seq(Names)) /\ stack # <<>>
      /\ PendingOf(stack) = (IF words[t] # None THEN ToSet(derivsTarget[t]) ELSE {})
                            \cup PendingOf(rest)
  <2>1. /\ <<derivsTarget[t]>> \o rest \in Seq(Seq(Names))
        /\ <<derivsTarget[t]>> \o rest # <<>>
        /\ PendingOf(<<derivsTarget[t]>> \o rest) = ToSet(derivsTarget[t]) \cup PendingOf(rest)
    BY <1>4, <1>5, PendingPush
  <2> QED
    BY <1>4, <2>1
<1>7. ToSet(walk.results) = AnchorsOf(walk.seen) /\ IsInjective(walk.results)
  BY <1>1 DEF IInv, WalkOK
<1>8. /\ results \in Seq(Names)
      /\ ToSet(results) = AnchorsOf(seen) /\ IsInjective(results)
  <2>1. CASE IsName(t)
    <3>1. t \notin ToSet(walk.results)
      BY <1>1, <1>7 DEF AnchorsOf
    <3>2. /\ Append(walk.results, t) \in Seq(Names)
          /\ ToSet(Append(walk.results, t)) = ToSet(walk.results) \cup {t}
          /\ IsInjective(Append(walk.results, t))
      BY <1>2, <1>4, <1>7, <3>1, ElementsOfAppend
    <3>3. AnchorsOf(seen) = AnchorsOf(walk.seen) \cup {t}
      BY <2>1 DEF AnchorsOf
    <3> QED
      BY <1>7, <2>1, <3>2, <3>3
  <2>2. CASE ~IsName(t)
    <3>1. AnchorsOf(seen) = AnchorsOf(walk.seen)
      BY <2>2 DEF AnchorsOf
    <3> QED
      BY <1>2, <1>7, <2>2, <3>1
  <2> QED
    BY <2>1, <2>2
<1> HIDE DEF stack, results
<1>9. walk' \in WalkState
  BY <1>2, <1>3, <1>4, <1>6, <1>8 DEF WalkState
<1>10. \A y \in Names : y \in ToSet(derivsTarget[t]) <=> Descends(y, t)
  BY <1>4 DEF IInv, IndexFollowsFile
<1>11. seen \cup PendingOf(stack) \subseteq Reach(walk.id)
  <2>1. walk.seen \cup Pending \subseteq Reach(walk.id)
    BY <1>1 DEF IInv, WalkOK
  <2>2. words[t] # None => ToSet(derivsTarget[t]) \subseteq Reach(walk.id)
    BY <1>4, <1>5, <1>10, <2>1, ReachIsClosed DEF Closed
  <2> QED
    BY <1>4, <1>6, <2>1, <2>2
<1>12. walk.seen \cup Pending \subseteq seen \cup PendingOf(stack)
  BY <1>4, <1>6
<1>13. \A y \in Names : Descends(y, walk.id) => y \in seen \cup PendingOf(stack)
  BY <1>1, <1>12 DEF IInv, WalkOK
<1>14. \A x \in seen, y \in Names :
          words[x] # None /\ Descends(y, x) => y \in seen \cup PendingOf(stack)
  <2>1. \A x \in walk.seen, y \in Names :
          words[x] # None /\ Descends(y, x) => y \in walk.seen \cup Pending
    BY <1>1 DEF IInv, WalkOK
  <2>2. \A y \in Names :
          words[t] # None /\ Descends(y, t) => y \in PendingOf(stack)
    BY <1>6, <1>10
  <2> QED
    BY <1>12, <2>1, <2>2
<1>15. WalkOK'
  <2>1. /\ walk'.id = walk.id /\ walk'.stack = stack /\ walk'.seen = seen
        /\ walk'.results = results /\ words' = words
    BY <1>1, <1>3 DEF index
  <2> HIDE DEF seen
  <2> QED
    BY <1>1, <1>2, <1>6, <1>8, <1>11, <1>13, <1>14, <2>1, IndexDecides DEF WalkOK, Pending
<1>16. AnchorsAreExact' /\ AnswersWait'
  BY <1>1, IndexDecides DEF IInv, AnchorsAreExact, AnswersWait
<1> QED
  BY <1>1, <1>9, <1>15, <1>16, IndexKept

\* The calls that are answered at once, and a caller that leaves.
LEMMA OtherAnswers ==
    ASSUME IInv, UNCHANGED <<index, walk>>,
           \/ Free /\ answer' # None /\ answer'.kind # "anchors"
           \/ answer' = None
    PROVE  IInv'
<1>1. walk' \in WalkState \cup {None}
  BY DEF IInv, TypeOK
<1>2. WalkOK'
  BY IndexDecides DEF IInv, WalkOK, Pending, index
<1>3. AnchorsAreExact' /\ AnswersWait'
  BY IndexDecides DEF AnchorsAreExact, AnswersWait, Free
<1> QED
  BY <1>1, <1>2, <1>3, IndexKept

--------------------------------------------------------------------------------
(* What a search finds. *)

\* The ids that pass the filter, each once.
LEMMA HydratedIds ==
    ASSUME IInv, NEW W \in SUBSET Read, NEW ids \in Seq(Ids), ToSet(ids) = IdsOf(W), NEW f
    PROVE  /\ filterAndHydrate(ids, f) \in Seq(Ids)
           /\ IsInjective(filterAndHydrate(ids, f))
           /\ ToSet(filterAndHydrate(ids, f)) = IdsOf({w \in W : Passes(w, f)})
<1> DEFINE S == {n \in Names : words[n] # None /\ Passes(words[n], f)}
<1>1. PICK d \in Seq(Ids) : d = Distinct(ids) /\ ToSet(d) = ToSet(ids) /\ IsInjective(d)
  BY DistinctElements
<1>2. filterAndHydrate(ids, f) = Within(d, S)
  BY <1>1 DEF filterAndHydrate
<1>3. /\ Within(d, S) \in Seq(Ids) /\ IsInjective(Within(d, S))
      /\ ToSet(Within(d, S)) = ToSet(d) \cap S
  <2> HIDE DEF S
  <2>1. QED
    BY <1>1, ElementsOfWithin
<1>4. \A w \in W : w.id \in Names /\ words[w.id] = w /\ w # None
  <2>1. \A w \in Read : w.id \in Names /\ w # None
    BY ReadLines, LexiconAssumption DEF Line
  <2>2. \A w \in Read : words[w.id] = w
    BY DEF IInv, SearchFollowsFile
  <2>3. QED
    BY <2>1, <2>2
<1>5. ToSet(d) \cap S = IdsOf({w \in W : Passes(w, f)})
  <2>1. ASSUME NEW n \in ToSet(d) \cap S PROVE n \in IdsOf({w \in W : Passes(w, f)})
    <3>1. PICK w \in W : n = w.id
      BY <1>1 DEF IdsOf
    <3>2. Passes(w, f)
      BY <1>4, <3>1
    <3>3. QED
      BY <3>1, <3>2 DEF IdsOf
  <2>2. ASSUME NEW w \in W, Passes(w, f) PROVE w.id \in ToSet(d) \cap S
    <3>1. w.id \in S
      BY <1>4, <2>2
    <3>2. w.id \in ToSet(d)
      BY <1>1 DEF IdsOf
    <3>3. QED
      BY <3>1, <3>2
  <2> HIDE DEF S
  <2>3. QED
    BY <2>1, <2>2 DEF IdsOf
<1>6. QED
  BY <1>2, <1>3, <1>5

\* The lines that hold all tokens of a query.
Holding(query) == {w \in Read : TokensOf(query) \subseteq TokensOf(TextOf(w))}

\* The keyword search finds the lines that hold all tokens of the query.
LEMMA KeywordHits ==
    ASSUME IInv, NEW query \in Seq(STRING), NEW f
    PROVE  /\ SearchKeyword(query, f) \in Seq(Ids)
           /\ IsInjective(SearchKeyword(query, f))
           /\ ToSet(SearchKeyword(query, f)) =
                 IF TokensOf(query) = {} THEN {}
                 ELSE IdsOf({w \in Holding(query) : Passes(w, f)})
<1>1. PICK tokens \in Seq(Seq(STRING)) :
         tokens = tokenize(query) /\ ToSet(tokens) = TokensOf(query)
  BY TokensFound
<1>2. CASE tokens = <<>>
  <2>1. TokensOf(query) = {}
    BY <1>1, <1>2 DEF ToSet
  <2>2. SearchKeyword(query, f) = <<>>
    BY <1>1, <1>2 DEF SearchKeyword
  <2>3. <<>> \in Seq(Ids) /\ IsInjective(<<>>) /\ ToSet(<<>>) = {}
    BY DEF IsInjective, ToSet
  <2>4. QED
    BY <2>1, <2>2, <2>3
<1>3. CASE tokens # <<>>
  <2>1. PICK t : t = Last(tokens) /\ t \in ToSet(tokens)
    <3>1. Len(tokens) \in DOMAIN tokens
      BY <1>3
    <3>2. QED
      BY <3>1 DEF Last, ToSet
  <2>2. \A u : /\ Hits(u) \in Seq(Ids)
               /\ ToSet(Hits(u)) = IdsOf({w \in Read : u \in TokensOf(TextOf(w))})
    <3>1. ASSUME NEW u
          PROVE  /\ Hits(u) \in Seq(Ids)
                 /\ ToSet(Hits(u)) = IdsOf({w \in Read : u \in TokensOf(TextOf(w))})
      <4>1. CASE u \in DOMAIN inverted
        BY <4>1 DEF Hits, IInv, TypeOK, SearchFollowsFile
      <4>2. CASE u \notin DOMAIN inverted
        <5>1. {w \in Read : u \in TokensOf(TextOf(w))} = {}
          BY <4>2 DEF IInv, SearchFollowsFile
        <5>2. Hits(u) = <<>> /\ <<>> \in Seq(Ids) /\ ToSet(<<>>) = {}
          BY <4>2 DEF Hits, ToSet
        <5>3. QED
          BY <5>1, <5>2 DEF IdsOf
      <4>3. QED
        BY <4>1, <4>2
    <3>2. QED
      BY <3>1
  <2>3. PICK ids \in Seq(Ids) : /\ ids = Within(Hits(t), Shared(tokens))
                                /\ ToSet(ids) = ToSet(Hits(t)) \cap Shared(tokens)
    BY <2>2, ElementsOfWithin
  <2>4. ToSet(ids) = IdsOf(Holding(query))
    <3>1. \A v, w \in Read : v.id = w.id => v = w
      BY DEF IInv, SearchFollowsFile
    <3>2. \A w \in Read : w.id \in Names
      BY ReadLines, LexiconAssumption DEF Line
    <3>3. ASSUME NEW n \in ToSet(ids) PROVE n \in IdsOf(Holding(query))
      <4>1. PICK w \in Read : n = w.id
        BY <2>2, <2>3, <3>3 DEF IdsOf
      <4>2. ASSUME NEW u \in TokensOf(query) PROVE u \in TokensOf(TextOf(w))
        <5>1. n \in ToSet(Hits(u))
          BY <1>1, <2>3, <3>3 DEF Shared
        <5>2. PICK v \in Read : n = v.id /\ u \in TokensOf(TextOf(v))
          BY <2>2, <5>1 DEF IdsOf
        <5>3. QED
          BY <3>1, <4>1, <5>2
      <4>3. QED
        BY <4>1, <4>2 DEF IdsOf, Holding
    <3>4. ASSUME NEW w \in Holding(query) PROVE w.id \in ToSet(ids)
      <4>1. w \in Read /\ TokensOf(query) \subseteq TokensOf(TextOf(w))
        BY DEF Holding
      <4>2. \A u \in ToSet(tokens) : w.id \in ToSet(Hits(u))
        BY <1>1, <2>2, <4>1 DEF IdsOf
      <4>3. QED
        BY <2>1, <2>3, <3>2, <4>1, <4>2 DEF Shared
    <3>5. QED
      BY <3>3, <3>4 DEF IdsOf
  <2>5. SearchKeyword(query, f) = filterAndHydrate(ids, f)
    BY <1>1, <1>3, <2>1, <2>3 DEF SearchKeyword
  <2>6. Holding(query) \in SUBSET Read
    BY DEF Holding
  <2>7. TokensOf(query) # {}
    BY <1>1, <2>1
  <2>8. PICK W \in SUBSET Read : W = Holding(query)
    BY <2>6
  <2>9. ToSet(ids) = IdsOf(W)
    BY <2>4, <2>8
  <2>10. /\ filterAndHydrate(ids, f) \in Seq(Ids)
         /\ IsInjective(filterAndHydrate(ids, f))
         /\ ToSet(filterAndHydrate(ids, f)) = IdsOf({w \in W : Passes(w, f)})
    BY <2>9, HydratedIds
  <2>11. QED
    BY <2>5, <2>7, <2>8, <2>10
<1>4. QED
  BY <1>2, <1>3

\* What is collected below a node, whatever the order: the words that begin with it.
LEMMA CollectedIds ==
    ASSUME IInv, NEW p \in Seq(STRING), p \in DOMAIN trie, NEW ids \in CollectIDs(p)
    PROVE  ids \in Seq(Ids) /\ ToSet(ids) = IdsOf({w \in Read : IsPrefix(p, w.word)})
<1> DEFINE ends == {q \in DOMAIN trie : IsPrefix(p, q) /\ trie[q] # <<>>}
<1>1. PICK o \in SetToSeqs(ends) : ids = FlattenSeq([k \in DOMAIN o |-> trie[o[k]]])
  BY DEF CollectIDs
<1>2. IsFiniteSet(DOMAIN trie) /\ ends \subseteq DOMAIN trie
  BY DEF IInv, SearchFollowsFile
<1> HIDE DEF ends
<1>3. IsFiniteSet(ends)
  BY <1>2, FS_Subset
<1>4. o \in Seq(ends) /\ ToSet(o) = ends
  BY <1>3, OrderHoldsAll
<1>5. DOMAIN o = 1..Len(o) /\ Len(o) \in Nat /\ \A k \in DOMAIN o : o[k] \in ends
  BY <1>4
<1>6. \A q \in ends : /\ trie[q] \in Seq(Ids)
                      /\ ToSet(trie[q]) = IdsOf({w \in Read : w.word = q})
  BY <1>2 DEF IInv, TypeOK, SearchFollowsFile
<1>7. PICK ss \in Seq(Seq(Ids)) :
         /\ ss = [k \in DOMAIN o |-> trie[o[k]]]
         /\ DOMAIN ss = DOMAIN o /\ \A k \in DOMAIN o : ss[k] = trie[o[k]]
  <2>1. \A k \in 1..Len(o) : trie[o[k]] \in Seq(Ids)
    BY <1>5, <1>6
  <2>2. [k \in 1..Len(o) |-> trie[o[k]]] \in Seq(Seq(Ids))
    BY <1>5, <2>1
  <2>3. QED
    BY <1>5, <2>2
<1>8. ids \in Seq(Ids) /\ ToSet(ids) = UNION {ToSet(ss[k]) : k \in DOMAIN ss}
  <2>1. FlattenSeq(ss) \in Seq(Ids) /\ ToSet(FlattenSeq(ss)) = UNION {ToSet(ss[k]) : k \in DOMAIN ss}
    BY ElementsOfFlatten
  <2>2. ids = FlattenSeq(ss)
    BY <1>1, <1>7
  <2>3. QED
    BY <2>1, <2>2
<1>9. ToSet(ids) = UNION {ToSet(trie[q]) : q \in ends}
  <2>1. ends = {o[k] : k \in DOMAIN o}
    BY <1>4 DEF ToSet
  <2>2. QED
    BY <1>7, <1>8, <2>1
<1>10. ASSUME NEW n \in ToSet(ids) PROVE n \in IdsOf({w \in Read : IsPrefix(p, w.word)})
  <2>1. PICK q \in ends : n \in IdsOf({w \in Read : w.word = q})
    BY <1>6, <1>9, <1>10
  <2>2. IsPrefix(p, q)
    BY DEF ends
  <2>3. QED
    BY <2>1, <2>2 DEF IdsOf
<1>11. ASSUME NEW w \in Read, IsPrefix(p, w.word) PROVE w.id \in ToSet(ids)
  <2>1. w.word \in Prefixes(w.word)
    <3>1. w.word \in Seq(STRING)
      BY ReadLines DEF Line
    <3>2. QED
      BY <3>1, PrefixesOfText
  <2>2. w.word \in DOMAIN trie
    BY <2>1 DEF IInv, SearchFollowsFile
  <2>3. w.id \in ToSet(trie[w.word])
    BY <2>2 DEF IInv, SearchFollowsFile, IdsOf
  <2>4. trie[w.word] # <<>>
    BY <2>3 DEF ToSet
  <2>5. w.word \in ends
    BY <1>11, <2>2, <2>4 DEF ends
  <2>6. QED
    BY <1>9, <2>3, <2>5
<1>12. QED
  BY <1>8, <1>10, <1>11 DEF IdsOf

\* The prefix search finds the lines spelt with the prefix.
LEMMA PrefixHits ==
    ASSUME IInv, NEW prefix \in Seq(STRING), NEW f, NEW hits \in SearchPrefix(prefix, f)
    PROVE  /\ hits \in Seq(Ids)
           /\ ToSet(hits) = IdsOf({w \in Read : IsPrefix(prefix, w.word) /\ Passes(w, f)})
<1> DEFINE W == {w \in Read : IsPrefix(prefix, w.word)}
<1>1. CASE prefix \in DOMAIN trie
  <2>1. PICK ids \in CollectIDs(prefix) : hits = filterAndHydrate(ids, f)
    BY <1>1 DEF SearchPrefix
  <2>2. ids \in Seq(Ids) /\ ToSet(ids) = IdsOf(W)
    BY <1>1, CollectedIds
  <2>3. /\ filterAndHydrate(ids, f) \in Seq(Ids)
        /\ ToSet(filterAndHydrate(ids, f)) = IdsOf({w \in W : Passes(w, f)})
    <3>1. W \in SUBSET Read
      OBVIOUS
    <3> HIDE DEF W
    <3>2. QED
      BY <2>2, <3>1, HydratedIds
  <2>4. {w \in W : Passes(w, f)} = {w \in Read : IsPrefix(prefix, w.word) /\ Passes(w, f)}
    OBVIOUS
  <2>5. QED
    BY <2>1, <2>3, <2>4
<1>2. CASE prefix \notin DOMAIN trie
  <2>1. hits = <<>> /\ <<>> \in Seq(Ids) /\ ToSet(<<>>) = {}
    BY <1>2 DEF SearchPrefix, ToSet
  <2>2. ASSUME NEW w \in Read, IsPrefix(prefix, w.word) PROVE FALSE
    <3>1. w.word \in Seq(STRING)
      BY ReadLines DEF Line
    <3>2. prefix \in Prefixes(w.word)
      BY <2>2, <3>1, PrefixesOfText
    <3>3. QED
      BY <1>2, <3>2 DEF IInv, SearchFollowsFile
  <2>3. QED
    BY <2>1, <2>2 DEF IdsOf
<1>3. QED
  BY <1>1, <1>2

\* Trimmed text is text.
LEMMA TrimmedText ==
    ASSUME NEW s \in Seq(STRING)
    PROVE  TrimSpace(s) \in Seq(STRING)
<1> DEFINE ink == {i \in DOMAIN s : s[i] # Blank}
<1>1. Len(s) \in Nat /\ ink \in SUBSET Nat /\ ink \in SUBSET (1..Len(s))
  OBVIOUS
<1> HIDE DEF ink
<1>2. CASE ink = {}
  BY <1>2 DEF TrimSpace, ink
<1>3. CASE ink # {}
  <2>1. Min(ink) \in 1..Len(s) /\ Max(ink) \in 1..Len(s)
    BY <1>1, <1>3, MinIsMember, MaxIsMember
  <2>2. SubSeq(s, Min(ink), Max(ink)) \in Seq(STRING)
    BY <2>1
  <2>3. QED
    BY <1>3, <2>2 DEF TrimSpace, ink
<1>4. QED
  BY <1>2, <1>3

\* What is answered, of the keyword hits and the prefix hits put together.
Combined(query, f, hits, comb, limit, matches, shown, found) ==
    /\ hits \in SearchPrefix(query, f)
    /\ comb = Distinct(SearchKeyword(query, f) \o hits)
    /\ limit = Min({Cap, Len(comb)})
    /\ matches = SubSeq(comb, 1, limit)
    /\ shown = [k \in DOMAIN matches |-> words[matches[k]]]
    /\ found = ByKeyword(query, f) \cup ByPrefix(query, f)

Exact(query, f, comb, limit, shown, found) ==
    /\ Len(comb) = Cardinality(found)
    /\ Len(shown) = limit
    /\ IsInjective(shown)
    /\ ToSet(shown) \subseteq found
    /\ \A j \in DOMAIN shown :
          shown[j] \in ByKeyword(query, f) => \A i \in 1..j : shown[i] \in ByKeyword(query, f)

LEMMA CombinedIsExact ==
    ASSUME IInv, Loaded, NEW query \in Seq(STRING), NEW f, NEW hits, NEW comb, NEW limit,
           NEW matches, NEW shown, NEW found,
           Combined(query, f, hits, comb, limit, matches, shown, found)
    PROVE  Exact(query, f, comb, limit, shown, found)
<1>0. /\ hits \in SearchPrefix(query, f)
      /\ comb = Distinct(SearchKeyword(query, f) \o hits)
      /\ limit = Min({Cap, Len(comb)})
      /\ matches = SubSeq(comb, 1, limit)
      /\ shown = [k \in DOMAIN matches |-> words[matches[k]]]
      /\ found = ByKeyword(query, f) \cup ByPrefix(query, f)
  BY DEF Combined
<1>1. PICK K \in Seq(Ids) : /\ K = SearchKeyword(query, f)
                            /\ ToSet(K) = IdsOf(ByKeyword(query, f))
  <2>1. Read = ToSet(file)
    BY LexiconAssumption DEF Loaded, IInv, TypeOK, Read, ToSet
  <2>2. CASE TokensOf(query) = {}
    <3>1. ByKeyword(query, f) = {}
      BY <2>2 DEF ByKeyword
    <3>2. QED
      BY <2>2, <3>1, KeywordHits DEF IdsOf
  <2>3. CASE TokensOf(query) # {}
    <3>1. ByKeyword(query, f) = {w \in Holding(query) : Passes(w, f)}
      BY <2>1, <2>3 DEF ByKeyword, Holding
    <3>2. QED
      BY <2>3, <3>1, KeywordHits
  <2>4. QED
    BY <2>2, <2>3
<1>2. hits \in Seq(Ids) /\ ToSet(hits) = IdsOf(ByPrefix(query, f))
  <2>1. Read = ToSet(file)
    BY LexiconAssumption DEF Loaded, IInv, TypeOK, Read, ToSet
  <2>2. ByPrefix(query, f) = {w \in Read : IsPrefix(query, w.word) /\ Passes(w, f)}
    BY <2>1 DEF ByPrefix
  <2>3. QED
    BY <1>0, <2>2, PrefixHits
<1>3. /\ comb \in Seq(Ids) /\ IsInjective(comb) /\ ToSet(comb) = IdsOf(found)
  <2>1. PICK s \in Seq(Ids) : s = K \o hits /\ ToSet(s) = ToSet(K) \cup ToSet(hits)
    BY <1>1, <1>2, ElementsOfConcat
  <2>2. comb = Distinct(s)
    BY <1>0, <1>1, <2>1
  <2>3. comb \in Seq(Ids) /\ IsInjective(comb) /\ ToSet(comb) = ToSet(s)
    BY <2>2, DistinctElements
  <2>4. QED
    BY <1>0, <1>1, <1>2, <2>1, <2>3 DEF IdsOf
<1>4. /\ found \subseteq Read /\ ByKeyword(query, f) \subseteq found
      /\ \A w \in found : words[w.id] = w
  <2>1. Read = ToSet(file)
    BY LexiconAssumption DEF Loaded, IInv, TypeOK, Read, ToSet
  <2>2. found \subseteq Read
    BY <1>0, <2>1 DEF ByKeyword, ByPrefix
  <2>3. QED
    BY <1>0, <2>2 DEF IInv, SearchFollowsFile
<1> DEFINE N == Len(comb)
           g == [k \in 1..N |-> words[comb[k]]]
<1>5. N \in Nat /\ DOMAIN comb = 1..N
  BY <1>3
<1>6. \A k \in 1..N : \E w \in found : comb[k] = w.id /\ words[comb[k]] = w
  <2>1. \A k \in 1..N : comb[k] \in IdsOf(found)
    BY <1>3, <1>5 DEF ToSet
  <2>2. QED
    BY <1>4, <2>1 DEF IdsOf
<1>7. \A j, k \in 1..N : words[comb[j]] = words[comb[k]] => j = k
  BY <1>3, <1>5, <1>6 DEF IsInjective
<1>8. Cardinality(found) = N
  <2> HIDE DEF N
  <2>1. g \in [1..N -> found]
    BY <1>6
  <2>2. \A j, k \in DOMAIN g : g[j] = g[k] => j = k
    BY <1>7
  <2>3. \A w \in found : \E k \in 1..N : g[k] = w
    <3>1. ASSUME NEW w \in found PROVE \E k \in 1..N : g[k] = w
      <4>1. PICK k \in 1..N : comb[k] = w.id
        BY <1>3, <1>5 DEF ToSet, IdsOf
      <4>2. g[k] = w
        BY <1>4, <4>1
      <4>3. QED
        BY <4>2
    <3>2. QED
      BY <3>1
  <2> HIDE DEF g
  <2>4. g \in Bijection(1..N, found)
    BY <2>1, <2>2, <2>3 DEF Bijection, Injection, Surjection, IsInjective
  <2>5. ExistsBijection(1..N, found)
    BY <2>4 DEF ExistsBijection
  <2>6. QED
    BY <1>5, <2>5, FS_CountingElements
<1>9. limit \in 0..N
  <2>1. {Cap, N} \in SUBSET Nat /\ {Cap, N} # {}
    BY <1>5, LexiconAssumption
  <2>2. Min({Cap, N}) \in Nat /\ Min({Cap, N}) <= N
    <3> HIDE DEF N
    <3>1. QED
      BY <2>1, MinIsMember
  <2>3. QED
    BY <1>0, <1>5, <2>2
<1>10. /\ DOMAIN matches = 1..limit
       /\ \A k \in 1..limit : k \in 1..N /\ matches[k] = comb[k]
  <2>1. limit \in Int /\ 1 \in Int /\ \A k \in 1..limit : k \in 1..N /\ comb[k] \in Ids
    BY <1>3, <1>5, <1>9
  <2>2. /\ matches \in Seq(Ids)
        /\ Len(matches) = (IF 1 <= limit THEN limit - 1 + 1 ELSE 0)
        /\ \A k \in 1..(limit - 1 + 1) : matches[k] = comb[1 + k - 1]
    <3>1. /\ SubSeq(comb, 1, limit) \in Seq(Ids)
          /\ Len(SubSeq(comb, 1, limit)) = (IF 1 <= limit THEN limit - 1 + 1 ELSE 0)
          /\ \A k \in 1..(limit - 1 + 1) : SubSeq(comb, 1, limit)[k] = comb[1 + k - 1]
      <4>1. \A k \in 1..limit : comb[k] \in Ids
        BY <2>1
      <4>2. limit \in Int /\ 1 \in Int
        BY <2>1
      <4> HIDE DEF N
      <4>3. QED
        BY ONLY <4>1, <4>2, SubSeqProperties
    <3>2. matches = SubSeq(comb, 1, limit)
      BY <1>0
    <3>3. QED
      BY <3>1, <3>2
  <2>3. Len(matches) = limit /\ \A k \in 1..limit : matches[k] = comb[k]
    BY <1>9, <2>2
  <2>4. QED
    BY <2>1, <2>2, <2>3
<1>11. /\ DOMAIN shown = 1..limit /\ Len(shown) = limit
       /\ \A k \in 1..limit : k \in 1..N /\ shown[k] = words[comb[k]]
  <2>1. DOMAIN shown = 1..limit /\ \A k \in 1..limit : shown[k] = words[matches[k]]
    BY <1>0, <1>10
  <2>2. shown = [k \in 1..limit |-> words[matches[k]]]
    BY <1>0, <1>10
  <2>3. Len(shown) = limit
    BY <1>9, <2>2
  <2>4. QED
    BY <1>10, <2>1, <2>3
<1>12. IsInjective(shown)
  <2>1. SUFFICES ASSUME NEW j \in 1..limit, NEW k \in 1..limit, shown[j] = shown[k]
                 PROVE  j = k
    BY <1>11 DEF IsInjective
  <2>2. QED
    BY <1>7, <1>11, <2>1
<1>13. ToSet(shown) \subseteq found
  <2>1. SUFFICES ASSUME NEW k \in 1..limit PROVE shown[k] \in found
    BY <1>11 DEF ToSet
  <2>2. QED
    BY <1>6, <1>11
<1>14. ASSUME NEW j \in 1..limit, shown[j] \in ByKeyword(query, f), NEW i \in 1..j
       PROVE  shown[i] \in ByKeyword(query, f)
  <2>1. j \in 1..N /\ i \in 1..N /\ i \in 1..limit
    BY <1>5, <1>9, <1>14
  <2>2. comb[j] \in ToSet(K)
    <3>1. PICK w \in found : comb[j] = w.id /\ words[comb[j]] = w
      BY <1>6, <2>1
    <3>2. w \in ByKeyword(query, f)
      BY <1>11, <1>14, <3>1
    <3>3. QED
      BY <1>1, <3>1, <3>2 DEF IdsOf
  <2>3. comb[i] \in ToSet(K)
    <3>1. comb = Distinct(K \o hits)
      BY <1>0, <1>1
    <3>2. QED
      BY <1>2, <1>14, <2>1, <2>2, <3>1, DistinctLeads
  <2>4. PICK w \in ByKeyword(query, f) : comb[i] = w.id
    BY <1>1, <2>3 DEF IdsOf
  <2>5. words[comb[i]] = w
    BY <1>4, <2>4
  <2>6. QED
    BY <1>11, <2>1, <2>4, <2>5
<1>15. QED
  BY <1>8, <1>11, <1>12, <1>13, <1>14 DEF Exact

\* What enquire_lexicon answers is exact.
LEMMA EnquireExact ==
    ASSUME IInv, NEW q \in Questions, NEW f, Enquire(q, f)
    PROVE  SearchIsExact'
<1> DEFINE query == TrimSpace(q)
<1>1. query \in Seq(STRING) /\ Loaded /\ UNCHANGED <<index, walk>>
  BY TrimmedText, LexiconAssumption DEF Enquire, Free
<1> HIDE DEF query
<1>2. CASE query = <<>>
  <2>1. answer' = [kind |-> "error"]
    BY <1>2 DEF Enquire, query
  <2>2. QED
    BY <2>1 DEF SearchIsExact
<1>3. CASE query # <<>>
  <2>1. PICK hits, comb, limit, matches :
           /\ hits \in SearchPrefix(query, f)
           /\ comb = Distinct(SearchKeyword(query, f) \o hits)
           /\ limit = Min({Cap, Len(comb)})
           /\ matches = SubSeq(comb, 1, limit)
           /\ answer' = [kind |-> "matches", query |-> query, filter |-> f,
                         total |-> Len(comb), matches |-> matches]
    BY <1>3 DEF Enquire, query
  <2>2. PICK total : total = Len(comb)
    OBVIOUS
  <2>3. /\ answer'.query = query /\ answer'.filter = f /\ answer'.total = total
        /\ answer'.matches = matches
    BY <2>1, <2>2
  <2>4. file' = file /\ words' = words
    BY <1>1 DEF index
  <2>5. PICK shown, found : /\ shown = [k \in DOMAIN matches |-> words[matches[k]]]
                           /\ found = ByKeyword(query, f) \cup ByPrefix(query, f)
    OBVIOUS
  <2>6. /\ total = Cardinality(found)
        /\ Len(shown) = Min({Cap, total})
        /\ IsInjective(shown)
        /\ ToSet(shown) \subseteq found
        /\ \A j \in DOMAIN shown :
              shown[j] \in ByKeyword(query, f) =>
                 \A i \in 1..j : shown[i] \in ByKeyword(query, f)
    <3>1. Combined(query, f, hits, comb, limit, matches, shown, found)
      BY <2>1, <2>5 DEF Combined
    <3>2. Exact(query, f, comb, limit, shown, found)
      BY <1>1, <3>1, CombinedIsExact
    <3>3. QED
      BY <2>1, <2>2, <3>2 DEF Exact
  <2>7. /\ ByKeyword(answer.query, answer.filter)' = ByKeyword(query, f)
        /\ ByPrefix(answer.query, answer.filter)' = ByPrefix(query, f)
    BY <2>3, <2>4 DEF ByKeyword, ByPrefix
  <2>8. [k \in DOMAIN answer'.matches |-> words'[answer'.matches[k]]] = shown
    BY <2>3, <2>4, <2>5
  <2>9. QED
    BY <2>3, <2>5, <2>6, <2>7, <2>8 DEF SearchIsExact
<1>4. QED
  BY <1>2, <1>3

\* get_derivations answers with the known words one step away.
LEMMA DerivationsExact ==
    ASSUME IInv, NEW n \in Names, NEW direction \in {"ancestors", "descendants"},
           AskDerivations(n, direction)
    PROVE  DerivationsAreExact'
<1>1. Loaded /\ UNCHANGED <<index, walk>>
  BY DEF AskDerivations, Free
<1>2. PICK found : /\ found = GetDerivations(n, direction)
                   /\ answer' = [kind |-> direction, id |-> n, words |-> found]
  BY DEF AskDerivations
<1>3. PICK s \in Seq(Names) :
         s = IF direction = "ancestors" THEN derivsSource[n] ELSE derivsTarget[n]
  BY DEF IInv, TypeOK
<1>4. PICK d \in Seq(Names) : d = Distinct(s) /\ ToSet(d) = ToSet(s) /\ IsInjective(d)
  BY DistinctElements
<1>5. found = Within(d, Known)
  BY <1>2, <1>3, <1>4 DEF GetDerivations
<1>6. IsInjective(found) /\ ToSet(found) = ToSet(s) \cap Known
  BY <1>4, <1>5, ElementsOfWithin
<1>7. \A m \in Names : m \in ToSet(s) <=>
         IF direction = "ancestors" THEN Descends(n, m) ELSE Descends(m, n)
  BY <1>3 DEF IInv, IndexFollowsFile
<1>8. ToSet(found) = {m \in Known : IF direction = "ancestors" THEN Descends(n, m)
                                                            ELSE Descends(m, n)}
  BY <1>6, <1>7 DEF Known
<1>9. answer'.kind = direction /\ answer'.id = n /\ answer'.words = found
  BY <1>2
<1>10. Known' = Known /\ \A x, y : Descends(y, x)' <=> Descends(y, x)
  BY <1>1, IndexDecides DEF Known, index
<1>11. QED
  BY <1>6, <1>8, <1>9, <1>10 DEF DerivationsAreExact

\* What the answers say of an unchanged index stays true of them.
LEMMA AnswersKept ==
    ASSUME SearchIsExact, DerivationsAreExact, UNCHANGED <<index, answer>>
    PROVE  SearchIsExact' /\ DerivationsAreExact'
<1>1. file' = file /\ words' = words /\ answer' = answer /\ UNCHANGED index
  BY DEF index
<1>2. SearchIsExact'
  <2>1. \A q, f : ByKeyword(q, f)' = ByKeyword(q, f) /\ ByPrefix(q, f)' = ByPrefix(q, f)
    BY <1>1 DEF ByKeyword, ByPrefix
  <2>2. QED
    BY <1>1, <2>1 DEF SearchIsExact
<1>3. DerivationsAreExact'
  <2>1. Known' = Known /\ \A x, y : Descends(y, x)' <=> Descends(y, x)
    BY <1>1, IndexDecides DEF Known
  <2>2. QED
    BY <1>1, <2>1 DEF DerivationsAreExact
<1>4. QED
  BY <1>2, <1>3

\* Answers of other kinds say nothing that these properties are about.
LEMMA AnswersElse ==
    /\ answer' = None => SearchIsExact' /\ DerivationsAreExact'
    /\ answer'.kind # "matches" => SearchIsExact'
    /\ answer'.kind \notin {"ancestors", "descendants"} => DerivationsAreExact'
  BY DEF SearchIsExact, DerivationsAreExact

LEMMA NextAnswersExact ==
    ASSUME IInv, SearchIsExact, DerivationsAreExact, [Next]_vars
    PROVE  SearchIsExact' /\ DerivationsAreExact'
<1>1. CASE LoadLine
  <2>1. answer = None /\ answer' = answer
    BY <1>1 DEF LoadLine, IInv, AnswersWait
  <2>2. QED
    BY <2>1, AnswersElse
<1>2. ASSUME NEW q \in Questions, NEW f \in Filters, Enquire(q, f)
      PROVE  SearchIsExact' /\ DerivationsAreExact'
  <2>1. \/ answer' = [kind |-> "error"]
        \/ \E query, total, matches :
              answer' = [kind |-> "matches", query |-> query, filter |-> f,
                         total |-> total, matches |-> matches]
    BY <1>2 DEF Enquire
  <2>2. answer'.kind \notin {"ancestors", "descendants"}
    BY <2>1
  <2>3. QED
    BY <1>2, <2>2, EnquireExact, AnswersElse
<1>3. ASSUME NEW n \in Names, GetWordDetails(n)
      PROVE  SearchIsExact' /\ DerivationsAreExact'
  <2>1. answer'.kind = "details"
    BY <1>3 DEF GetWordDetails
  <2>2. QED
    BY <2>1, AnswersElse
<1>4. ASSUME NEW n \in Names, NEW direction \in {"ancestors", "descendants"},
             AskDerivations(n, direction)
      PROVE  SearchIsExact' /\ DerivationsAreExact'
  <2>1. answer'.kind # "matches"
    BY <1>4 DEF AskDerivations
  <2>2. QED
    BY <1>4, <2>1, DerivationsExact, AnswersElse
<1>5. ASSUME NEW n \in Names, StartAnchors(n)
      PROVE  SearchIsExact' /\ DerivationsAreExact'
  BY <1>5, AnswersKept DEF StartAnchors
<1>6. CASE Walk
  <2>1. CASE WalkReturn
    <3>1. \/ UNCHANGED <<index, answer>>
          \/ answer'.kind = "anchors"
      BY <2>1 DEF WalkReturn
    <3>2. QED
      BY <3>1, AnswersKept, AnswersElse
  <2>2. CASE WalkSkip \/ WalkVisit
    BY <2>2, AnswersKept DEF WalkSkip, WalkVisit
  <2>3. QED
    BY <1>6, <2>1, <2>2 DEF Walk
<1>7. ASSUME NEW req \in NameRequests, GenerateName(req)
      PROVE  SearchIsExact' /\ DerivationsAreExact'
  <2>1. \/ answer' = [kind |-> "error"]
        \/ \E bases, suffix, name :
              answer' = [kind |-> "name", bases |-> bases, suffix |-> suffix, name |-> name]
    BY <1>7 DEF GenerateName
  <2>2. answer'.kind \notin {"matches", "ancestors", "descendants"}
    BY <2>1
  <2>3. QED
    BY <2>2, AnswersElse
<1>8. CASE Rest
  BY <1>8, AnswersElse DEF Rest
<1>9. CASE UNCHANGED vars
  BY <1>9, AnswersKept DEF vars
<1>10. QED
  BY <1>1, <1>2, <1>3, <1>4, <1>5, <1>6, <1>7, <1>8, <1>9 DEF Next
--------------------------------------------------------------------------------
(* Naming. *)

\* Two texts put together have the consonants of both.
LEMMA ConsonantsOfBoth ==
    ASSUME NEW E, NEW a \in Seq(E), NEW b \in Seq(E), NEW u, u = a \o b
    PROVE  /\ Consonants(u) = Consonants(a) + Consonants(b)
           /\ Consonants(a) \in Int /\ Consonants(b) \in Int
<1>1. PICK wa \in Seq(E), wb \in Seq(E) :
         wa = Within(a, Vowels) /\ wb = Within(b, Vowels)
  BY WithinIsSublist
<1>2. Within(u, Vowels) = wa \o wb
  <2>1. Parts(a \o b, a, b, Vowels)
    BY WithinParts
  <2>2. QED
    BY <1>1, <2>1 DEF Parts
<1>3. Len(u) = Len(a) + Len(b) /\ Len(wa \o wb) = Len(wa) + Len(wb)
  OBVIOUS
<1>4. /\ Consonants(u) = Len(u) - Len(wa \o wb)
      /\ Consonants(a) = Len(a) - Len(wa)
      /\ Consonants(b) = Len(b) - Len(wb)
  BY <1>1, <1>2 DEF Consonants
<1>5. Len(a) \in Nat /\ Len(b) \in Nat /\ Len(wa) \in Nat /\ Len(wb) \in Nat
  OBVIOUS
<1>6. QED
  BY <1>3, <1>4, <1>5

LEMMA ConsonantsOfNothing == Consonants(<<>>) = 0
  BY WithinEmpty DEF Consonants

LEMMA ConsonantsOfLetter ==
    ASSUME NEW E, NEW x \in E, NEW s, s = <<x>>
    PROVE  Consonants(s) = IF x \in Vowels THEN 0 ELSE 1
<1>1. PICK e : e = <<>>
  OBVIOUS
<1>2. e \in Seq(E) /\ s = Append(e, x) /\ Within(e, Vowels) = e
  BY <1>1, WithinEmpty
<1>3. PICK w : w = Within(e, Vowels)
  OBVIOUS
<1>4. Within(s, Vowels) = IF x \in Vowels THEN Append(w, x) ELSE w
  <2>1. Within(s, Vowels) = IF x \in Vowels THEN Append(Within(e, Vowels), x)
                                            ELSE Within(e, Vowels)
    BY <1>2, WithinAppend
  <2>2. QED
    BY <1>3, <2>1
<1>5. Len(s) = 1 /\ Len(Append(w, x)) = 1 /\ Len(w) = 0
  BY <1>1, <1>2, <1>3
<1>6. QED
  BY <1>4, <1>5 DEF Consonants

\* A text is what precedes its last letter and this letter.
LEMMA LastLetter ==
    ASSUME NEW E, NEW s \in Seq(E), s # <<>>
    PROVE  /\ Front(s) \in Seq(E) /\ Last(s) \in E
           /\ Len(Front(s)) = Len(s) - 1
           /\ Consonants(s) = Consonants(Front(s)) + (IF Last(s) \in Vowels THEN 0 ELSE 1)
           /\ Consonants(Front(s)) \in Int
<1>1. PICK f \in Seq(E), x \in E : s = Append(f, x)
  BY SequenceEmptyOrAppend
<1>2. Front(s) = f /\ Last(s) = x /\ Len(s) = Len(f) + 1 /\ Len(f) \in Nat
  <2>1. Len(s) = Len(f) + 1 /\ Len(f) \in Nat /\ s[Len(s)] = x
    BY <1>1, AppendProperties
  <2>2. SubSeq(s, 1, Len(s) - 1) = f
    <3>1. SubSeq(Append(f, x), 1, Len(f)) = f
      OBVIOUS
    <3>2. Len(s) - 1 = Len(f)
      BY <2>1
    <3>3. QED
      BY <1>1, <3>1, <3>2
  <2>3. QED
    BY <2>1, <2>2 DEF Front, Last
<1>3. PICK o : o = <<x>>
  OBVIOUS
<1>4. o \in Seq(E) /\ s = f \o o
  <2>1. <<x>> \in Seq(E)
    OBVIOUS
  <2>2. Append(f, x) = f \o <<x>>
    BY AppendIsConcat
  <2>3. QED
    BY <1>1, <1>3, <2>1, <2>2
<1>5. Consonants(s) = Consonants(f) + Consonants(o) /\ Consonants(f) \in Int
  BY <1>4, ConsonantsOfBoth
<1>6. QED
  <2>1. Consonants(o) = IF x \in Vowels THEN 0 ELSE 1
    BY <1>3, ConsonantsOfLetter
  <2>2. Consonants(f) = Consonants(Front(s)) /\ Last(s) = x
    BY <1>2
  <2>3. Consonants(s) = Consonants(f) + (IF x \in Vowels THEN 0 ELSE 1)
    BY <1>5, <2>1
  <2>4. QED
    BY <1>1, <1>2, <1>5, <2>2, <2>3

\* A text is its first letter and what follows.
LEMMA FirstLetter ==
    ASSUME NEW E, NEW s \in Seq(E), s # <<>>
    PROVE  /\ Tail(s) \in Seq(E) /\ Head(s) \in E
           /\ Len(Tail(s)) = Len(s) - 1
           /\ Consonants(s) = (IF Head(s) \in Vowels THEN 0 ELSE 1) + Consonants(Tail(s))
           /\ Consonants(Tail(s)) \in Int
<1>1. PICK t, x : t = Tail(s) /\ x = Head(s)
  OBVIOUS
<1>2. t \in Seq(E) /\ x \in E /\ Len(t) = Len(s) - 1
  BY <1>1
<1>3. PICK o : o = <<x>>
  OBVIOUS
<1>4. o \in Seq(E) /\ s = o \o t
  BY <1>1, <1>2, <1>3
<1>5. Consonants(s) = Consonants(o) + Consonants(t) /\ Consonants(t) \in Int
  BY <1>2, <1>4, ConsonantsOfBoth
<1>6. Consonants(o) = IF x \in Vowels THEN 0 ELSE 1
  BY <1>2, <1>3, ConsonantsOfLetter
<1>7. QED
  BY <1>1, <1>2, <1>5, <1>6

\* Elision takes a vowel, and only where two meet.
LEMMA Elided ==
    ASSUME NEW E, NEW a \in Seq(E), NEW b \in Seq(E)
    PROVE  /\ Elide(a, b) \in Seq(E)
           /\ Len(Elide(a, b)) = Len(a) - (IF VowelsMeet(a, b) THEN 1 ELSE 0)
           /\ Consonants(Elide(a, b)) = Consonants(a)
           /\ Consonants(a) \in Int
<1>1. Consonants(a) \in Int /\ Len(a) \in Nat
  <2>1. PICK u : u = a \o b
    OBVIOUS
  <2>2. QED
    BY <2>1, ConsonantsOfBoth
<1>2. CASE VowelsMeet(a, b)
  <2>1. a # <<>> /\ Last(a) \in Vowels /\ Elide(a, b) = Front(a)
    BY <1>2 DEF VowelsMeet, Elide
  <2>2. QED
    BY <1>1, <1>2, <2>1, LastLetter
<1>3. CASE ~VowelsMeet(a, b)
  BY <1>1, <1>3 DEF Elide
<1>4. QED
  BY <1>2, <1>3

\* r is a and b joined: of the vowels where they meet one is left, of the rest everything.
Joined(r, a, b) ==
    /\ r # <<>>
    /\ Last(r) \in Vowels <=> Last(b) \in Vowels
    /\ Consonants(r) = Consonants(a) + Consonants(b)
    /\ Len(r) = Len(a) + Len(b) - (IF VowelsMeet(a, b) THEN 1 ELSE 0)

LEMMA SuffixJoined ==
    ASSUME NEW E, NEW a \in Seq(E), NEW b \in Seq(E), b # <<>>
    PROVE  AppendSuffix(a, b) \in Seq(E) /\ Joined(AppendSuffix(a, b), a, b)
<1>1. PICK e \in Seq(E) :
         /\ e = Elide(a, b)
         /\ Len(e) = Len(a) - (IF VowelsMeet(a, b) THEN 1 ELSE 0)
         /\ Consonants(e) = Consonants(a)
  BY Elided
<1>2. PICK r : r = e \o b /\ r = AppendSuffix(a, b)
  BY <1>1 DEF AppendSuffix
<1>3. Consonants(r) = Consonants(a) + Consonants(b)
  <2>1. Consonants(r) = Consonants(e) + Consonants(b)
    BY <1>2, ConsonantsOfBoth
  <2>2. QED
    BY <1>1, <2>1
<1>4. /\ Len(r) = Len(e) + Len(b) /\ Len(a) \in Nat /\ Len(b) \in Nat /\ Len(e) \in Nat
      /\ Len(b) > 0 /\ r \in Seq(E)
  <2>1. /\ e \o b \in Seq(E) /\ Len(e \o b) = Len(e) + Len(b) /\ Len(b) > 0
        /\ Len(a) \in Nat /\ Len(b) \in Nat /\ Len(e) \in Nat
    OBVIOUS
  <2>2. QED
    BY <1>2, <2>1
<1>5. r # <<>> /\ Last(r) = Last(b)
  <2>1. (e \o b)[Len(e \o b)] = b[Len(b)]
    OBVIOUS
  <2>2. QED
    BY <1>2, <1>4, <2>1 DEF Last
<1>6. QED
  BY <1>1, <1>2, <1>3, <1>4, <1>5 DEF Joined

\* Two letters, one after the other.
Twice(l, x) == Append(<<l>>, x) = <<l, x>>

LEMMA TwoLetters ==
    ASSUME NEW E, NEW l \in E, NEW x \in E
    PROVE  Twice(l, x)
<1>1. <<l>> \in Seq(E) /\ <<l, x>> \in Seq(E) /\ Len(<<l>>) = 1 /\ Len(<<l, x>>) = 2
  OBVIOUS
<1>2. /\ Append(<<l>>, x) \in Seq(E) /\ Len(Append(<<l>>, x)) = 2
      /\ Append(<<l>>, x)[1] = l /\ Append(<<l>>, x)[2] = x
  BY <1>1
<1>3. \A i \in 1..2 : Append(<<l>>, x)[i] = <<l, x>>[i]
  BY <1>2
<1>4. Append(<<l>>, x) = <<l, x>>
  BY <1>1, <1>2, <1>3, SeqEqual
<1>5. QED
  BY <1>4 DEF Twice

\* What is left of the first text, and the second, when n, r or t meets l.
LEMMA Assimilated ==
    ASSUME NEW E, {"l", "d"} \subseteq E, NEW a \in Seq(E), NEW b \in Seq(E),
           a # <<>>, b # <<>>, Last(a) \in {"n", "r", "t"}, Head(b) = "l"
    PROVE  /\ Assimilate(a, b) \in Seq(E)
           /\ Assimilate(a, b) # <<>>
           /\ Last(Assimilate(a, b)) \in Vowels <=> Last(b) \in Vowels
           /\ Consonants(Assimilate(a, b)) = Consonants(a) + Consonants(b)
           /\ Len(Assimilate(a, b)) = Len(a) + Len(b)
<1> DEFINE second == IF Last(a) = "t" THEN "d" ELSE "l"
<1>1. /\ second \in E \ Vowels /\ "l" \in E \ Vowels
      /\ Last(a) \notin Vowels /\ Head(b) \notin Vowels
  BY CompoundingAssumption
<1>2. Assimilate(a, b) = Front(a) \o <<"l", second>> \o Tail(b)
  BY DEF Assimilate
<1>3. PICK l, x : l = "l" /\ x = second
  OBVIOUS
<1> HIDE DEF second
<1>4. l \in E /\ x \in E /\ l \notin Vowels /\ x \notin Vowels
  BY <1>1, <1>3
<1>5. PICK f, t, r : /\ f = Front(a) /\ t = Tail(b) /\ r = Assimilate(a, b)
  OBVIOUS
<1>6. /\ f \in Seq(E) /\ Len(f) = Len(a) - 1 /\ Consonants(a) = Consonants(f) + 1
      /\ Consonants(f) \in Int
  BY <1>1, <1>5, LastLetter
<1>7. /\ t \in Seq(E) /\ Len(t) = Len(b) - 1 /\ Consonants(b) = 1 + Consonants(t)
      /\ Consonants(t) \in Int
  BY <1>1, <1>5, FirstLetter
<1>8. PICK u, o, y : u = f \o o /\ o = <<l, x>> /\ y = <<x>>
  OBVIOUS
<1>9. o \in Seq(E) /\ Len(o) = 2 /\ u \in Seq(E) /\ Len(u) = Len(f) + 2 /\ u[Len(u)] = x
  BY <1>4, <1>6, <1>8
<1>10. Consonants(o) = 2
  <2>1. PICK z : z = <<l>>
    OBVIOUS
  <2>2. z \in Seq(E) /\ y \in Seq(E) /\ o = z \o y
    <3>1. <<l>> \in Seq(E) /\ <<x>> \in Seq(E)
      BY <1>4
    <3>2. <<l, x>> = <<l>> \o <<x>>
      <4>1. Append(<<l>>, x) = <<l>> \o <<x>>
        BY <1>4, <3>1, AppendIsConcat
      <4>2. Append(<<l>>, x) = <<l, x>>
        BY <1>4, TwoLetters DEF Twice
      <4>3. QED
        BY <4>1, <4>2
    <3>3. QED
      BY <1>8, <2>1, <3>1, <3>2
  <2>3. Consonants(o) = Consonants(z) + Consonants(y)
    BY <2>2, ConsonantsOfBoth
  <2>4. Consonants(z) = 1
    BY <1>4, <2>1, ConsonantsOfLetter
  <2>5. Consonants(y) = 1
    BY <1>4, <1>8, ConsonantsOfLetter
  <2>6. QED
    BY <2>3, <2>4, <2>5
<1>11. Consonants(u) = Consonants(f) + 2 /\ Consonants(u) \in Int
  <2>1. Consonants(u) = Consonants(f) + Consonants(o)
    BY <1>6, <1>8, <1>9, ConsonantsOfBoth
  <2>2. QED
    BY <1>6, <1>10, <2>1
<1>12. r = u \o t
  BY <1>2, <1>3, <1>5, <1>8
<1>13. Consonants(r) = Consonants(u) + Consonants(t)
  BY <1>7, <1>9, <1>12, ConsonantsOfBoth
<1>14. Len(r) = Len(u) + Len(t) /\ r \in Seq(E) /\ Len(a) \in Nat /\ Len(b) \in Nat
  <2>1. u \o t \in Seq(E) /\ Len(u \o t) = Len(u) + Len(t)
    <3>1. u \in Seq(E) /\ t \in Seq(E)
      BY <1>7, <1>9
    <3>2. QED
      BY ONLY <3>1, ConcatProperties
  <2>2. Len(a) \in Nat /\ Len(b) \in Nat
    OBVIOUS
  <2>3. QED
    BY <1>12, <2>1, <2>2
<1>15. Len(f) \in Nat /\ Len(t) \in Nat
  BY <1>6, <1>7
<1>16. r # <<>>
  <2>1. Len(r) # 0
    BY <1>9, <1>14, <1>15
  <2>2. QED
    BY <2>1
<1>17. Last(r) \in Vowels <=> Last(b) \in Vowels
  <2>1. CASE t = <<>>
    <3>1. Len(b) = 1 /\ Last(b) = Head(b)
      <4>1. Len(t) = 0 /\ Len(b) \in Nat
        BY <2>1
      <4>2. Len(b) = 1
        BY <1>7, <4>1
      <4>3. QED
        BY <4>2 DEF Last
    <3>2. r = u
      BY <1>9, <1>12, <2>1
    <3>3. QED
      BY <1>1, <1>4, <1>9, <3>1, <3>2 DEF Last
  <2>2. CASE t # <<>>
    <3>1. Len(t) > 0
      BY <1>7, <2>2
    <3>2. r[Len(u) + Len(t)] = t[Len(t)]
      BY <1>7, <1>9, <1>12, <3>1
    <3>3. t[Len(t)] = b[Len(b)]
      BY <1>5, <1>7, <3>1
    <3>4. QED
      BY <1>14, <3>2, <3>3 DEF Last
  <2>3. QED
    BY <2>1, <2>2
<1>18. QED
  BY <1>5, <1>6, <1>7, <1>11, <1>13, <1>14, <1>15, <1>16, <1>17, <1>9

LEMMA RootsJoined ==
    ASSUME NEW E, {"l", "d"} \subseteq E, NEW a \in Seq(E), NEW b \in Seq(E)
    PROVE  /\ JoinRoots(a, b) \in Seq(E)
           /\ b = <<>> => JoinRoots(a, b) = a
           /\ b # <<>> => Joined(JoinRoots(a, b), a, b)
<1>1. PICK e : e = Elide(a, b)
  OBVIOUS
<1>2. /\ e \in Seq(E)
      /\ Len(e) = Len(a) - (IF VowelsMeet(a, b) THEN 1 ELSE 0)
      /\ Consonants(e) = Consonants(a)
  BY <1>1, Elided
<1>3. JoinRoots(a, b) = Assimilate(e, b)
  BY <1>1 DEF JoinRoots
<1>4. CASE b = <<>>
  <2>1. e = a
    BY <1>1, <1>4 DEF Elide, VowelsMeet
  <2>2. Assimilate(e, b) = e \o b
    BY <1>4 DEF Assimilate
  <2>3. QED
    BY <1>3, <1>4, <2>1, <2>2
<1>5. CASE b # <<>> /\ e # <<>> /\ Last(e) \in {"n", "r", "t"} /\ Head(b) = "l"
  <2>1. ~VowelsMeet(a, b)
    BY <1>5, CompoundingAssumption DEF VowelsMeet
  <2>2. e = a
    BY <1>1, <2>1 DEF Elide
  <2>3. PICK r : r = Assimilate(a, b)
    OBVIOUS
  <2>4. /\ r \in Seq(E) /\ r # <<>> /\ (Last(r) \in Vowels <=> Last(b) \in Vowels)
        /\ Consonants(r) = Consonants(a) + Consonants(b)
        /\ Len(r) = Len(a) + Len(b)
    BY <1>5, <2>2, <2>3, Assimilated
  <2>5. Joined(r, a, b)
    BY <2>1, <2>4 DEF Joined
  <2>6. QED
    BY <1>3, <1>5, <2>2, <2>3, <2>4, <2>5
<1>6. CASE b # <<>> /\ ~(e # <<>> /\ Last(e) \in {"n", "r", "t"} /\ Head(b) = "l")
  <2>1. Assimilate(e, b) = e \o b
    BY <1>6 DEF Assimilate
  <2>2. AppendSuffix(a, b) = e \o b
    BY <1>1 DEF AppendSuffix
  <2>3. QED
    BY <1>3, <1>6, <2>1, <2>2, SuffixJoined
<1>7. QED
  BY <1>4, <1>5, <1>6

\* What the loop over the roots has joined after n of them, for every n.
Chaining(E, s) ==
    {f \in [0..Len(s) -> Seq(E)] :
        f[0] = <<>> /\ \A n \in 1..Len(s) : f[n] = JoinRoots(f[n - 1], s[n])}

\* The recursive function of Compound exists.
LEMMA CompoundSteps ==
    ASSUME NEW E, {"l", "d"} \subseteq E, NEW s \in Seq(Seq(E))
    PROVE  \E f \in Chaining(E, s) : Compound(s) = f[Len(s)]
<1> DEFINE N == Len(s)
           Join(n, r) == JoinRoots(r, s[n])
           Joins(f) == [n \in 0..N |-> IF n = 0 THEN <<>> ELSE Join(n, f[n - 1])]
<1>1. N \in Nat /\ \A n \in 1..N : s[n] \in Seq(E)
  OBVIOUS
<1>2. \A n \in 1..N, r \in Seq(E) : Join(n, r) \in Seq(E)
  BY <1>1, RootsJoined
<1>3. \E f : f = Joins(f)
  <2> HIDE DEF Join, N
  <2>1. PICK step \in [Nat -> [Seq(E) -> Seq(E)]] :
           \A n \in 1..N, r \in Seq(E) : step[n][r] = Join(n, r)
    <3> DEFINE st == [n \in Nat |-> [r \in Seq(E) |-> IF n \in 1..N THEN Join(n, r) ELSE r]]
    <3>1. st \in [Nat -> [Seq(E) -> Seq(E)]]
      BY <1>1, <1>2
    <3>2. \A n \in 1..N, r \in Seq(E) : st[n][r] = Join(n, r)
      BY <1>1
    <3> HIDE DEF st
    <3>3. QED
      BY <3>1, <3>2
  <2>2. PICK g \in [0..N -> Seq(E)] : g[0] = <<>> /\ \A n \in 1..N : g[n] = step[n][g[n - 1]]
    <3>1. <<>> \in Seq(E)
      OBVIOUS
    <3>2. Recursive(Seq(E), <<>>, step, N) # {}
      BY <1>1, <3>1, Recursion
    <3>3. QED
      BY <3>2 DEF Recursive
  <2>3. \A n \in 1..N : n - 1 \in 0..N /\ g[n - 1] \in Seq(E)
    BY <1>1
  <2>4. \A n \in 1..N : g[n] = Join(n, g[n - 1])
    BY <2>1, <2>2, <2>3
  <2>5. \A n \in 0..N : n # 0 => n \in 1..N
    BY <1>1
  <2>6. g = Joins(g)
    BY <2>2, <2>4, <2>5
  <2>7. QED
    BY <2>6
<1>4. PICK f : f = Joins(f) /\ Compound(s) = f[N]
  <2> DEFINE joined == CHOOSE f : f = Joins(f)
  <2>1. Compound(s) = joined[N]
    BY DEF Compound
  <2>2. joined = Joins(joined)
    <3> HIDE DEF Joins
    <3>1. QED
      BY <1>3
  <2> HIDE DEF joined, Joins
  <2>3. QED
    BY <2>1, <2>2
<1>5. f[0] = <<>> /\ \A n \in 1..N : f[n] = Join(n, f[n - 1])
  <2> HIDE DEF Join, N
  <2>1. QED
    BY <1>1, <1>4
<1>6. f \in [0..N -> Seq(E)]
  <2> DEFINE T == {n \in 0..N : f[n] \in Seq(E)}
  <2> HIDE DEF Join, N
  <2>1. 0 \in T
    <3>1. f[0] \in Seq(E)
      BY <1>5
    <3>2. QED
      BY <1>1, <3>1
  <2>2. ASSUME NEW n \in 1..N, f[n - 1] \in Seq(E) PROVE f[n] \in Seq(E)
    BY <1>2, <1>5, <2>2
  <2>3. \A n \in 1..N : n - 1 \in T => n \in T
    BY <1>1, <2>2
  <2> HIDE DEF T
  <2>4. 0..N \subseteq T
    BY <1>1, <2>1, <2>3, InductTo
  <2>5. \A n \in 0..N : f[n] \in Seq(E)
    BY <2>4 DEF T
  <2>6. DOMAIN f = 0..N /\ f = [n \in DOMAIN f |-> f[n]]
    BY <1>4
  <2>7. QED
    BY <2>5, <2>6
<1>7. f \in Chaining(E, s)
  BY <1>5, <1>6 DEF Chaining
<1>8. QED
  BY <1>4, <1>7

\* No roots make no name, and one more root is joined to what the others make.
LEMMA CompoundEmpty == Compound(<<>>) = <<>>
<1>1. PICK E, s : E = {"l", "d"} /\ s = <<>>
  OBVIOUS
<1>2. s \in Seq(Seq(E)) /\ Len(s) = 0 /\ {"l", "d"} \subseteq E
  BY <1>1
<1>3. PICK f \in Chaining(E, s) : Compound(s) = f[Len(s)]
  BY <1>2, CompoundSteps
<1>4. QED
  BY <1>1, <1>2, <1>3 DEF Chaining

Appended(E, s, x, t) ==
    {"l", "d"} \subseteq E /\ s \in Seq(Seq(E)) /\ x \in Seq(E) /\ t = Append(s, x)

LEMMA CompoundAppend ==
    ASSUME NEW E, NEW s, NEW x, NEW t, Appended(E, s, x, t)
    PROVE  Compound(t) = JoinRoots(Compound(s), x)
<1> DEFINE N == Len(s)
<1>0. {"l", "d"} \subseteq E /\ s \in Seq(Seq(E)) /\ x \in Seq(E) /\ t = Append(s, x)
  BY DEF Appended
<1>1. /\ t \in Seq(Seq(E)) /\ N \in Nat /\ Len(t) = N + 1 /\ t[N + 1] = x
      /\ \A n \in 1..N : t[n] = s[n]
  BY <1>0
<1>2. PICK f \in [0..N -> Seq(E)] :
         /\ Compound(s) = f[N] /\ f[0] = <<>>
         /\ \A n \in 1..N : f[n] = JoinRoots(f[n - 1], s[n])
  <2>1. PICK f \in Chaining(E, s) : Compound(s) = f[Len(s)]
    BY <1>0, CompoundSteps
  <2>2. QED
    BY <2>1 DEF Chaining
<1>3. PICK g \in [0..(N + 1) -> Seq(E)] :
         /\ Compound(t) = g[N + 1] /\ g[0] = <<>>
         /\ \A n \in 1..(N + 1) : g[n] = JoinRoots(g[n - 1], t[n])
  <2>1. PICK g \in Chaining(E, t) : Compound(t) = g[Len(t)]
    BY <1>0, <1>1, CompoundSteps
  <2>2. QED
    BY <1>1, <2>1 DEF Chaining
<1> HIDE DEF N
<1>4. f[N] = g[N]
  <2> DEFINE T == {n \in 0..N : f[n] = g[n]}
  <2>1. 0 \in T
    BY <1>1, <1>2, <1>3
  <2>2. ASSUME NEW n \in 1..N, n - 1 \in T PROVE n \in T
    <3>1. n \in 0..N /\ n \in 1..(N + 1) /\ f[n - 1] = g[n - 1]
      BY <1>1, <2>2
    <3>2. f[n] = JoinRoots(f[n - 1], s[n]) /\ g[n] = JoinRoots(g[n - 1], t[n]) /\ t[n] = s[n]
      BY <1>1, <1>2, <1>3, <3>1
    <3>3. QED
      BY <3>1, <3>2
  <2> HIDE DEF T
  <2>3. 0..N \subseteq T
    BY <1>1, <2>1, <2>2, InductTo
  <2>4. N \in T
    BY <1>1, <2>3
  <2>5. QED
    BY <2>4 DEF T
<1>5. N + 1 \in 1..(N + 1) /\ (N + 1) - 1 = N /\ f[N] \in Seq(E)
  BY <1>1, <1>2
<1>6. g[N + 1] = JoinRoots(g[N], x)
  BY <1>1, <1>3, <1>5
<1>7. QED
  BY <1>2, <1>3, <1>4, <1>5, <1>6

\* The consonants and the letters of the pieces of a name.
ConsonantsOf(p) == Total([i \in DOMAIN p |-> Consonants(p[i])])
LettersOf(p) == Total([i \in DOMAIN p |-> Len(p[i])])

\* One more piece.
LEMMA PieceAdds ==
    ASSUME NEW E, NEW p \in Seq(Seq(E)), NEW b \in Seq(E), NEW q, q = Append(p, b)
    PROVE  /\ ConsonantsOf(q) = ConsonantsOf(p) + Consonants(b)
           /\ LettersOf(q) = LettersOf(p) + Len(b)
           /\ ConsonantsOf(p) \in Int /\ LettersOf(p) \in Int
<1> DEFINE N == Len(p)
<1>1. /\ N \in Nat /\ DOMAIN p = 1..N /\ DOMAIN q = 1..(N + 1)
      /\ \A i \in 1..N : q[i] = p[i] /\ p[i] \in Seq(E)
      /\ q[N + 1] = b
  OBVIOUS
<1> HIDE DEF N
<1>2. \A s \in Seq(E) : Consonants(s) \in Int /\ Len(s) \in Int
  <2>1. ASSUME NEW s \in Seq(E) PROVE Consonants(s) \in Int /\ Len(s) \in Int
    <3>1. PICK u : u = s \o s
      OBVIOUS
    <3>2. Consonants(s) \in Int
      BY <3>1, ConsonantsOfBoth
    <3>3. QED
      BY <3>2
  <2>2. QED
    BY <2>1
<1>3. PICK f, g, x : /\ f = [i \in DOMAIN p |-> Consonants(p[i])]
                     /\ g = [i \in DOMAIN q |-> Consonants(q[i])]
                     /\ x = Consonants(b)
  OBVIOUS
<1>4. f \in Seq(Int) /\ g = Append(f, x) /\ x \in Int
  <2>1. f = [i \in 1..N |-> Consonants(p[i])] /\ \A i \in 1..N : Consonants(p[i]) \in Int
    BY <1>1, <1>2, <1>3
  <2>2. f \in Seq(Int) /\ Len(f) = N /\ \A i \in 1..N : f[i] = Consonants(p[i])
    BY <1>1, <2>1
  <2>3. g = [i \in 1..(N + 1) |-> IF i = N + 1 THEN x ELSE f[i]]
    BY <1>1, <1>3, <2>1
  <2>4. QED
    BY <1>1, <1>2, <1>3, <2>2, <2>3
<1>5. PICK h, k, y : /\ h = [i \in DOMAIN p |-> Len(p[i])]
                     /\ k = [i \in DOMAIN q |-> Len(q[i])]
                     /\ y = Len(b)
  OBVIOUS
<1>6. h \in Seq(Int) /\ k = Append(h, y) /\ y \in Int
  <2>1. h = [i \in 1..N |-> Len(p[i])] /\ \A i \in 1..N : Len(p[i]) \in Int
    BY <1>1, <1>2, <1>5
  <2>2. h \in Seq(Int) /\ Len(h) = N /\ \A i \in 1..N : h[i] = Len(p[i])
    BY <1>1, <2>1
  <2>3. k = [i \in 1..(N + 1) |-> IF i = N + 1 THEN y ELSE h[i]]
    BY <1>1, <1>5, <2>1
  <2>4. QED
    BY <1>1, <1>2, <1>5, <2>2, <2>3
<1>7. Total(g) = Total(f) + x /\ Total(f) \in Int
  BY <1>4, TotalAppend
<1>8. Total(k) = Total(h) + y /\ Total(h) \in Int
  BY <1>6, TotalAppend
<1>9. QED
  BY <1>3, <1>5, <1>7, <1>8 DEF ConsonantsOf, LettersOf

\* The texts that make a piece.
Texts(E) == Seq(E) \ {<<>>}

\* r is the pieces p joined.
Made(r, p) ==
    /\ p = <<>> => r = <<>>
    /\ p # <<>> => r # <<>> /\ (Last(r) \in Vowels <=> Last(Last(p)) \in Vowels)
    /\ Consonants(r) = ConsonantsOf(p)
    /\ Len(r) = LettersOf(p) - Cardinality(Meets(p))

\* A piece that is joined is one more piece.
LEMMA MadeJoined ==
    ASSUME NEW E, NEW p \in Seq(Texts(E)), NEW a \in Seq(E), Made(a, p),
           NEW b \in Texts(E), NEW r \in Seq(E), Joined(r, a, b),
           NEW q, q = Append(p, b)
    PROVE  Made(r, q)
<1> DEFINE N == Len(p)
<1>1. /\ N \in Nat /\ DOMAIN p = 1..N /\ DOMAIN q = 1..(N + 1) /\ Len(q) = N + 1
      /\ \A i \in 1..N : q[i] = p[i]
      /\ q[N + 1] = b /\ q # <<>> /\ p \in Seq(Seq(E)) /\ b \in Seq(E) /\ b # <<>>
      /\ \A i \in 1..N : p[i] \in Seq(E) /\ p[i] # <<>>
  <2>1. /\ N \in Nat /\ DOMAIN p = 1..N /\ DOMAIN q = 1..(N + 1) /\ Len(q) = N + 1
        /\ \A i \in 1..N : q[i] = p[i] /\ p[i] \in Texts(E)
        /\ q[N + 1] = b /\ q # <<>>
    OBVIOUS
  <2>2. b \in Seq(E) /\ b # <<>> /\ \A i \in 1..N : p[i] \in Seq(E) /\ p[i] # <<>>
    BY <2>1 DEF Texts
  <2>3. p \in Seq(Seq(E))
    BY DEF Texts
  <2>4. QED
    BY <2>1, <2>2, <2>3
<1> HIDE DEF N
<1>2. /\ ConsonantsOf(q) = ConsonantsOf(p) + Consonants(b)
      /\ LettersOf(q) = LettersOf(p) + Len(b)
      /\ ConsonantsOf(p) \in Int /\ LettersOf(p) \in Int
  BY <1>1, PieceAdds
<1>3. Last(q) = b
  BY <1>1 DEF Last
<1>4. Meets(p) \subseteq 1..(N - 1) /\ IsFiniteSet(Meets(p)) /\ Cardinality(Meets(p)) \in Nat
  <2>1. Meets(p) \subseteq 1..(N - 1)
    BY DEF Meets, N
  <2>2. IsFiniteSet(1..(N - 1))
    <3>1. N \in Nat
      BY <1>1
    <3>2. QED
      BY ONLY <3>1, FS_Interval
  <2>3. QED
    BY <2>1, <2>2, FS_Subset, FS_CardinalityType
<1>5. VowelsMeet(a, b) <=> N # 0 /\ VowelsMeet(p[N], b)
  <2>1. CASE N = 0
    <3>1. p = <<>> /\ a = <<>>
      BY <1>1, <2>1 DEF Made, N
    <3>2. QED
      BY <2>1, <3>1 DEF VowelsMeet
  <2>2. CASE N # 0
    <3>1. p # <<>> /\ Last(p) = p[N] /\ p[N] # <<>>
      BY <1>1, <2>2 DEF Last, N
    <3>2. a # <<>> /\ (Last(a) \in Vowels <=> Last(p[N]) \in Vowels)
      BY <3>1 DEF Made
    <3>3. QED
      BY <1>1, <2>2, <3>1, <3>2 DEF VowelsMeet
  <2>3. QED
    BY <2>1, <2>2
<1>6. Meets(q) = Meets(p) \cup (IF VowelsMeet(a, b) THEN {N} ELSE {})
  <2>1. Meets(q) = {i \in 1..N : VowelsMeet(q[i], q[i + 1])}
    BY <1>1 DEF Meets
  <2>2. Meets(p) = {i \in 1..(N - 1) : VowelsMeet(q[i], q[i + 1])}
    <3>1. Meets(p) = {i \in 1..(N - 1) : VowelsMeet(p[i], p[i + 1])}
      BY DEF Meets, N
    <3>2. \A i \in 1..(N - 1) : q[i] = p[i] /\ q[i + 1] = p[i + 1]
      BY <1>1
    <3>3. QED
      BY <3>1, <3>2
  <2>3. N # 0 => N \in 1..N /\ q[N] = p[N]
    BY <1>1
  <2>4. \A i \in 1..N : i = N \/ i \in 1..(N - 1)
    BY <1>1
  <2>5. \A i \in 1..(N - 1) : i \in 1..N
    BY <1>1
  <2>6. VowelsMeet(a, b) <=> N # 0 /\ VowelsMeet(q[N], q[N + 1])
    BY <1>1, <1>5, <2>3
  <2>7. N = 0 => 1..N = {}
    BY <1>1
  <2>8. QED
    BY <2>1, <2>2, <2>3, <2>4, <2>5, <2>6, <2>7
<1>7. Cardinality(Meets(q)) = Cardinality(Meets(p)) + (IF VowelsMeet(a, b) THEN 1 ELSE 0)
  <2>1. N \notin Meets(p)
    BY <1>1, <1>4
  <2>2. CASE VowelsMeet(a, b)
    BY <1>4, <1>6, <2>1, <2>2, FS_AddElement
  <2>3. CASE ~VowelsMeet(a, b)
    <3>1. Meets(q) = Meets(p)
      BY <1>6, <2>3
    <3>2. QED
      BY <1>4, <2>3, <3>1
  <2>4. QED
    BY <2>2, <2>3
<1>8. Consonants(r) = ConsonantsOf(q)
  BY <1>2 DEF Joined, Made
<1>9. Len(r) = LettersOf(q) - Cardinality(Meets(q))
  <2>1. Len(r) = Len(a) + Len(b) - (IF VowelsMeet(a, b) THEN 1 ELSE 0)
    BY DEF Joined
  <2>2. Len(a) = LettersOf(p) - Cardinality(Meets(p)) /\ Len(b) \in Nat
    BY <1>1 DEF Made
  <2>3. QED
    BY <1>2, <1>4, <1>7, <2>1, <2>2
<1>10. QED
  BY <1>1, <1>3, <1>8, <1>9 DEF Made, Joined

LEMMA NothingIsMade == Made(<<>>, <<>>)
<1>1. PICK p : p = <<>>
  OBVIOUS
<1>2. DOMAIN p = {} /\ Len(p) = 0
  BY <1>1
<1>3. [i \in DOMAIN p |-> Consonants(p[i])] = <<>> /\ [i \in DOMAIN p |-> Len(p[i])] = <<>>
  BY <1>2
<1>4. ConsonantsOf(p) = 0 /\ LettersOf(p) = 0
  BY <1>3, TotalEmpty DEF ConsonantsOf, LettersOf
<1>5. Meets(p) = {}
  <2>1. 1..(Len(p) - 1) = {}
    BY <1>2
  <2>2. QED
    BY <2>1 DEF Meets
<1>6. Cardinality(Meets(p)) = 0
  BY <1>5, FS_EmptySet
<1>7. Consonants(p) = 0
  BY <1>1, ConsonantsOfNothing
<1>8. Made(p, p)
  BY <1>2, <1>4, <1>6, <1>7 DEF Made
<1>9. QED
  BY <1>1, <1>8

\* The compound of the roots is made of those that are in S, the nonempty ones.
Compounded(E, S, bases) ==
    /\ Compound(bases) \in Seq(E)
    /\ Within(bases, S) \in Seq(Texts(E))
    /\ Made(Compound(bases), Within(bases, S))

LEMMA CompoundedStep ==
    ASSUME NEW E, {"l", "d"} \subseteq E, NEW S, NEW s \in Seq(Seq(E)), NEW b \in Seq(E),
           b \in S <=> b # <<>>, Compounded(E, S, s),
           NEW t, t = Append(s, b)
    PROVE  Compounded(E, S, t)
<1>0. {"l", "d"} \subseteq E /\ s \in Seq(Seq(E)) /\ b \in Seq(E) /\ t = Append(s, b)
  OBVIOUS
<1>1. PICK a, p : a = Compound(s) /\ p = Within(s, S)
  OBVIOUS
<1>2. a \in Seq(E) /\ p \in Seq(Texts(E)) /\ Made(a, p)
  BY <1>1 DEF Compounded
<1>3. PICK r : r = JoinRoots(a, b)
  OBVIOUS
<1>4. Compound(t) = r
  <2>1. Compound(t) = JoinRoots(Compound(s), b)
    <3>1. Appended(E, s, b, t)
      BY <1>0 DEF Appended
    <3>2. QED
      BY <3>1, CompoundAppend
  <2>2. QED
    BY <1>1, <1>3, <2>1
<1>5. r \in Seq(E) /\ (b = <<>> => r = a) /\ (b # <<>> => Joined(r, a, b))
  BY <1>2, <1>3, RootsJoined
<1>6. Within(t, S) = IF b \in S THEN Append(p, b) ELSE p
  <2>1. Within(t, S) = IF b \in S THEN Append(Within(s, S), b) ELSE Within(s, S)
    <3>1. PICK F : F = Seq(E)
      OBVIOUS
    <3>2. s \in Seq(F) /\ b \in F
      BY <3>1
    <3>3. QED
      BY ONLY <1>0, <3>2, WithinAppend
  <2>2. QED
    BY <1>1, <2>1
<1>7. CASE b = <<>>
  <2>1. r = a /\ Within(t, S) = p
    BY <1>5, <1>6, <1>7
  <2>2. QED
    BY <1>2, <1>4, <2>1 DEF Compounded
<1>8. CASE b # <<>>
  <2>1. b \in Texts(E)
    BY <1>8 DEF Texts
  <2>2. PICK q : q = Append(p, b)
    OBVIOUS
  <2>3. q \in Seq(Texts(E)) /\ Within(t, S) = q
    BY <1>2, <1>6, <1>8, <2>1, <2>2
  <2>4. Made(r, q)
    BY <1>2, <1>5, <1>8, <2>1, <2>2, MadeJoined
  <2>5. QED
    BY <1>4, <1>5, <2>3, <2>4 DEF Compounded
<1>9. QED
  BY <1>7, <1>8

LEMMA CompoundMade ==
    ASSUME NEW E, {"l", "d"} \subseteq E, NEW D \in SUBSET Seq(E), NEW S,
           \A b \in D : b \in S <=> b # <<>>,
           NEW bases \in Seq(D)
    PROVE  Compounded(E, S, bases)
<1> DEFINE T == {n \in Nat : \A s \in Seq(D) : Len(s) = n => Compounded(E, S, s)}
<1>1. 0 \in T
  <2>1. ASSUME NEW s \in Seq(D), Len(s) = 0 PROVE Compounded(E, S, s)
    <3>1. s = <<>>
      BY <2>1
    <3>2. Compound(s) = <<>> /\ Within(s, S) = <<>>
      BY <3>1, CompoundEmpty, WithinEmpty
    <3>3. <<>> \in Seq(E) /\ <<>> \in Seq(Texts(E))
      OBVIOUS
    <3>4. QED
      BY <3>2, <3>3, NothingIsMade DEF Compounded
  <2>2. QED
    BY <2>1
<1>2. ASSUME NEW n \in Nat, n \in T PROVE n + 1 \in T
  <2>1. ASSUME NEW t \in Seq(D), Len(t) = n + 1 PROVE Compounded(E, S, t)
    <3>1. t # <<>>
      BY <2>1
    <3>2. PICK s \in Seq(D), b \in D : t = Append(s, b)
      BY <3>1, SequenceEmptyOrAppend
    <3>3. Len(s) = n
      BY <2>1, <3>2
    <3>4. Compounded(E, S, s)
      BY <1>2, <3>3
    <3>5. s \in Seq(Seq(E)) /\ b \in Seq(E) /\ (b \in S <=> b # <<>>)
      OBVIOUS
    <3> HIDE DEF T
    <3>6. QED
      BY <3>2, <3>4, <3>5, CompoundedStep
  <2>2. QED
    BY <2>1
<1> HIDE DEF T
<1>3. Nat \subseteq T
  BY <1>1, <1>2, Induct
<1>4. Len(bases) \in T
  BY <1>3
<1>5. QED
  BY <1>4 DEF T

\* A root is one of the words found, if there is any.
LEMMA BestRootFound ==
    ASSUME NEW E, NEW results \in Seq(E)
    PROVE  BestRoot(results) \in E \cup {None}
<1> DEFINE usable == Within(results, {w \in ToSet(results) : IsUsableWord(w)})
           nouns == Within(usable, {w \in ToSet(usable) : w.speech \in NounSpeeches})
           Of(category) == Within(nouns, {w \in ToSet(nouns) : w.category = category})
           ranked == Of("primary") \o Of("neo") \o nouns \o usable
<1>1. usable \in Seq(E)
  BY WithinIsSublist
<1> HIDE DEF usable
<1>2. nouns \in Seq(E)
  BY <1>1, WithinIsSublist
<1> HIDE DEF nouns
<1>3. Of("primary") \in Seq(E) /\ Of("neo") \in Seq(E)
  BY <1>2, WithinIsSublist
<1> HIDE DEF Of
<1>4. ranked \in Seq(E)
  BY <1>1, <1>2, <1>3
<1>5. BestRoot(results) = IF ranked = <<>> THEN None ELSE Head(ranked)
  BY DEF BestRoot, Of, nouns, usable
<1> HIDE DEF ranked
<1>6. QED
  BY <1>4, <1>5

\* A base form is text.
LEMMA BaseFormText ==
    ASSUME NEW E, NEW w, w.word \in Seq(E), w.stem \in Seq(E)
    PROVE  BaseForm(w) \in Seq(E)
<1>1. PICK s \in Seq(E) : BaseForm(w) = TrimHyphens(s)
  BY DEF BaseForm
<1> DEFINE ink == {0} \cup {i \in DOMAIN s : s[i] # "-"}
<1>2. Len(s) \in Nat /\ ink \in SUBSET (0..Len(s)) /\ ink # {}
  OBVIOUS
<1> HIDE DEF ink
<1>3. Max(ink) \in 0..Len(s)
  BY <1>2, MaxOfNumbers
<1>4. TrimHyphens(s) = SubSeq(s, 1, Max(ink))
  BY DEF TrimHyphens, ink
<1>5. SubSeq(s, 1, Max(ink)) \in Seq(E)
  BY <1>3
<1>6. QED
  BY <1>1, <1>4, <1>5

\* A root of a concept is a word, if there is any.
LEMMA RootFound ==
    ASSUME IInv, NEW concept \in Seq(STRING), NEW lang
    PROVE  Root(concept, lang) \in Line \cup {None}
<1> DEFINE Filter(category) == [language |-> lang, speech |-> "", category |-> category]
           Found(category) == SearchKeyword(concept, Filter(category))
           candidates == IF Found("primary") # <<>> THEN Found("primary") ELSE Found("")
<1>1. ASSUME NEW f
      PROVE  /\ SearchKeyword(concept, f) \in Seq(Ids)
             /\ \A n \in ToSet(SearchKeyword(concept, f)) : words[n] \in Line
  <2>1. PICK K, W : /\ K \in Seq(Ids)
                   /\ K = SearchKeyword(concept, f)
                   /\ W \subseteq Read
                   /\ ToSet(K) = IdsOf(W)
    <3>1. PICK W : W = IF TokensOf(concept) = {} THEN {}
                       ELSE {w \in Holding(concept) : Passes(w, f)}
      OBVIOUS
    <3>2. W \subseteq Read
      BY <3>1 DEF Holding
    <3>3. IdsOf({}) = {}
      BY DEF IdsOf
    <3>4. ToSet(SearchKeyword(concept, f)) = IdsOf(W)
      BY <3>1, <3>3, KeywordHits
    <3>5. QED
      BY <3>2, <3>4, KeywordHits
  <2>2. \A w \in W : words[w.id] = w /\ w \in Line
    BY <2>1, ReadLines DEF IInv, SearchFollowsFile
  <2>3. \A n \in ToSet(K) : words[n] \in Line
    BY <2>1, <2>2 DEF IdsOf
  <2>4. QED
    BY <2>1, <2>3
<1>2. PICK c \in Seq(Ids) : c = candidates /\ \A n \in ToSet(c) : words[n] \in Line
  <2>1. candidates = Found("primary") \/ candidates = Found("")
    OBVIOUS
  <2> HIDE DEF candidates, Filter
  <2>2. QED
    BY <1>1, <2>1
<1>3. PICK results : results = [k \in DOMAIN c |-> words[c[k]]]
  OBVIOUS
<1>4. results \in Seq(Line)
  <2>1. DOMAIN c = 1..Len(c) /\ Len(c) \in Nat
    OBVIOUS
  <2>2. \A k \in 1..Len(c) : words[c[k]] \in Line
    BY <1>2, <2>1 DEF ToSet
  <2>3. QED
    BY <1>3, <2>1, <2>2
<1>5. Root(concept, lang) = BestRoot(results)
  BY <1>2, <1>3 DEF Root
<1>6. QED
  BY <1>4, <1>5, BestRootFound

\* A name has a suffix.
LEMMA SuffixIsText ==
    ASSUME NEW E, {"n", "d", "i", "l", "w", "e", "o"} \subseteq E,
           NEW lang, NEW gender \in {"masculine", "feminine"}
    PROVE  Suffix(lang, gender) \in Texts(E)
<1>1. /\ <<"n", "d", "i", "l">> \in Seq(E) /\ <<"w", "e", "n">> \in Seq(E)
      /\ <<"o", "n">> \in Seq(E) /\ <<"i", "e", "l">> \in Seq(E)
  OBVIOUS
<1>2. /\ <<"n", "d", "i", "l">> # <<>> /\ <<"w", "e", "n">> # <<>>
      /\ <<"o", "n">> # <<>> /\ <<"i", "e", "l">> # <<>>
  OBVIOUS
<1>3. Suffix(lang, gender) \in {<<"n", "d", "i", "l">>, <<"w", "e", "n">>,
                                <<"o", "n">>, <<"i", "e", "l">>}
  <2>1. CASE lang = "q" /\ gender = "masculine"
    BY <2>1 DEF Suffix
  <2>2. CASE lang = "q" /\ gender = "feminine"
    BY <2>2 DEF Suffix
  <2>3. CASE lang # "q" /\ gender = "masculine"
    BY <2>3 DEF Suffix
  <2>4. CASE lang # "q" /\ gender = "feminine"
    BY <2>4 DEF Suffix
  <2>5. QED
    BY <2>1, <2>2, <2>3, <2>4
<1>4. QED
  BY <1>1, <1>2, <1>3 DEF Texts

\* The name generator compounds without loss.
LEMMA NameKept ==
    ASSUME IInv, NEW req \in NameRequests, GenerateName(req)
    PROVE  NamesKeepConsonants'
<1>1. /\ req.gender \in {"masculine", "feminine"}
      /\ req.concepts \in Seq(Seq(STRING))
  BY LexiconAssumption
<1> DEFINE found == [k \in DOMAIN req.concepts |-> Root(req.concepts[k], req.lang)]
           roots == Within(found, ToSet(found) \ {None})
           bases == [k \in DOMAIN roots |-> BaseForm(roots[k])]
           suffix == Suffix(req.lang, req.gender)
<1>2. found \in Seq(Line \cup {None})
  <2>1. PICK c \in Seq(Seq(STRING)) : c = req.concepts
    BY <1>1
  <2>2. DOMAIN c = 1..Len(c) /\ Len(c) \in Nat /\ \A k \in 1..Len(c) : c[k] \in Seq(STRING)
    OBVIOUS
  <2>3. \A k \in 1..Len(c) : Root(c[k], req.lang) \in Line \cup {None}
    BY <2>2, RootFound
  <2>4. found = [k \in 1..Len(c) |-> Root(c[k], req.lang)]
    BY <2>1, <2>2
  <2> HIDE DEF found
  <2>5. QED
    BY <2>2, <2>3, <2>4
<1> HIDE DEF found
<1>3. roots \in Seq(Line)
  <2>1. PICK r \in Seq(Line \cup {None}) :
           r = roots /\ ToSet(r) = ToSet(found) \cap (ToSet(found) \ {None})
    BY <1>2, ElementsOfWithin
  <2> HIDE DEF roots
  <2>2. \A k \in DOMAIN r : r[k] \in Line
    BY <2>1 DEF ToSet
  <2>3. r \in Seq(Line)
    BY <2>2
  <2>4. QED
    BY <2>1, <2>3
<1> HIDE DEF roots
<1>4. PICK E : E = STRING \cup {"n", "d", "i", "l", "w", "e", "o"}
  OBVIOUS
<1>5. {"n", "d", "i", "l", "w", "e", "o"} \subseteq E /\ STRING \subseteq E
  BY <1>4
<1>6. \A w \in Line : w.word \in Seq(E) /\ w.stem \in Seq(E)
  <2>1. \A w \in Line : w.word \in Seq(STRING) /\ w.stem \in Seq(STRING)
    BY DEF Line
  <2>2. ASSUME NEW s \in Seq(STRING) PROVE s \in Seq(E)
    <3>1. PICK D : D = STRING
      OBVIOUS
    <3>2. s \in Seq(D) /\ D \subseteq E
      BY <1>5, <3>1
    <3>3. \A k \in 1..Len(s) : s[k] \in E
      BY ONLY <3>2
    <3>4. QED
      BY ONLY <3>2, <3>3
  <2>3. QED
    BY <2>1, <2>2
<1>7. bases \in Seq(Seq(E))
  <2>1. DOMAIN roots = 1..Len(roots) /\ Len(roots) \in Nat
        /\ \A k \in 1..Len(roots) : roots[k] \in Line
    BY <1>3
  <2>2. \A k \in 1..Len(roots) : BaseForm(roots[k]) \in Seq(E)
    BY <1>6, <2>1, BaseFormText
  <2>3. bases = [k \in 1..Len(roots) |-> BaseForm(roots[k])]
    BY <2>1
  <2> HIDE DEF bases
  <2>4. QED
    BY <2>1, <2>2, <2>3
<1>8. suffix \in Texts(E)
  BY <1>1, <1>5, SuffixIsText
<1>9. \/ answer' = [kind |-> "error"]
      \/ answer' = [kind |-> "name", bases |-> bases, suffix |-> suffix,
                    name |-> AppendSuffix(Compound(bases), suffix)]
  BY DEF GenerateName, bases, roots, found
<1> HIDE DEF bases, suffix
<1>10. PICK D, S : D = ToSet(bases) /\ S = ToSet(bases) \ {<<>>}
  OBVIOUS
<1>11. PICK a, p : a = Compound(bases) /\ p = Within(bases, S)
  OBVIOUS
<1>12. a \in Seq(E) /\ p \in Seq(Texts(E)) /\ Made(a, p)
  <2>1. D \in SUBSET Seq(E) /\ bases \in Seq(D)
    BY <1>7, <1>10 DEF ToSet
  <2>2. \A b \in D : b \in S <=> b # <<>>
    BY <1>10
  <2>3. Compounded(E, S, bases)
    BY <1>5, <2>1, <2>2, CompoundMade
  <2>4. QED
    BY <1>11, <2>3 DEF Compounded
<1>13. PICK r, q : r = AppendSuffix(a, suffix) /\ q = Append(p, suffix)
  OBVIOUS
<1>14. Made(r, q)
  <2>1. suffix \in Seq(E) /\ suffix # <<>>
    BY <1>8 DEF Texts
  <2>2. r \in Seq(E) /\ Joined(r, a, suffix)
    BY <1>12, <1>13, <2>1, SuffixJoined
  <2>3. QED
    BY <1>8, <1>12, <1>13, <2>2, MadeJoined
<1>15. CASE answer' = [kind |-> "error"]
  BY <1>15 DEF NamesKeepConsonants
<1>16. CASE answer' # [kind |-> "error"]
  <2>1. answer'.bases = bases /\ answer'.suffix = suffix /\ answer'.name = r
    BY <1>9, <1>11, <1>13, <1>16
  <2>2. Append(Within(bases, ToSet(bases) \ {<<>>}), suffix) = q
    BY <1>10, <1>11, <1>13
  <2>3. /\ Consonants(r) = Total([i \in DOMAIN q |-> Consonants(q[i])])
        /\ Len(r) = Total([i \in DOMAIN q |-> Len(q[i])]) - Cardinality(Meets(q))
    BY <1>14 DEF Made, ConsonantsOf, LettersOf
  <2>4. QED
    BY <2>1, <2>2, <2>3 DEF NamesKeepConsonants
<1>17. QED
  BY <1>15, <1>16

LEMMA NextKeepsNames ==
    ASSUME IInv, NamesKeepConsonants, [Next]_vars
    PROVE  NamesKeepConsonants'
<1>1. ASSUME answer' = answer PROVE NamesKeepConsonants'
  BY <1>1 DEF NamesKeepConsonants
<1>2. ASSUME answer' = None \/ answer'.kind # "name" PROVE NamesKeepConsonants'
  BY <1>2 DEF NamesKeepConsonants
<1>3. CASE LoadLine
  BY <1>1, <1>3 DEF LoadLine
<1>4. ASSUME NEW q \in Questions, NEW f \in Filters, Enquire(q, f)
      PROVE  NamesKeepConsonants'
  <2>1. \/ answer' = [kind |-> "error"]
        \/ \E query, total, matches :
              answer' = [kind |-> "matches", query |-> query, filter |-> f,
                         total |-> total, matches |-> matches]
    BY <1>4 DEF Enquire
  <2>2. answer'.kind # "name"
    BY <2>1
  <2>3. QED
    BY <1>2, <2>2
<1>5. ASSUME NEW n \in Names, GetWordDetails(n)
      PROVE  NamesKeepConsonants'
  BY <1>2, <1>5 DEF GetWordDetails
<1>6. ASSUME NEW n \in Names, NEW direction \in {"ancestors", "descendants"},
             AskDerivations(n, direction)
      PROVE  NamesKeepConsonants'
  <2>1. answer'.kind # "name"
    BY <1>6 DEF AskDerivations
  <2>2. QED
    BY <1>2, <2>1
<1>7. ASSUME NEW n \in Names, StartAnchors(n)
      PROVE  NamesKeepConsonants'
  BY <1>1, <1>7 DEF StartAnchors
<1>8. CASE Walk
  <2>1. answer' = answer \/ answer'.kind = "anchors"
    BY <1>8 DEF Walk, WalkReturn, WalkSkip, WalkVisit
  <2>2. QED
    BY <1>1, <1>2, <2>1
<1>9. ASSUME NEW req \in NameRequests, GenerateName(req)
      PROVE  NamesKeepConsonants'
  BY <1>9, NameKept
<1>10. CASE Rest
  BY <1>2, <1>10 DEF Rest
<1>11. CASE UNCHANGED vars
  BY <1>1, <1>11 DEF vars
<1>12. QED
  BY <1>3, <1>4, <1>5, <1>6, <1>7, <1>8, <1>9, <1>10, <1>11 DEF Next
--------------------------------------------------------------------------------
(* The theorems. *)

\* No index, no traversal and no answer yet.
LEMMA InitHolds == Init => IInv
<1> SUFFICES ASSUME Init
             PROVE  IInv
  OBVIOUS
<1>1. file \in Seq(Line) /\ Len(file) \in Nat
  BY LexiconAssumption DEF Init
<1>2. \A x, y : ~Descends(y, x)
  BY <1>1 DEF Init, Descends
<1>3. TypeOK
  <2>1. next \in 1..(Len(file) + 1)
    BY <1>1 DEF Init
  <2>2. \A p \in DOMAIN trie : trie[p] \in Seq(Ids)
    BY DEF Init
  <2>3. \A t \in DOMAIN inverted : inverted[t] \in Seq(Ids)
    BY DEF Init
  <2> QED
    BY <2>1, <2>2, <2>3 DEF Init, TypeOK
<1>4. IndexFollowsFile
  <2>1. ToSet(<<>>) = {}
    BY DEF ToSet
  <2>2. \A n \in Names : words[n] = None /\ derivsSource[n] = <<>> /\ derivsTarget[n] = <<>>
    BY DEF Init
  <2>3. \A i \in DOMAIN file : ~(i < next)
    BY <1>1 DEF Init
  <2> QED
    BY <1>2, <2>1, <2>2, <2>3 DEF IndexFollowsFile, Known
<1>5. SearchFollowsFile
  <2>1. Read = {}
    BY <1>1 DEF Init, Read
  <2>2. DOMAIN trie = {<<>>} /\ trie[<<>>] = <<>> /\ DOMAIN inverted = {}
    BY DEF Init
  <2>3. IsFiniteSet({<<>>})
    BY FS_Singleton
  <2> QED
    BY <2>1, <2>2, <2>3 DEF SearchFollowsFile, IdsOf, ToSet
<1> QED
  BY <1>3, <1>4, <1>5 DEF Init, IInv, WalkOK, AnchorsAreExact, AnswersWait

\* Every step keeps the invariant.
LEMMA NextKeeps ==
    ASSUME IInv, [Next]_vars
    PROVE  IInv'
<1>1. CASE LoadLine
  BY <1>1, LoadLineKeeps
<1>2. ASSUME NEW q \in Questions, NEW f \in Filters, Enquire(q, f)
      PROVE  IInv'
  <2>1. UNCHANGED <<index, walk>> /\ Free
    BY <1>2 DEF Enquire
  <2>2. \/ answer' = [kind |-> "error"]
        \/ \E query, total, matches :
              answer' = [kind |-> "matches", query |-> query, filter |-> f,
                         total |-> total, matches |-> matches]
    BY <1>2 DEF Enquire
  <2>3. answer' = None \/ (answer' # None /\ answer'.kind # "anchors")
    BY <2>2
  <2> QED
    BY <2>1, <2>3, OtherAnswers
<1>3. ASSUME NEW n \in Names, GetWordDetails(n)
      PROVE  IInv'
  BY <1>3, OtherAnswers DEF GetWordDetails
<1>4. ASSUME NEW n \in Names, NEW direction \in {"ancestors", "descendants"},
             AskDerivations(n, direction)
      PROVE  IInv'
  <2>1. UNCHANGED <<index, walk>> /\ Free /\ answer'.kind # "anchors"
    BY <1>4 DEF AskDerivations
  <2> QED
    BY <2>1, OtherAnswers
<1>5. ASSUME NEW n \in Names, StartAnchors(n)
      PROVE  IInv'
  BY <1>5, StartAnchorsKeeps
<1>6. CASE Walk
  BY <1>6, WalkReturnKeeps, WalkSkipKeeps, WalkVisitKeeps DEF Walk
<1>7. ASSUME NEW req \in NameRequests, GenerateName(req)
      PROVE  IInv'
  <2>1. UNCHANGED <<index, walk>> /\ Free
    BY <1>7 DEF GenerateName
  <2>2. \/ answer' = [kind |-> "error"]
        \/ \E bases, suffix, name :
              answer' = [kind |-> "name", bases |-> bases, suffix |-> suffix, name |-> name]
    BY <1>7 DEF GenerateName
  <2>3. answer' = None \/ (answer' # None /\ answer'.kind # "anchors")
    BY <2>2
  <2> QED
    BY <2>1, <2>3, OtherAnswers
<1>8. CASE Rest
  BY <1>8, OtherAnswers DEF Rest
<1>9. CASE UNCHANGED vars
  <2>1. /\ UNCHANGED index /\ walk' = walk /\ answer' = answer /\ words' = words
        /\ walk' \in WalkState \cup {None}
    BY <1>9 DEF vars, index, IInv, TypeOK
  <2>2. WalkOK' /\ AnchorsAreExact' /\ AnswersWait'
    BY <2>1, IndexDecides DEF IInv, WalkOK, Pending, AnchorsAreExact, AnswersWait
  <2> QED
    BY <2>1, <2>2, IndexKept
<1> QED
  BY <1>1, <1>2, <1>3, <1>4, <1>5, <1>6, <1>7, <1>8, <1>9 DEF Next

\* Whatever the data file holds, the index is well-typed, its derivation maps say in both
\* directions what the lines read so far say, and a traversal of NewIndex's maps is on
\* course (index.go, NewIndex and GetRootAnchors).
THEOREM IndexIsFaithful == Spec => []IInv
<1>1. Init => IInv
  BY InitHolds
<1>2. IInv /\ [Next]_vars => IInv'
  BY NextKeeps
<1> QED
  BY <1>1, <1>2, PTL DEF Spec

\* Whatever cycles, diamonds, repetitions and unknown names the data holds, get_root_anchors
\* answers with the reachable names, each once (index.go, GetRootAnchors).
THEOREM AnchorsExact == Spec => []AnchorsAreExact
<1>1. IInv => AnchorsAreExact
  BY DEF IInv
<1> QED
  BY <1>1, IndexIsFaithful, PTL

\* Whatever the data file holds and is asked, a generated name has all consonants of its
\* roots and its suffix, changed perhaps but none dropped, and lacks just one vowel wherever
\* two meet (name_generate.go, JoinRoots and AppendSuffix).
THEOREM NamesKeepConsonantsAlways == Spec => []NamesKeepConsonants
<1>1. Init => IInv /\ NamesKeepConsonants
  BY InitHolds DEF Init, NamesKeepConsonants
<1>2. IInv /\ NamesKeepConsonants /\ [Next]_vars => (IInv /\ NamesKeepConsonants)'
  BY NextKeeps, NextKeepsNames
<1>3. QED
  BY <1>1, <1>2, PTL DEF Spec

LEMMA AnswersExact == Spec => [](IInv /\ SearchIsExact /\ DerivationsAreExact)
<1>1. Init => IInv /\ SearchIsExact /\ DerivationsAreExact
  BY InitHolds DEF Init, SearchIsExact, DerivationsAreExact
<1>2. /\ IInv /\ SearchIsExact /\ DerivationsAreExact
      /\ [Next]_vars
      => (IInv /\ SearchIsExact /\ DerivationsAreExact)'
  BY NextKeeps, NextAnswersExact
<1> QED
  BY <1>1, <1>2, PTL DEF Spec

\* Whatever the data file holds, enquire_lexicon counts exactly the words that pass the
\* filter and hold all tokens of the query or begin with it, shows each at most once and
\* the prefix hits last, and drops some only beyond the cap (main.go, EnquireLexicon with
\* SearchKeyword and SearchPrefix of index.go).
THEOREM SearchIsExactAlways == Spec => []SearchIsExact
  BY AnswersExact, PTL

\* Whatever the data file holds, get_derivations lists the known words one step away in it,
\* each once (index.go, GetDerivations).
THEOREM DerivationsAreExactAlways == Spec => []DerivationsAreExact
  BY AnswersExact, PTL
==============================================================================
