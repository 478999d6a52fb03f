----------------------------- MODULE Compounding -----------------------------
(***************************************************************************)
(* How name_generate.go picks a root among the words found for a concept and  *)
(* joins the roots and the suffix into a name.  A text is a sequence of        *)
(* letters, all of them lower case.                                           *)
(***************************************************************************)
EXTENDS Naturals, Sequences, SequencesExt, Lists

CONSTANTS Vowels,        \* the letters of the map `vowels`
          NounSpeeches,  \* parts of speech that contain "noun" or "adj"
          Blank,         \* the space between words
          None

\* The letters that assimilate, and what becomes of them, are consonants.
ASSUME CompoundingAssumption == {"n", "r", "t", "l", "d"} \cap Vowels = {}

IsUsableWord(w) == w.word # <<>> /\ Blank \notin ToSet(w.word)

\* The first usable noun or adjective of the best category, else the first usable word.
BestRoot(results) ==
    LET usable == Within(results, {w \in ToSet(results) : IsUsableWord(w)})
        nouns == Within(usable, {w \in ToSet(usable) : w.speech \in NounSpeeches})
        Of(category) == Within(nouns, {w \in ToSet(nouns) : w.category = category})
        ranked == Of("primary") \o Of("neo") \o nouns \o usable
    IN  IF ranked = <<>> THEN None ELSE Head(ranked)

TrimHyphens(s) == SubSeq(s, 1, Max({0} \cup {i \in DOMAIN s : s[i] # "-"}))

BaseForm(w) == TrimHyphens(IF w.stem = <<>> THEN w.word ELSE w.stem)

\* Both letters at the junction of two texts are vowels.
VowelsMeet(a, b) ==
    a # <<>> /\ b # <<>> /\ Last(a) \in Vowels /\ Head(b) \in Vowels

Elide(a, b) == IF VowelsMeet(a, b) THEN Front(a) ELSE a

\* A mutant: the assimilated consonant is written once.
AssimilateOnce(a, b) ==
    IF a # <<>> /\ b # <<>> /\ Last(a) \in {"n", "r", "t"} /\ Head(b) = "l"
    THEN Front(a) \o b
    ELSE a \o b

\* n+l and r+l give ll, t+l gives ld.
Assimilate(a, b) ==
    IF a = <<>> \/ b = <<>> \/ Last(a) \notin {"n", "r", "t"} \/ Head(b) # "l"
    THEN a \o b
    ELSE Front(a) \o <<"l", IF Last(a) = "t" THEN "d" ELSE "l">> \o Tail(b)

JoinRoots(a, b) == Assimilate(Elide(a, b), b)

\* The roots joined one after the other.
Compound(bases) ==
    LET joined[k \in 0..Len(bases)] ==
            IF k = 0 THEN <<>> ELSE JoinRoots(joined[k - 1], bases[k])
    IN  joined[Len(bases)]

AppendSuffix(base, suffix) == Elide(base, suffix) \o suffix

Suffix(lang, gender) ==
    CASE lang = "q" /\ gender = "masculine" -> <<"n", "d", "i", "l">>
      [] lang = "q" /\ gender = "feminine"  -> <<"w", "e", "n">>
      [] lang # "q" /\ gender = "masculine" -> <<"o", "n">>
      [] lang # "q" /\ gender = "feminine"  -> <<"i", "e", "l">>
==============================================================================
