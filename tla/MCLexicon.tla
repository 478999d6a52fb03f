------------------------------ MODULE MCLexicon ------------------------------
(* Small lexicons for TLC.  E and A stand for the long vowels. *)
EXTENDS Lexicon

MCStopWords == {<<"a", "n">>}

\* A name is written as itself; no word is spelt as its id.
MCSpelling == [n \in Names |-> IF n = "kal" THEN <<"k", "a", "l">> ELSE <<n>>]

Entry(id, word, gloss) ==
    [id |-> id, word |-> word, stem |-> <<>>, gloss |-> gloss, language |-> "q",
     speech |-> "n", category |-> "", refs |-> <<>>, derivs |-> <<>>]

kal == <<"k", "a", "l">>
lamp == <<"l", "a", "m", "p">>
on == <<"o", "n">>

\* A root that derives a name which refers back to it; a name that refers to itself,
\* twice; a word that names an unknown one by its spelling; a phrase.
root == [Entry("w1", kal \o <<"-">>, lamp) EXCEPT
            !.speech = "root", !.derivs = <<"w2", "w3">>]
name == [Entry("w2", <<"k", "a", "l", "e">>, on) EXCEPT
            !.speech = "masc-name", !.category = "primary",
            !.refs = <<"w1", "w3", "w1">>, !.stem = <<"k", "a", "n">>]
self == [Entry("w3", <<"l", "E", "t">>, on \o <<" ">> \o lamp) EXCEPT
            !.speech = "place-name", !.refs = <<"w3", "w3", "kal">>, !.derivs = <<"w4">>]
noun == [Entry("w4", <<"a", "n">>, lamp) EXCEPT
            !.speech = "noun", !.language = "s", !.category = "neo",
            !.refs = <<"kal">>, !.derivs = <<"w2">>]
phrase == [Entry("w5", <<"a", " ", "l", "a">>, <<"l", "a", ",", "k", "a">>) EXCEPT
            !.category = "primary", !.stem = <<"l", "A">>]
lone == [Entry("w6", <<"a">>, <<"l", "a">>) EXCEPT !.speech = "noun", !.language = "s"]

Pool == {root, name, self, noun, phrase, lone}

\* Every file of up to three lines, and the four tangled lines in every order.
MCFiles ==
    UNION {SetToAllKPermutations(T) : T \in kSubset(3, Pool)}
    \cup SetToSeqs({root, name, self, noun})

MCQuestions ==
    {<<>>, <<" ">>, <<"k">>, kal, lamp, on, <<" ", "l", "a", " ">>, <<"a", " ", "l">>,
     on \o <<" ">> \o lamp, lamp \o <<",">> \o kal, <<"E">>, <<"o", "n", "e">>}

NoFilter == [language |-> "", speech |-> "", category |-> ""]
MCFilters == {NoFilter, [NoFilter EXCEPT !.language = "q"], [NoFilter EXCEPT !.category = "primary", !.speech = "n"]}

MCNameRequests ==
    [lang : {"q", "s"}, gender : {"masculine", "feminine"},
     concepts : {<<lamp>>, <<on, lamp>>, <<<<"l", "a">>, lamp>>, <<lamp, <<"l", "a">>, kal>>}]

--------------------------------------------------------------------------------
(* Two lines of the embedded file, with the refs and derivs they have there. *)

Calar == [Entry("444171573", <<"c", "a", "l", "a", "r">>, lamp) EXCEPT
            !.language = "s", !.refs = <<"calar", "galar", "calar">>, !.derivs = <<"kal">>]
Kal == [Entry("3708293651", kal, <<"l", "i", "g", "h", "t">>) EXCEPT
            !.language = "p", !.speech = "root", !.refs = <<"kal", "kal">>]

EmbeddedFiles == {<<Calar, Kal>>, <<Kal, Calar>>}
==============================================================================
