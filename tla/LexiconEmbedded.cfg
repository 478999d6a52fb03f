\* The derivations of two words of the embedded file.
CONSTANTS
    None = None
    Blank = " "
    Vowels = {"a", "e", "o", "E", "A"}
    NounSpeeches = {"noun", "adj"}
    NameSpeeches = {"masc-name", "place-name"}
    Letters = {"a", "c", "e", "k", "l", "m", "n", "o", "p", "r"}
    StopWords <- MCStopWords
    Ids = {"444171573", "3708293651"}
    Names = {"444171573", "3708293651", "calar", "galar", "kal"}
    Spelling <- MCSpelling
    Files <- EmbeddedFiles
    Questions <- MCQuestions
    Filters <- MCFilters
    NameRequests <- MCNameRequests
    Cap = 2
SPECIFICATION Spec
INVARIANT NamedDerivationsAreFound
