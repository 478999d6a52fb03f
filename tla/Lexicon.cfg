\* Six lines that refer to each other by id, in files of up to four; a cap of two matches.
CONSTANTS
    None = None
    Blank = " "
    Vowels = {"a", "e", "o", "E", "A"}
    NounSpeeches = {"noun", "adj"}
    NameSpeeches = {"masc-name", "place-name"}
    Letters = {"a", "c", "e", "k", "l", "m", "n", "o", "p", "r"}
    StopWords <- MCStopWords
    Ids = {"w1", "w2", "w3", "w4", "w5", "w6"}
    Names = {"w1", "w2", "w3", "w4", "w5", "w6", "kal"}
    Spelling <- MCSpelling
    Files <- MCFiles
    Questions <- MCQuestions
    Filters <- MCFilters
    NameRequests <- MCNameRequests
    Cap = 2
SPECIFICATION Spec
INVARIANTS IInv AnchorsAreExact DerivationsAreExact SearchIsExact NamesKeepConsonants
PROPERTIES WalksEnd
