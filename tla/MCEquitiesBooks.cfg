SPECIFICATION BooksSpec
CONSTANTS
    acme = acme
    beta = beta
    Issue = {acme, beta}
    EntryId = {"buy", "more", "undo", "swap"}
    SourceEvent = {"e1", "e2", "e3", "e4"}
    Draft <- Drafts
    Level = {0, 1, 2}
    MaxEntries = 3
INVARIANTS
    ReplayRebuilds
    AnswersAreTrue
    DifferencesAreRaised
