\* The agent: every combination of scopes and triggers, LLM answers of up to
\* 4 tokens, callers that may go away at any event.
SPECIFICATION FairSpec
CONSTANTS
    Words <- MCWords
    Calls <- MCCalls
    LLMConfigs = {TRUE, FALSE}
    Chunks <- MCChunks
    MaxText = 4
    FlushAt = 2
INVARIANTS
    TypeOK
    IInv
    TasksAreAllowed
    NothingIsLost
    AnswerIsKept
    LedgerAgrees
PROPERTIES
    SilentOnceStopped
    TasksEnd
    FollowsTaskLife
