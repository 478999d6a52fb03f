\* A caller that goes away while an answer is streamed
\* leaves no line in the usage log.
SPECIFICATION Spec
CONSTANTS
    Words <- MCWords
    Calls <- MCCalls
    LLMConfigs = {TRUE, FALSE}
    Chunks <- MCChunks
    MaxText = 4
    FlushAt = 2
INVARIANT EveryInvocationIsLogged
