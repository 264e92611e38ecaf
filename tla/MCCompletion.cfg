CONSTANTS
    Pieces <- MCPieces
    StopWords <- MCStopWords
    Disallowed <- MCDisallowed
    ContextSize = 5
    Cells = 5
    BatchSize = 2
    MaxMessages = 4
SPECIFICATION FairCompletionSpec
INVARIANTS CompletionTypeOK WholeCharacters NothingLost NoStopWordGetsOut
    AnswerAgreesWithRecord FedOnce ContextHoldsTheText
PROPERTY CompletionsEnd
CHECK_DEADLOCK FALSE
