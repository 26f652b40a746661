SPECIFICATION FairSpec
CONSTANTS
    c1 = c1
    c2 = c2
    Calls = {c1, c2}
    Command <- OwnCommands
    Saga <- OneSaga
    NoSaga = "no saga"
    NeedReply = {c1}
    MaxReplies <- RepliesOf
CHECK_DEADLOCK FALSE
INVARIANTS AnswerDelivered WaitersFound NoStaleState
PROPERTIES Answered CallsReturn
