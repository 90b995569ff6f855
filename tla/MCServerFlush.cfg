CONSTANTS
    Fds = {3, 4}
    kMaxBufferSize = 1
    kMaxNbCmd = 1
    InitialState = 1
    MaxConnections = 3
    MaxQueue = 3
    MaxLines = 1

SPECIFICATION Spec

PROPERTY AnswersAreFlushed

\* poll waits for ever when no client is left to say anything.
CHECK_DEADLOCK FALSE
