SPECIFICATION Spec
CONSTANTS
    BufferLast = 3
    QueueLimit = 4
    MaxText = 4
    MaxSessions = 1
INVARIANT FlushedIsWritten
CHECK_DEADLOCK FALSE
