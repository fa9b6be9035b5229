\* A poll may return late, times are moved back at 2 and the queue of 2 grows
\* after it has wrapped around.
CONSTANTS
    inactivity = inactivity
    termination = termination
    Timers <- MCTimers
    Period <- MCPeriod
    InactivityTimeout = 2
    TerminationTimeout = 1
    Width = 4
    RescheduleAt = 2
    QueueSize = 2
    Senders = 2
    ReadSize = 2
    Steps = {500}
    MaxLate = 1
    MaxClock = 2000
    MaxMessages = 4
SPECIFICATION Spec
INVARIANTS
    QueueIsFifo
    RingSorted
    DueExpires
PROPERTIES
    NotTooEarly
    MessageProcessed
CHECK_DEADLOCK FALSE
