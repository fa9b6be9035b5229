\* Every poll returns in time; times are moved back at the end of the long
\* timeout, as 0xFFFF ms are with an inactivity timeout of 600 s.
CONSTANTS
    inactivity = inactivity
    termination = termination
    Timers <- MCTimers
    Period <- MCPeriod
    InactivityTimeout = 4
    TerminationTimeout = 1
    Width = 4
    RescheduleAt = 3
    QueueSize = 2
    Senders = 1
    ReadSize = 2
    Steps = {1000}
    MaxLate = 0
    MaxClock = 6000
    MaxMessages = 1
SPECIFICATION Spec
INVARIANT NoneOverdue
CHECK_DEADLOCK FALSE
