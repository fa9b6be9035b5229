---------------------------- MODULE MCPollerTask ----------------------------
(* The poller task with two timers, as the MRCPv2 agent has them for each  *)
(* connection: one with a long and one with a short timeout.               *)
EXTENDS PollerTask

CONSTANTS inactivity, termination, InactivityTimeout, TerminationTimeout

MCTimers == {inactivity, termination}
MCPeriod == [t \in MCTimers |->
                IF t = inactivity THEN InactivityTimeout ELSE TerminationTimeout]
=============================================================================
