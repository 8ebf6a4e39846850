\* Sessions that are killed while they wait in the ready queue.
SPECIFICATION Spec
CONSTANTS
    MaxSid = 3
    MaxSessions = 2
    Timeouts = {{"hello_wait"}}
    Sendable = {"connect", "hello", "kill"}
    MaxInput = 2
    MaxBacklog = 1
CHECK_DEADLOCK TRUE
INVARIANTS TypeOK ReadyQueued
