\* What the loop owes its sessions.
SPECIFICATION Spec
CONSTANTS
    MaxSid = 2
    MaxSessions = 0
    Timeouts = {{}, {"hello_wait", "idle"}}
    Sendable = {"connect", "hello", "rpc", "kill", "garbage", "eof"}
    MaxInput = 1
    MaxBacklog = 1
CHECK_DEADLOCK TRUE
PROPERTIES Served HelloEnds CcExpires
