SPECIFICATION MCSpec
CONSTANTS
    NoExec = NoExec
    NoSession = NoSession
    NoKey = NoKey
    NoId = NoId
    busy = busy
    quiet = quiet
    call = call
    again = again
    other = other
    accept = accept
    finish = finish
    first = first
    second = second
    shared = shared
    Sessions <- MCSessions
    Execs = {e1}
    MaxEvents = 10
    MaxTail = 4
    MaxAppended <- MCAppended
    Puts <- MCPuts
    Updates <- MCUpdates
    ExecIds = {first, second}
    Keys = {shared}
    ExecOf <- MCExecOf
    KeyOf <- MCKeyOf
    MaxFaults = 2
INVARIANTS SessionAnswers ExecAnswers Idempotent UpdatesKept
PROPERTIES PortKept
CHECK_DEADLOCK FALSE
