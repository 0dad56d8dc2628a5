\* Everything may break: connections are refused, break while they are prepared,
\* while they are idle and under a running handler, handlers throw, the process
\* crashes.
CONSTANTS
    Msgs = {m1, m2}
    Links = {l1, l2}
    FirstLink = l1
    MaxTimers = 3
    Breaks = {"idle", "outlive", "setup", "throw", "crash"}
SPECIFICATION MsgFairSpec
INVARIANTS MsgTypeOK NeverStranded
PROPERTIES OnlyStaleSettlesOthers ReadsAgain
