\* A connection breaks while the handler of a delivery runs.
CONSTANTS
    Msgs = {m1, m2}
    Links = {l1, l2}
    FirstLink = l1
    MaxTimers = 3
    Breaks = {"outlive"}
SPECIFICATION MsgSpec
CHECK_DEADLOCK FALSE
INVARIANTS SettledMeansHandled
