\* A PHY worker runs timer 0 when it is not running.
CONSTANTS
    NofTimers = 2
    PhyTimers <- MCFirst
    PhyGuarded = TRUE
    Durations <- MCDurations3
    TimeMod = 32
    LastTick = 6
    Operations <- MCStopClear
SPECIFICATION Spec
INVARIANTS QueueCovers
PROPERTIES ClockSpec
CHECK_DEADLOCK FALSE
