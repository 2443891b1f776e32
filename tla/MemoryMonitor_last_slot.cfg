SPECIFICATION MonitorSpec
CONSTANTS
    Period = 3
    Store = 15
    Minute = 3
    LastMinutes <- Windows
    Half = 22
    MaxLate = 1
    MaxCompose = 1
INVARIANT LastSlotIsStartup
