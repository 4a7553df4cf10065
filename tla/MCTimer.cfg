CONSTANTS
    Proc = {p1, p2}
    vfs_bcacheflush = vfs_bcacheflush
    fdc_disablemotors = fdc_disablemotors
    FlushTicks = 3
    MotorTicks = 2
    Naps = {0, 1, 3}
    MaxEntries = 4
SPECIFICATION TimerSpec
INVARIANT AlarmsAreSet
PROPERTIES ImplementsAlarms SleepersWake
