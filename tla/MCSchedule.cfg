SPECIFICATION Spec
CONSTANTS
    DayLength = 6
    Second = 2
    WeekLength = 3
    MaxInstant = 24
    Zones <- MCZones
    Resets = {0, 1, 2, 3, 4, 5}
    Schedules <- MCSchedules
INVARIANTS DayIsInterval StartLiesInDay CountdownIsExact AllowedInPeriods
