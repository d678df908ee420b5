SPECIFICATION SettingsSpec
CONSTANTS
    MaxInt = 63
    Second = 5
    Numbers <- SomeNumbers
    Durations <- SomeDurations
    DefaultTTL = 6
    DefaultStop = 2
    MaxQueue = 20
    Unset = Unset
    Malformed = Malformed
CHECK_DEADLOCK FALSE
INVARIANT SettingsTypeOK
INVARIANT LifetimeAsAsked
PROPERTY NoDrift
