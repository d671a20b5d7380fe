SPECIFICATION Spec
CONSTANTS
    Starts <- MCStarts
    Gaps = {86400}
    Years = 5
    RTC_FREQ = 2
    MaxInterrupts = 3
    MaxUpdates = 3
    Permitted = {}
INVARIANT DatesAreRight
INVARIANT RateIsSet
CHECK_DEADLOCK FALSE
