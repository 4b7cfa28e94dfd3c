\* Every combination of answers from the two sources, under every status and
\* jurisdiction rule; every limit with every counter, up to the width of an
\* amount; and every array of well and badly formed slots.
CONSTANTS
    Jurisdiction = {1, 2, 3}
    Capitals = {1, 2}
    MaxU64 = 9
    MaxSlots = 4
    Fields = 4
    MinAge = 1
    MaxAge = 2
    MinPeriod = 1
    MaxPeriod = 2
    Start = 3
    Families <- MCFamilies
SPECIFICATION AccountSpec
CHECK_DEADLOCK FALSE
INVARIANTS TwinsAgree AllowedOnRecordsAlone SecondSourceNarrows OneSpelling
