SPECIFICATION FairSpec
CONSTANTS
    Motor = {left, right}
    Word = 4
    IntRange = 16
    BootTicks = {1}
    SleepTicks = {655}
    MaxTurns = 3
INVARIANTS TypeOK CountErrorBounded NoZeroDivision SpeedsOfOnePass
PROPERTIES TornOnlyAcrossWords StandstillIsMeasured
