SPECIFICATION FairPartsSpec
CONSTANTS
    N = 2
    MayCrash = {1, 2}
    MayFail = TRUE
    LinuxDurations = {1, 2, 3, 5}
    Nano = 2
    GenodeDurations = {1, 2, 3}
    Micro = 2
    MaxTime = 8
INVARIANTS TypeOK OwnPidOnly NoneAbandoned
PROPERTIES VacatedIsReported EveryMessageRead InputIsHandled VacatedExits
           LinuxKeepsPromise GenodeKeepsMicros TimersFire
CHECK_DEADLOCK FALSE
