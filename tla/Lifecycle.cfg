\* One timer stands for the two, whose handlers have the same shape.
CONSTANTS
    Timers = {"watch"}
    UserOps = {"open", "close", "retry", "crcmon", "suspend", "resume", "disconnect"}
SPECIFICATION FairSpec
INVARIANTS TimersFollowInterface RadioOnInUse ReceiveArmed GoneIsQuiet
PROPERTIES SwitchIsNoticed
