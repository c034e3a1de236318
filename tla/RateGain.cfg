CONSTANTS
    Traffic <- Periods
    UserRate = {60}
    NoDataPeriods = 1
    TryUpPeriods = 1
    TryDownPeriods = 1
    UpgradeVotes = 1
    CountWrap = 3
SPECIFICATION FairSpec
INVARIANT GainIsOnTheChip
PROPERTIES QuietClimbs RateFollowsLosses LowersAfterQuiet
