CONSTANTS
    Modes = {"INFRA", "ADHOC"}
    UserOps = {"up", "network", "mode"}
    Channels = 1
SPECIFICATION FairSpec
PROPERTIES  UserReturns
