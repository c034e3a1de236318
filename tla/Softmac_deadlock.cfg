CONSTANTS
    Modes = {"INFRA"}
    UserOps = {"up", "network", "scan"}
    Channels = 1
SPECIFICATION FairSpec
PROPERTY SemComesBack
