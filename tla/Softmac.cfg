\* Both modes and every request; two channels, so that a scan has a step between
\* its first channel and its last.
CONSTANTS
    Modes = {"INFRA", "ADHOC"}
    UserOps = {"up", "down", "restart", "network", "mode", "mlme", "scan"}
    Channels = 2
SPECIFICATION Spec
INVARIANTS TypeOK SemAccounting NoAsyncScanInHandshake HandshakeIsTimed LinkedGetsCarrier
