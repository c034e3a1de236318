CONSTANTS
    WEP_KEYS = 2
    Obj = {o1, o2}
    None = None
    Alg = {"TKIP", "CCMP"}
    Key = {k1}
    IvMod = 2
    MaxIv32 = 1
    Byte = 6
    PnLen = 3
    WepKeyLen = 2
SPECIFICATION Spec
SYMMETRY Symmetry
INVARIANTS KeysAccounted KeyOutlivesItsUse SentFramesDecrypt ReceivedFramesDecrypt CountersGoOn
CHECK_DEADLOCK FALSE
