\* Fragments that arrive while a key is set: one MSDU of each station.
CONSTANTS
    ap = ap
    sta = sta
    Sender = {ap, sta}
    Mode = {"infra"}
    CACHE_LEN = 2
    FRAG_LIFE = 0
    RETRY_TIME = 1
    COPY_TIME = 0
    SeqMod = 2
    MaxMsdu <- OneMsdu
    OpenWep = {FALSE}
    MaxCopies <- Twice
    Starved = {sta}
    MaxTime = 1
    KeyTime = 1
    Shape <- DropShapes
SPECIFICATION Spec
INVARIANT DroppedIsAllocated
CHECK_DEADLOCK FALSE
