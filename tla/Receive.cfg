\* Two stations and two sequence numbers, a cache of two entries: the turn of
\* frag_next_idx, the expiry and the return of a number all happen.
CONSTANTS
    ap = ap
    sta = sta
    Sender = {ap, sta}
    Mode = {"adhoc", "infra", "monitor"}
    CACHE_LEN = 2
    FRAG_LIFE = 0
    RETRY_TIME = 1
    COPY_TIME = 0
    SeqMod = 2
    MaxMsdu <- Msdus
    OpenWep = {FALSE}
    MaxCopies <- Copies
    Starved = {sta}
    MaxTime = 1
    KeyTime = 1
    Shape <- Shapes
SPECIFICATION Spec
INVARIANTS FramesAreWhole CacheOwnsItsBuffers AtMostOnce DuplicatesAreCopies
CHECK_DEADLOCK FALSE
