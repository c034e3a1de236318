\* The sizes of the code, with a pool of two blocks; no crypto and the longest
\* (TKIP); payloads that fill one fragment to the byte, overflow it by one, and
\* the largest of the default MTU; one that an MTU of 3000 allows, which a block
\* cannot hold at the small thresholds (the model stops there); thresholds out of
\* bounds on both sides, odd, and in the middle.
CONSTANTS
    MAX_TX_SKB = 2
    MAX_NUM_FRAGS = 8
    MIN_FRAG_THRESHOLD = 256
    MAX_FRAG_THRESHOLD = 2346
    DEFAULT_FRAG_THRESHOLD = 2342
    HDR_LEN = 24
    Overhead = {0, 20}
    Msdu = {212, 213, 1508, 3008}
    DEFAULT_MSDU = 1508
    FragValue = {100, 257, 700, 2347}
    MaxRaw = 2
SPECIFICATION Spec
INVARIANTS FragmentsFit FragmentsCarryThePayload PoolNeverCloses SpareBuffersAreEmpty
CHECK_DEADLOCK FALSE
