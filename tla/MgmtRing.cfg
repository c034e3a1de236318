\* Five buffers for a ring of four slots: the ring fills, wraps, is reset with
\* frames in it, and buffers are freed and used again.
CONSTANTS
    MGMT_QUEUE_NUM = 4
    Skb = {s1, s2, s3, s4, s5}
    NoSkb = NoSkb
SPECIFICATION RingSpec
PROPERTY ImplementsDelayLine
