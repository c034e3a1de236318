\* Two contexts, so that the queue stops and the index wraps; frames of two
\* fragments, so that one can be interrupted; a ring of three slots, two of them
\* usable; one management frame, as frames are told apart in MgmtRing.
CONSTANTS
    MGMT_QUEUE_NUM = 3
    Skb = {s}
    NoSkb = NoSkb
    MAX_TX_URB = 2
    MaxFrags = 2
    NoTxb = NoTxb
SPECIFICATION FairSpec
INVARIANTS CounterMatchesPipe StoppedQueueHasWaker ResumesWhereItStopped
PROPERTIES QueueIsWoken PendingIsResumed
