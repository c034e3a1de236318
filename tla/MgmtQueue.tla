------------------------------ MODULE MgmtQueue ------------------------------
(***************************************************************************)
(* The ring of management frames that the softmac layer keeps while the    *)
(* transmit queue is stopped (ieee80211_softmac.c, enqueue_mgmt,           *)
(* dequeue_mgmt and init_mgmt_queue; the three fields are                  *)
(* mgmt_queue_ring, mgmt_queue_head and mgmt_queue_tail of struct          *)
(* ieee80211_device).  This module has no state: it gives the operations   *)
(* as operators on a record, for the modules that hold such a ring.        *)
(***************************************************************************)
EXTENDS Integers

CONSTANTS
    MGMT_QUEUE_NUM,   \* number of slots of the ring (5 in ieee80211.h)
    Skb,              \* the socket buffers that may carry a frame
    NoSkb             \* the null pointer

ASSUME MgmtQueueAssumption ==
    /\ MGMT_QUEUE_NUM \in Nat
    /\ MGMT_QUEUE_NUM > 1
    /\ NoSkb \notin Skb

Slot == 0 .. MGMT_QUEUE_NUM - 1

MgmtQueueType == [head : Slot, tail : Slot, ring : [Slot -> Skb \cup {NoSkb}]]

NextSlot(i) == (i + 1) % MGMT_QUEUE_NUM

QueueEmpty(q) == q.tail = q.head

\* Mutant of QueueFull: frames are put into a full ring.
QueueNeverFull(q) == FALSE

QueueFull(q) == NextSlot(q.head) = q.tail

\* A full ring leaves the frame out; otherwise the head moves first and the
\* frame goes to the slot it reaches.
enqueue_mgmt(q, skb) ==
    IF QueueFull(q)
    THEN q
    ELSE [q EXCEPT !.head = NextSlot(q.head), !.ring[NextSlot(q.head)] = skb]

\* What dequeue_mgmt returns ...
dequeued_skb(q) == IF QueueEmpty(q) THEN NoSkb ELSE q.ring[q.tail]

\* ... and the ring it leaves: the slot at the old tail is read, not cleared.
dequeue_mgmt(q) ==
    IF QueueEmpty(q) THEN q ELSE [q EXCEPT !.tail = NextSlot(q.tail)]

\* Only the indices are reset: the slots keep the pointers they hold.
init_mgmt_queue(q) == [q EXCEPT !.head = 0, !.tail = 0]

\* The ring as alloc_ieee80211 leaves it: zeroed memory.
ZeroedQueue == [head |-> 0, tail |-> 0, ring |-> [i \in Slot |-> NoSkb]]

\* How many frames dequeue_mgmt will hand out before it reports an empty ring.
Backlog(q) == (q.head - q.tail + MGMT_QUEUE_NUM) % MGMT_QUEUE_NUM

\* The slot that the dequeue after j others will read.
LineSlot(q, j) == (q.tail + j) % MGMT_QUEUE_NUM

=============================================================================
