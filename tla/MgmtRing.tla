------------------------------ MODULE MgmtRing -------------------------------
(***************************************************************************)
(* The ring of management frames as a component: frames arrive while the   *)
(* queue is stopped, leave when it is woken, and are thrown away when it   *)
(* is reset.  The order of operations is the callers': every one of them   *)
(* holds ieee->lock, so each operation is one step.                        *)
(***************************************************************************)
EXTENDS MgmtQueue, Sequences, FiniteSets

VARIABLES
    queue,       \* mgmt_queue_head, mgmt_queue_tail and mgmt_queue_ring
    owned,       \* the socket buffers the ring has been given and nobody freed
    waiting,     \* history: the slots filled since the last reset whose frame
                 \* has been neither handed out nor freed
    out,         \* the pointer handed to the driver last ...
    stale,       \* ... and (history) whether no frame waited in its slot
    did          \* the operation done last (a history variable: a frame that is
                 \* put in must not look like a flush)

ringVars == <<queue, owned, waiting, out, stale, did>>

RingTypeOK ==
    /\ queue \in MgmtQueueType
    /\ owned \in SUBSET Skb
    /\ waiting \in SUBSET Slot
    /\ out \in Skb \cup {NoSkb}
    /\ stale \in BOOLEAN
    /\ did \in {"put", "take", "flush"}

RingInit ==
    /\ queue = ZeroedQueue
    /\ owned = {} /\ waiting = {}
    /\ out = NoSkb /\ stale = TRUE
    /\ did = "flush"

-----------------------------------------------------------------------------

\* softmac_mgmt_xmit on a stopped queue.  The allocator may return any buffer
\* that is not in use; a frame that finds the ring full is freed at once.
Enqueue(skb) ==
    /\ skb \notin owned
    /\ did' = "put"
    /\ queue' = enqueue_mgmt(queue, skb)
    /\ IF QueueFull(queue)
       THEN UNCHANGED <<owned, waiting>>
       ELSE /\ owned' = owned \cup {skb}
            /\ waiting' = waiting \cup {NextSlot(queue.head)}
    /\ UNCHANGED <<out, stale>>

\* One turn of the loop of ieee80211_wake_queue: what comes out is given to
\* the driver, which copies it, and freed, whatever it points to.  A null
\* pointer ends the loop, but the tail has moved.
Dequeue ==
    /\ ~QueueEmpty(queue)
    /\ did' = "take"
    /\ out' = dequeued_skb(queue)
    /\ stale' = (queue.tail \notin waiting)
    /\ queue' = dequeue_mgmt(queue)
    /\ owned' = owned \ {dequeued_skb(queue)}
    /\ waiting' = {i \in waiting : queue.ring[i] # dequeued_skb(queue)}

\* The entries that the loop of ieee80211_reset_queue takes out: all that
\* dequeue_mgmt would return, up to the first null pointer.
Drained(q) ==
    {q.ring[LineSlot(q, j)] :
        j \in {k \in 0 .. Backlog(q) - 1 :
                  \A i \in 0 .. k : q.ring[LineSlot(q, i)] # NoSkb}}

\* What the loop does not reach stays allocated and is forgotten.
Reset ==
    /\ did' = "flush"
    /\ owned' = owned \ Drained(queue)
    /\ waiting' = {}
    /\ queue' = init_mgmt_queue(queue)
    /\ UNCHANGED <<out, stale>>

RingNext == (\E skb \in Skb : Enqueue(skb)) \/ Dequeue \/ Reset

RingSpec == RingInit /\ [][RingNext]_ringVars

-----------------------------------------------------------------------------

\* The slots from the tail to the head, both included, are the line of module
\* DelayLine: the frame written last sits at the head, where no dequeue looks
\* until another frame has moved the head on.
Line(q) == [j \in 1 .. Backlog(q) + 1 |-> q.ring[LineSlot(q, j - 1)]]

\* The ring as its callers must think of it: a slot in which no frame waits
\* holds nothing, whatever pointer is left there.
Seen(q, w) ==
    [q EXCEPT !.ring = [i \in Slot |-> IF i \in w THEN q.ring[i] ELSE NoSkb]]

Delay == INSTANCE DelayLine
           WITH Capacity <- MGMT_QUEUE_NUM,
                Frame <- Skb,
                Junk <- NoSkb,
                line <- Line(Seen(queue, waiting)),
                out <- IF stale THEN NoSkb ELSE out

\* The ring hands each frame out once, in the order they came, never overwrites
\* one that waits, and turns a newcomer away when full; it always keeps back
\* the frame that came last (enqueue_mgmt fills the slot after the head,
\* dequeue_mgmt reads the slot at the tail).  What it hands out first after
\* init_mgmt_queue, and only then or for a buffer which that hand-out freed
\* under a waiting frame, is a pointer that no frame waits behind.
ImplementsDelayLine == Delay!Spec

=============================================================================
