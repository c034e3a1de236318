---------------------------- MODULE TxPath_proofs ----------------------------
(***************************************************************************)
(* For every number of contexts, ring slots and fragments: the ring of     *)
(* management frames keeps its type and implements the delay line, and the *)
(* safety invariants of the transmit path that it is a part of hold.       *)
(***************************************************************************)
EXTENDS TxPath, MgmtRing, TLAPS

(***************************************************************************)
(* The operators on the ring.                                              *)
(***************************************************************************)
\* The index arithmetic wraps at most once.
LEMMA ModValue ==
    ASSUME NEW a \in 0 .. 2 * MGMT_QUEUE_NUM - 1
    PROVE a % MGMT_QUEUE_NUM = IF a < MGMT_QUEUE_NUM THEN a ELSE a - MGMT_QUEUE_NUM
  <1>1. CASE a < MGMT_QUEUE_NUM
    BY <1>1, MgmtQueueAssumption, SMT
  <1>2. CASE a >= MGMT_QUEUE_NUM
    BY <1>2, MgmtQueueAssumption, SMT
  <1> QED
    BY <1>1, <1>2, MgmtQueueAssumption, SMT

LEMMA NextSlotInSlot == ASSUME NEW i \in Slot PROVE NextSlot(i) \in Slot
  BY MgmtQueueAssumption, SMT DEF Slot, NextSlot

LEMMA NextSlotValue ==
    ASSUME NEW i \in Slot
    PROVE NextSlot(i) = IF i = MGMT_QUEUE_NUM - 1 THEN 0 ELSE i + 1
  BY MgmtQueueAssumption, SMT DEF Slot, NextSlot

LEMMA SlotArithmetic ==
    ASSUME NEW h \in Slot, NEW t \in Slot
    PROVE h - t + MGMT_QUEUE_NUM \in 0 .. 2 * MGMT_QUEUE_NUM - 1
  BY MgmtQueueAssumption, SMT DEF Slot

LEMMA BacklogValue ==
    ASSUME NEW q \in MgmtQueueType
    PROVE Backlog(q) = IF q.head >= q.tail THEN q.head - q.tail
                       ELSE q.head - q.tail + MGMT_QUEUE_NUM
  <1> DEFINE h == q.head
             t == q.tail
             a == h - t + MGMT_QUEUE_NUM
  <1>1. h \in Slot /\ t \in Slot
    BY DEF MgmtQueueType
  <1>2. a % MGMT_QUEUE_NUM = IF a < MGMT_QUEUE_NUM THEN a ELSE a - MGMT_QUEUE_NUM
    BY <1>1, SlotArithmetic, ModValue
  <1>3. Backlog(q) = a % MGMT_QUEUE_NUM
    BY DEF Backlog
  <1> HIDE DEF h, t
  <1>4. Backlog(q) = IF h >= t THEN h - t ELSE h - t + MGMT_QUEUE_NUM
    BY <1>1, <1>2, <1>3, MgmtQueueAssumption, SMT DEF Slot
  <1> QED
    BY <1>4 DEF h, t

LEMMA BacklogRange ==
    ASSUME NEW q \in MgmtQueueType
    PROVE Backlog(q) \in 0 .. MGMT_QUEUE_NUM - 1
  BY MgmtQueueAssumption, SMT DEF MgmtQueueType, Slot, Backlog

LEMMA LineSlotValue ==
    ASSUME NEW q \in MgmtQueueType, NEW j \in 0 .. MGMT_QUEUE_NUM - 1
    PROVE LineSlot(q, j) = IF q.tail + j < MGMT_QUEUE_NUM THEN q.tail + j
                           ELSE q.tail + j - MGMT_QUEUE_NUM
  <1> DEFINE t == q.tail
             a == t + j
  <1>1. t \in Slot
    BY DEF MgmtQueueType
  <1>2. LineSlot(q, j) = a % MGMT_QUEUE_NUM
    BY DEF LineSlot
  <1> HIDE DEF t
  <1>3. a \in 0 .. 2 * MGMT_QUEUE_NUM - 1
    BY <1>1, MgmtQueueAssumption, SMT DEF Slot
  <1> HIDE DEF a
  <1>4. a % MGMT_QUEUE_NUM = IF a < MGMT_QUEUE_NUM THEN a ELSE a - MGMT_QUEUE_NUM
    BY <1>3, ModValue
  <1>5. LineSlot(q, j) = IF a < MGMT_QUEUE_NUM THEN a ELSE a - MGMT_QUEUE_NUM
    BY <1>2, <1>4
  <1>6. LineSlot(q, j) = IF t + j < MGMT_QUEUE_NUM THEN t + j
                         ELSE t + j - MGMT_QUEUE_NUM
    BY <1>1, <1>3, <1>5, MgmtQueueAssumption, SMT DEF a, Slot
  <1> QED
    BY <1>6 DEF t

\* The operations keep the type of the ring.
LEMMA OperationsKeepType ==
    ASSUME NEW q \in MgmtQueueType, NEW s \in Skb \cup {NoSkb}
    PROVE /\ enqueue_mgmt(q, s) \in MgmtQueueType
          /\ dequeue_mgmt(q) \in MgmtQueueType
          /\ init_mgmt_queue(q) \in MgmtQueueType
          /\ dequeued_skb(q) \in Skb \cup {NoSkb}
  <1>1. NextSlot(q.head) \in Slot /\ NextSlot(q.tail) \in Slot
    BY NextSlotInSlot DEF MgmtQueueType
  <1>2. 0 \in Slot
    BY MgmtQueueAssumption, SMT DEF Slot
  <1> QED
    BY <1>1, <1>2
    DEF MgmtQueueType, enqueue_mgmt, dequeue_mgmt, init_mgmt_queue, dequeued_skb

(***************************************************************************)
(* The ring as a component.                                                *)
(***************************************************************************)
\* The ring keeps its type whatever the callers do (enqueue_mgmt,
\* dequeue_mgmt, init_mgmt_queue): the indices never leave the ring.
THEOREM RingTypeCorrect == RingSpec => []RingTypeOK
  <1>1. RingInit => RingTypeOK
    BY MgmtQueueAssumption, SMT
    DEF RingInit, RingTypeOK, ZeroedQueue, MgmtQueueType, Slot
  <1>2. RingTypeOK /\ [RingNext]_ringVars => RingTypeOK'
    <2> SUFFICES ASSUME RingTypeOK, [RingNext]_ringVars PROVE RingTypeOK'
      OBVIOUS
    <2>1. ASSUME NEW skb \in Skb, Enqueue(skb) PROVE RingTypeOK'
      <3>1. NextSlot(queue.head) \in Slot
        BY NextSlotInSlot DEF RingTypeOK, MgmtQueueType
      <3> QED
        BY <2>1, <3>1, OperationsKeepType DEF RingTypeOK, Enqueue
    <2>2. CASE Dequeue
      BY <2>2, OperationsKeepType DEF RingTypeOK, Dequeue
    <2>3. CASE Reset
      BY <2>3, OperationsKeepType DEF RingTypeOK, Reset
    <2>4. CASE UNCHANGED ringVars
      BY <2>4 DEF RingTypeOK, ringVars
    <2> QED
      BY <2>1, <2>2, <2>3, <2>4 DEF RingNext
  <1> QED
    BY <1>1, <1>2, PTL DEF RingSpec

-----------------------------------------------------------------------------

Entry == Skb \cup {NoSkb}

\* The line is a sequence of one entry more than the backlog.
LEMMA LineIsSeq ==
    ASSUME NEW q \in MgmtQueueType
    PROVE /\ Line(q) \in Seq(Entry)
          /\ Len(Line(q)) = Backlog(q) + 1
          /\ \A j \in 1 .. Backlog(q) + 1 :
                Line(q)[j] = q.ring[LineSlot(q, j - 1)]
  <1>1. Backlog(q) \in Nat /\ Backlog(q) + 1 \in Nat
    BY BacklogRange, MgmtQueueAssumption, SMT
  <1>2. \A j \in 1 .. Backlog(q) + 1 : LineSlot(q, j - 1) \in Slot
    BY MgmtQueueAssumption, SMT DEF MgmtQueueType, Slot, LineSlot, Backlog
  <1>3. \A j \in 1 .. Backlog(q) + 1 : q.ring[LineSlot(q, j - 1)] \in Entry
    BY <1>2 DEF MgmtQueueType, Entry
  <1>4. Line(q) \in [1 .. Backlog(q) + 1 -> Entry]
    BY <1>3 DEF Line
  <1>5. Line(q) \in Seq(Entry)
    BY <1>1, <1>4
  <1>6. Len(Line(q)) = Backlog(q) + 1
    BY <1>1, <1>4, <1>5
  <1> QED
    BY <1>5, <1>6 DEF Line

\* The frame that stands j places behind the tail sits in a slot of the ring,
\* never in the one after the head, and the head is the last of the line.
LEMMA LineSlotPlace ==
    ASSUME NEW q \in MgmtQueueType, NEW j \in 0 .. Backlog(q)
    PROVE /\ LineSlot(q, j) \in Slot
          /\ LineSlot(q, Backlog(q)) = q.head
          /\ ~QueueFull(q) => LineSlot(q, j) # NextSlot(q.head)
  <1> DEFINE h == q.head
             t == q.tail
             b == Backlog(q)
  <1>1. h \in Slot /\ t \in Slot
    BY DEF MgmtQueueType
  <1>2. b = IF h >= t THEN h - t ELSE h - t + MGMT_QUEUE_NUM
    BY BacklogValue
  <1>3. b \in 0 .. MGMT_QUEUE_NUM - 1
    BY BacklogRange
  <1>4. j \in 0 .. MGMT_QUEUE_NUM - 1 /\ j <= b
    BY <1>3, MgmtQueueAssumption, SMT
  <1>5. LineSlot(q, j) = IF t + j < MGMT_QUEUE_NUM THEN t + j
                         ELSE t + j - MGMT_QUEUE_NUM
    BY <1>4, LineSlotValue
  <1>6. LineSlot(q, b) = IF t + b < MGMT_QUEUE_NUM THEN t + b
                         ELSE t + b - MGMT_QUEUE_NUM
    BY <1>3, LineSlotValue
  <1>7. NextSlot(h) = IF h = MGMT_QUEUE_NUM - 1 THEN 0 ELSE h + 1
    BY <1>1, NextSlotValue
  <1>8. QueueFull(q) <=> NextSlot(h) = t
    BY DEF QueueFull
  <1> HIDE DEF h, t, b
  <1>9. LineSlot(q, j) \in Slot
    BY <1>1, <1>4, <1>5, MgmtQueueAssumption, SMT DEF Slot
  <1>10. LineSlot(q, b) = h
    BY <1>1, <1>2, <1>6, MgmtQueueAssumption, SMT DEF Slot
  <1>11. NextSlot(h) # t => LineSlot(q, j) # NextSlot(h)
    BY <1>1, <1>2, <1>4, <1>5, <1>7, MgmtQueueAssumption, SMT DEF Slot
  <1> QED
    BY <1>8, <1>9, <1>10, <1>11 DEF h, b

\* A full ring is one whose backlog is one short of the slots.
LEMMA FullMeansBacklog ==
    ASSUME NEW q \in MgmtQueueType
    PROVE /\ QueueFull(q) <=> Backlog(q) = MGMT_QUEUE_NUM - 1
          /\ QueueEmpty(q) <=> Backlog(q) = 0
  <1> DEFINE h == q.head
             t == q.tail
             b == Backlog(q)
  <1>1. h \in Slot /\ t \in Slot
    BY DEF MgmtQueueType
  <1>2. b = IF h >= t THEN h - t ELSE h - t + MGMT_QUEUE_NUM
    BY BacklogValue
  <1>3. NextSlot(h) = IF h = MGMT_QUEUE_NUM - 1 THEN 0 ELSE h + 1
    BY <1>1, NextSlotValue
  <1>4. (QueueFull(q) <=> NextSlot(h) = t) /\ (QueueEmpty(q) <=> t = h)
    BY DEF QueueFull, QueueEmpty
  <1> HIDE DEF h, t, b
  <1>5. (NextSlot(h) = t <=> b = MGMT_QUEUE_NUM - 1) /\ (t = h <=> b = 0)
    BY <1>1, <1>2, <1>3, MgmtQueueAssumption, SMT DEF Slot
  <1> QED
    BY <1>4, <1>5 DEF b

\* enqueue_mgmt on a ring with room appends the frame to the line ...
LEMMA EnqueueAppends ==
    ASSUME NEW q \in MgmtQueueType, NEW s \in Entry, ~QueueFull(q)
    PROVE Line(enqueue_mgmt(q, s)) = Append(Line(q), s)
  <1> DEFINE e == enqueue_mgmt(q, s)
             b == Backlog(q)
  <1>1. e \in MgmtQueueType
    BY OperationsKeepType DEF Entry
  <1>2. /\ e.head = NextSlot(q.head)
        /\ e.tail = q.tail
        /\ e.ring = [q.ring EXCEPT ![NextSlot(q.head)] = s]
    BY DEF enqueue_mgmt, MgmtQueueType
  <1>3. b \in 0 .. MGMT_QUEUE_NUM - 1 /\ b # MGMT_QUEUE_NUM - 1
    BY BacklogRange, FullMeansBacklog
  <1>4. Backlog(e) = b + 1
    <2> DEFINE h == q.head
               t == q.tail
    <2>1. h \in Slot /\ t \in Slot
      BY DEF MgmtQueueType
    <2>2. b = IF h >= t THEN h - t ELSE h - t + MGMT_QUEUE_NUM
      BY BacklogValue
    <2>3. Backlog(e) = IF NextSlot(h) >= t THEN NextSlot(h) - t
                       ELSE NextSlot(h) - t + MGMT_QUEUE_NUM
      BY <1>1, <1>2, BacklogValue
    <2>4. NextSlot(h) = IF h = MGMT_QUEUE_NUM - 1 THEN 0 ELSE h + 1
      BY <2>1, NextSlotValue
    <2> HIDE DEF h, t, e, b
    <2> QED
      BY <1>3, <2>1, <2>2, <2>3, <2>4, MgmtQueueAssumption, SMT DEF Slot
  <1>5. \A j \in Int : LineSlot(e, j) = LineSlot(q, j)
    BY <1>2 DEF LineSlot
  <1>6. q.ring \in [Slot -> Entry] /\ NextSlot(q.head) \in Slot
    BY NextSlotInSlot DEF MgmtQueueType, Entry
  <1>7. \A j \in 0 .. b : e.ring[LineSlot(e, j)] = q.ring[LineSlot(q, j)]
    <2> SUFFICES ASSUME NEW j \in 0 .. b
                 PROVE e.ring[LineSlot(e, j)] = q.ring[LineSlot(q, j)]
      OBVIOUS
    <2>1. LineSlot(q, j) \in Slot /\ LineSlot(q, j) # NextSlot(q.head)
      BY LineSlotPlace
    <2>2. LineSlot(e, j) = LineSlot(q, j)
      BY <1>5, <1>3
    <2> QED
      BY <1>2, <1>6, <2>1, <2>2
  <1>8. e.ring[LineSlot(e, b + 1)] = s
    <2>1. LineSlot(e, b + 1) = NextSlot(q.head)
      BY <1>1, <1>2, <1>3, <1>4, LineSlotPlace, BacklogRange
    <2> QED
      BY <1>2, <1>6, <2>1
  <1>9. Line(e) \in Seq(Entry) /\ Len(Line(e)) = b + 2
    BY <1>1, <1>3, <1>4, LineIsSeq, SMT
  <1>10. Line(q) \in Seq(Entry) /\ Len(Line(q)) = b + 1
    BY LineIsSeq
  <1>11. \A j \in 1 .. b + 1 : Line(e)[j] = Line(q)[j]
    <2> SUFFICES ASSUME NEW j \in 1 .. b + 1 PROVE Line(e)[j] = Line(q)[j]
      OBVIOUS
    <2>1. j - 1 \in 0 .. b /\ j \in 1 .. Backlog(e) + 1
      BY <1>3, <1>4, SMT
    <2>2. Line(e)[j] = e.ring[LineSlot(e, j - 1)]
      BY <1>1, <2>1, LineIsSeq
    <2>3. Line(q)[j] = q.ring[LineSlot(q, j - 1)]
      BY LineIsSeq
    <2> QED
      BY <1>7, <2>1, <2>2, <2>3
  <1>12. Line(e)[b + 2] = s
    <2>1. b + 2 \in 1 .. Backlog(e) + 1 /\ (b + 2) - 1 = b + 1
      BY <1>3, <1>4, SMT
    <2>2. Line(e)[b + 2] = e.ring[LineSlot(e, (b + 2) - 1)]
      BY <1>1, <2>1, LineIsSeq
    <2> QED
      BY <1>8, <2>1, <2>2
  <1> HIDE DEF e, b
  <1>13. Line(e) = Append(Line(q), s)
    BY <1>3, <1>9, <1>10, <1>11, <1>12, SMT
  <1> QED
    BY <1>13 DEF e

\* ... dequeue_mgmt on a ring that is not empty moves every place up by one ...
LEMMA DequeueMoves ==
    ASSUME NEW q \in MgmtQueueType, ~QueueEmpty(q)
    PROVE /\ dequeue_mgmt(q) \in MgmtQueueType
          /\ dequeue_mgmt(q).ring = q.ring
          /\ Backlog(dequeue_mgmt(q)) = Backlog(q) - 1
          /\ \A j \in 0 .. Backlog(q) - 1 :
                LineSlot(dequeue_mgmt(q), j) = LineSlot(q, j + 1)
          /\ LineSlot(q, 0) = q.tail
  <1> DEFINE d == dequeue_mgmt(q)
             b == Backlog(q)
  <1>1. d \in MgmtQueueType
    <2>1. NextSlot(q.tail) \in Slot
      BY NextSlotInSlot DEF MgmtQueueType
    <2> QED
      BY <2>1 DEF dequeue_mgmt, MgmtQueueType
  <1>2. /\ d.head = q.head
        /\ d.tail = NextSlot(q.tail)
        /\ d.ring = q.ring
    BY DEF dequeue_mgmt, MgmtQueueType
  <1>3. b \in 1 .. MGMT_QUEUE_NUM - 1
    BY BacklogRange, FullMeansBacklog, MgmtQueueAssumption, SMT
  <1>4. Backlog(d) = b - 1
    <2> DEFINE h == q.head
               t == q.tail
    <2>1. h \in Slot /\ t \in Slot
      BY DEF MgmtQueueType
    <2>2. b = IF h >= t THEN h - t ELSE h - t + MGMT_QUEUE_NUM
      BY BacklogValue
    <2>3. Backlog(d) = IF h >= NextSlot(t) THEN h - NextSlot(t)
                       ELSE h - NextSlot(t) + MGMT_QUEUE_NUM
      BY <1>1, <1>2, BacklogValue
    <2>4. NextSlot(t) = IF t = MGMT_QUEUE_NUM - 1 THEN 0 ELSE t + 1
      BY <2>1, NextSlotValue
    <2> HIDE DEF h, t, d, b
    <2> QED
      BY <1>3, <2>1, <2>2, <2>3, <2>4, MgmtQueueAssumption, SMT DEF Slot
  <1>5. \A j \in 0 .. b - 1 : LineSlot(d, j) = LineSlot(q, j + 1)
    <2> SUFFICES ASSUME NEW j \in 0 .. b - 1
                 PROVE LineSlot(d, j) = LineSlot(q, j + 1)
      OBVIOUS
    <2> DEFINE t == q.tail
    <2>1. t \in Slot
      BY DEF MgmtQueueType
    <2>2. j \in 0 .. MGMT_QUEUE_NUM - 1 /\ j + 1 \in 0 .. MGMT_QUEUE_NUM - 1
      BY <1>3, MgmtQueueAssumption, SMT
    <2>3. LineSlot(d, j) = IF NextSlot(t) + j < MGMT_QUEUE_NUM THEN NextSlot(t) + j
                           ELSE NextSlot(t) + j - MGMT_QUEUE_NUM
      BY <1>1, <1>2, <2>2, LineSlotValue
    <2>4. LineSlot(q, j + 1) = IF t + (j + 1) < MGMT_QUEUE_NUM THEN t + (j + 1)
                               ELSE t + (j + 1) - MGMT_QUEUE_NUM
      BY <2>2, LineSlotValue
    <2>5. NextSlot(t) = IF t = MGMT_QUEUE_NUM - 1 THEN 0 ELSE t + 1
      BY <2>1, NextSlotValue
    <2> HIDE DEF t, d, b
    <2> QED
      BY <2>1, <2>2, <2>3, <2>4, <2>5, MgmtQueueAssumption, SMT DEF Slot
  <1>6. LineSlot(q, 0) = q.tail
    <2> DEFINE t == q.tail
    <2>1. 0 \in 0 .. MGMT_QUEUE_NUM - 1
      BY MgmtQueueAssumption, SMT
    <2>2. t \in Slot
      BY DEF MgmtQueueType
    <2>3. LineSlot(q, 0) = IF t + 0 < MGMT_QUEUE_NUM THEN t + 0
                           ELSE t + 0 - MGMT_QUEUE_NUM
      BY <2>1, LineSlotValue
    <2> HIDE DEF t
    <2>4. LineSlot(q, 0) = t
      BY <2>2, <2>3, MgmtQueueAssumption, SMT DEF Slot
    <2> QED
      BY <2>4 DEF t
  <1> QED
    BY <1>1, <1>2, <1>4, <1>5, <1>6

\* ... and init_mgmt_queue leaves a line of the one entry in slot 0.
LEMMA ResetFlushes ==
    ASSUME NEW q \in MgmtQueueType, q.head = 0, q.tail = 0
    PROVE Backlog(q) = 0 /\ Line(q) \in Seq(Entry) /\ Len(Line(q)) = 1
  <1>1. Backlog(q) = 0
    BY BacklogValue, SMT
  <1>2. Line(q) \in Seq(Entry) /\ Len(Line(q)) = 0 + 1
    BY <1>1, LineIsSeq
  <1> QED
    BY <1>1, <1>2

\* Two places of the line are two slots of the ring.
LEMMA PlacesDiffer ==
    ASSUME NEW q \in MgmtQueueType,
           NEW j \in 0 .. Backlog(q), NEW k \in 0 .. Backlog(q),
           LineSlot(q, j) = LineSlot(q, k)
    PROVE j = k
  <1> DEFINE t == q.tail
  <1>1. t \in Slot
    BY DEF MgmtQueueType
  <1>2. j \in 0 .. MGMT_QUEUE_NUM - 1 /\ k \in 0 .. MGMT_QUEUE_NUM - 1
    BY BacklogRange, MgmtQueueAssumption, SMT
  <1>3. LineSlot(q, j) = IF t + j < MGMT_QUEUE_NUM THEN t + j
                         ELSE t + j - MGMT_QUEUE_NUM
    BY <1>2, LineSlotValue
  <1>4. LineSlot(q, k) = IF t + k < MGMT_QUEUE_NUM THEN t + k
                         ELSE t + k - MGMT_QUEUE_NUM
    BY <1>2, LineSlotValue
  <1>5. (IF t + j < MGMT_QUEUE_NUM THEN t + j ELSE t + j - MGMT_QUEUE_NUM)
          = (IF t + k < MGMT_QUEUE_NUM THEN t + k ELSE t + k - MGMT_QUEUE_NUM)
    BY <1>3, <1>4
  <1> HIDE DEF t
  <1> QED
    BY <1>1, <1>2, <1>5, MgmtQueueAssumption, SMT DEF Slot

\* Hiding what the empty slots hold leaves the indices alone.
LEMMA SeenIsRing ==
    ASSUME NEW q \in MgmtQueueType, NEW w \in SUBSET Slot
    PROVE /\ Seen(q, w) \in MgmtQueueType
          /\ Seen(q, w).head = q.head
          /\ Seen(q, w).tail = q.tail
          /\ Backlog(Seen(q, w)) = Backlog(q)
          /\ \A j \in Int : LineSlot(Seen(q, w), j) = LineSlot(q, j)
          /\ QueueFull(Seen(q, w)) <=> QueueFull(q)
          /\ QueueEmpty(Seen(q, w)) <=> QueueEmpty(q)
          /\ \A i \in Slot : Seen(q, w).ring[i] = IF i \in w THEN q.ring[i] ELSE NoSkb
          /\ Seen(q, w).ring \in [Slot -> Entry]
  <1>1. /\ Seen(q, w).head = q.head
        /\ Seen(q, w).tail = q.tail
        /\ Seen(q, w).ring = [i \in Slot |-> IF i \in w THEN q.ring[i] ELSE NoSkb]
    BY DEF Seen, MgmtQueueType
  <1>2. Seen(q, w).ring \in [Slot -> Entry]
    BY <1>1 DEF MgmtQueueType, Entry
  <1>3. Seen(q, w) \in MgmtQueueType
    BY <1>2 DEF Seen, MgmtQueueType, Entry
  <1> QED
    BY <1>1, <1>2, <1>3 DEF Backlog, LineSlot, QueueFull, QueueEmpty

\* The line that the callers see, entry by entry.
LEMMA SeenLine ==
    ASSUME NEW q \in MgmtQueueType, NEW w \in SUBSET Slot
    PROVE /\ Line(Seen(q, w)) \in Seq(Entry)
          /\ Len(Line(Seen(q, w))) = Backlog(q) + 1
          /\ \A j \in 0 .. Backlog(q) :
                Line(Seen(q, w))[j + 1] = IF LineSlot(q, j) \in w
                                          THEN q.ring[LineSlot(q, j)] ELSE NoSkb
  <1> DEFINE s == Seen(q, w)
  <1>1. /\ s \in MgmtQueueType /\ Backlog(s) = Backlog(q)
        /\ \A j \in Int : LineSlot(s, j) = LineSlot(q, j)
        /\ \A i \in Slot : s.ring[i] = IF i \in w THEN q.ring[i] ELSE NoSkb
    BY SeenIsRing
  <1> HIDE DEF s
  <1>2. Line(s) \in Seq(Entry) /\ Len(Line(s)) = Backlog(q) + 1
    BY <1>1, LineIsSeq
  <1>3. ASSUME NEW j \in 0 .. Backlog(q)
        PROVE Line(s)[j + 1] = IF LineSlot(q, j) \in w
                               THEN q.ring[LineSlot(q, j)] ELSE NoSkb
    <2>1. j + 1 \in 1 .. Backlog(q) + 1 /\ (j + 1) - 1 = j /\ j \in Int
      BY BacklogRange, MgmtQueueAssumption, SMT
    <2>2. Line(s)[j + 1] = s.ring[LineSlot(s, (j + 1) - 1)]
      BY <1>1, <2>1, LineIsSeq
    <2>3. LineSlot(q, j) \in Slot
      BY LineSlotPlace
    <2> QED
      BY <1>1, <2>1, <2>2, <2>3
  <1> QED
    BY <1>2, <1>3 DEF s

\* Every frame that waits is allocated, and no two slots wait with one frame.
RingInv ==
    /\ RingTypeOK
    /\ \A i \in waiting : queue.ring[i] \in owned
    /\ \A i, k \in waiting : queue.ring[i] = queue.ring[k] => i = k

\* The allocator never returns a frame that waits, and a frame that is freed,
\* by the ring or under it, waits no longer.
LEMMA RingInvariant == RingSpec => []RingInv
  <1>1. RingInit => RingInv
    BY MgmtQueueAssumption, SMT
    DEF RingInit, RingInv, RingTypeOK, ZeroedQueue, MgmtQueueType, Slot
  <1>2. RingTypeOK /\ RingTypeOK' /\ RingInv /\ [RingNext]_ringVars => RingInv'
    <2> SUFFICES ASSUME RingTypeOK, RingTypeOK', RingInv, [RingNext]_ringVars
                 PROVE /\ \A i \in waiting' : queue'.ring[i] \in owned'
                       /\ \A i, k \in waiting' :
                             queue'.ring[i] = queue'.ring[k] => i = k
      BY DEF RingInv
    <2>1. ASSUME NEW skb \in Skb, Enqueue(skb)
          PROVE /\ \A i \in waiting' : queue'.ring[i] \in owned'
                /\ \A i, k \in waiting' :
                      queue'.ring[i] = queue'.ring[k] => i = k
      <3>1. CASE QueueFull(queue)
        <4>1. queue' = queue /\ owned' = owned /\ waiting' = waiting
          BY <2>1, <3>1 DEF Enqueue, enqueue_mgmt
        <4> QED
          BY <4>1 DEF RingInv
      <3>2. CASE ~QueueFull(queue)
        <4> DEFINE n == NextSlot(queue.head)
        <4>1. /\ queue'.ring = [queue.ring EXCEPT ![n] = skb]
              /\ owned' = owned \cup {skb} /\ waiting' = waiting \cup {n}
          BY <2>1, <3>2 DEF Enqueue, enqueue_mgmt, RingTypeOK, MgmtQueueType
        <4>2. n \in Slot /\ queue.ring \in [Slot -> Skb \cup {NoSkb}]
          BY NextSlotInSlot DEF RingTypeOK, MgmtQueueType
        <4>3. \A i \in waiting : i # n => queue'.ring[i] = queue.ring[i]
          BY <4>1, <4>2 DEF RingTypeOK
        <4>4. queue'.ring[n] = skb
          BY <4>1, <4>2
        <4>5. skb \notin owned
          BY <2>1 DEF Enqueue
        <4> HIDE DEF n
        <4> QED
          BY <4>1, <4>3, <4>4, <4>5 DEF RingInv
      <3> QED
        BY <3>1, <3>2
    <2>2. CASE Dequeue
      <3>1. /\ queue'.ring = queue.ring
            /\ owned' = owned \ {dequeued_skb(queue)}
            /\ waiting' = {i \in waiting : queue.ring[i] # dequeued_skb(queue)}
        BY <2>2 DEF Dequeue, dequeue_mgmt, RingTypeOK, MgmtQueueType
      <3> QED
        BY <3>1 DEF RingInv
    <2>3. CASE Reset
      BY <2>3 DEF Reset
    <2>4. CASE UNCHANGED ringVars
      BY <2>4 DEF RingInv, ringVars
    <2> QED
      BY <2>1, <2>2, <2>3, <2>4 DEF RingNext
  <1> QED
    BY <1>1, <1>2, RingTypeCorrect, PTL DEF RingSpec


\* A ring at rest in which no frame waits is an empty line.
LEMMA EmptyLine ==
    ASSUME NEW q \in MgmtQueueType, q.head = 0, q.tail = 0
    PROVE Line(Seen(q, {})) = <<NoSkb>>
  <1> DEFINE s == Line(Seen(q, {}))
  <1>1. Backlog(q) = 0
    BY ResetFlushes
  <1>2. {} \in SUBSET Slot
    OBVIOUS
  <1>3. s \in Seq(Entry) /\ Len(s) = 0 + 1
    BY <1>1, <1>2, SeenLine
  <1>4. 0 \in 0 .. 0 /\ 0 + 1 = 1
    BY SMT
  <1>5. s[0 + 1] = NoSkb
    BY <1>1, <1>2, <1>4, SeenLine
  <1> HIDE DEF s
  <1>6. s = <<NoSkb>>
    BY <1>3, <1>4, <1>5, SMT
  <1> QED
    BY <1>6 DEF s

\* A frame put into a ring with room is one that waits.
LEMMA SeenEnqueue ==
    ASSUME NEW q \in MgmtQueueType, NEW w \in SUBSET Slot, NEW f \in Skb,
           ~QueueFull(q)
    PROVE Seen(enqueue_mgmt(q, f), w \cup {NextSlot(q.head)})
            = enqueue_mgmt(Seen(q, w), f)
  <1> DEFINE n == NextSlot(q.head)
             r == [i \in Slot |-> IF i \in w THEN q.ring[i] ELSE NoSkb]
             t == [i \in Slot |-> IF i \in w \cup {n}
                                  THEN [q.ring EXCEPT ![n] = f][i] ELSE NoSkb]
  <1>1. n \in Slot /\ q.ring \in [Slot -> Skb \cup {NoSkb}]
    BY NextSlotInSlot DEF MgmtQueueType
  <1>2. Seen(q, w) = [q EXCEPT !.ring = r] /\ ~QueueFull(Seen(q, w))
    BY SeenIsRing DEF Seen
  <1>3. enqueue_mgmt(q, f)
          = [q EXCEPT !.head = n, !.ring = [q.ring EXCEPT ![n] = f]]
    BY DEF enqueue_mgmt, MgmtQueueType
  <1>4. enqueue_mgmt(Seen(q, w), f)
          = [q EXCEPT !.head = n, !.ring = [r EXCEPT ![n] = f]]
    BY <1>2 DEF enqueue_mgmt, MgmtQueueType
  <1>5. Seen(enqueue_mgmt(q, f), w \cup {n}) = [q EXCEPT !.head = n, !.ring = t]
    BY <1>3 DEF Seen, MgmtQueueType
  <1>6. t = [r EXCEPT ![n] = f]
    BY <1>1
  <1> QED
    BY <1>4, <1>5, <1>6

\* What a hand-out leaves in the line: the rest of it, except that a place whose
\* frame is the buffer handed out holds junk.
LEMMA HandedOut ==
    ASSUME RingInv, Dequeue
    PROVE LET seen == Line(Seen(queue, waiting))
              left == Line(Seen(queue', waiting'))
          IN  /\ Len(seen) > 1
              /\ Head(seen) = IF stale' THEN NoSkb ELSE out'
              /\ \/ left = Tail(seen)
                 \/ /\ Head(seen) = NoSkb
                    /\ \E i \in 2 .. Len(seen) :
                          left = Tail([seen EXCEPT ![i] = NoSkb])
  <1> DEFINE q == queue
             b == Backlog(queue)
             p == queue.ring[queue.tail]
             seen == Line(Seen(queue, waiting))
             left == Line(Seen(queue', waiting'))
             fell(j) == LineSlot(q, j) \in waiting /\ LineSlot(q, j) \notin waiting'
  <1>1. q \in MgmtQueueType /\ waiting \in SUBSET Slot /\ ~QueueEmpty(q)
    BY DEF RingInv, RingTypeOK, Dequeue
  <1>2. /\ out' = p /\ stale' = (q.tail \notin waiting)
        /\ waiting' = {i \in waiting : q.ring[i] # p}
        /\ queue' = dequeue_mgmt(q)
    BY <1>1 DEF Dequeue, dequeued_skb
  <1>3. b \in 1 .. MGMT_QUEUE_NUM - 1 /\ q.tail \in Slot
    BY <1>1, BacklogRange, FullMeansBacklog, MgmtQueueAssumption, SMT
    DEF MgmtQueueType
  <1>4. /\ queue' \in MgmtQueueType /\ queue'.ring = q.ring
        /\ Backlog(queue') = b - 1
        /\ \A j \in 0 .. b - 1 : LineSlot(queue', j) = LineSlot(q, j + 1)
        /\ LineSlot(q, 0) = q.tail
    BY <1>1, <1>2, DequeueMoves
  <1>5. seen \in Seq(Entry) /\ Len(seen) = b + 1
    BY <1>1, SeenLine
  <1>6. \A j \in 0 .. b : seen[j + 1] = IF LineSlot(q, j) \in waiting
                                        THEN q.ring[LineSlot(q, j)] ELSE NoSkb
    BY <1>1, SeenLine
  <1>7. waiting' \in SUBSET Slot
    BY <1>1, <1>2
  <1>8. left \in Seq(Entry) /\ Len(left) = b
    <2>1. left \in Seq(Entry) /\ Len(left) = Backlog(queue') + 1
      BY <1>4, <1>7, SeenLine
    <2> HIDE DEF left, b
    <2> QED
      BY <2>1, <1>3, <1>4, MgmtQueueAssumption, SMT
  <1>9. \A j \in 0 .. b - 1 : left[j + 1] = IF LineSlot(q, j + 1) \in waiting'
                                  THEN q.ring[LineSlot(q, j + 1)] ELSE NoSkb
    <2>1. \A j \in 0 .. Backlog(queue') :
             left[j + 1] = IF LineSlot(queue', j) \in waiting'
                           THEN queue'.ring[LineSlot(queue', j)] ELSE NoSkb
      BY <1>4, <1>7, SeenLine
    <2> QED
      BY <1>4, <2>1
  <1>10. seen[1] = IF q.tail \in waiting THEN p ELSE NoSkb
    <2>1. 0 \in 0 .. b /\ 0 + 1 = 1
      BY <1>3, MgmtQueueAssumption, SMT
    <2>2. seen[0 + 1] = IF LineSlot(q, 0) \in waiting
                        THEN q.ring[LineSlot(q, 0)] ELSE NoSkb
      BY <1>6, <2>1
    <2> QED
      BY <1>4, <2>1, <2>2
  <1>11. \A j, k \in 0 .. b : fell(j) /\ fell(k) => j = k
    <2> SUFFICES ASSUME NEW j \in 0 .. b, NEW k \in 0 .. b, fell(j), fell(k)
                 PROVE j = k
      OBVIOUS
    <2>1. q.ring[LineSlot(q, j)] = p /\ q.ring[LineSlot(q, k)] = p
      BY <1>2
    <2>2. LineSlot(q, j) = LineSlot(q, k)
      BY <2>1 DEF RingInv
    <2> QED
      BY <1>1, <2>2, PlacesDiffer
  <1>12. \A j \in 1 .. b : fell(j) => q.tail \notin waiting
    <2> SUFFICES ASSUME NEW j \in 1 .. b, fell(j), q.tail \in waiting
                 PROVE FALSE
      OBVIOUS
    <2>1. q.ring[LineSlot(q, j)] = p
      BY <1>2
    <2>2. LineSlot(q, j) = LineSlot(q, 0)
      BY <1>4, <2>1 DEF RingInv
    <2>3. j \in 0 .. b /\ 0 \in 0 .. b /\ j # 0
      BY <1>3, MgmtQueueAssumption, SMT
    <2> QED
      BY <1>1, <2>2, <2>3, PlacesDiffer
  <1>13. \A j \in 1 .. b : left[j] = IF fell(j) THEN NoSkb ELSE seen[j + 1]
    <2> SUFFICES ASSUME NEW j \in 1 .. b
                 PROVE left[j] = IF fell(j) THEN NoSkb ELSE seen[j + 1]
      OBVIOUS
    <2>1. j - 1 \in 0 .. b - 1 /\ (j - 1) + 1 = j /\ j \in 0 .. b
      BY <1>3, MgmtQueueAssumption, SMT
    <2>2. left[(j - 1) + 1] = IF LineSlot(q, (j - 1) + 1) \in waiting'
                              THEN q.ring[LineSlot(q, (j - 1) + 1)] ELSE NoSkb
      BY <1>9, <2>1
    <2>3. seen[j + 1] = IF LineSlot(q, j) \in waiting
                        THEN q.ring[LineSlot(q, j)] ELSE NoSkb
      BY <1>6, <2>1
    <2>4. LineSlot(q, j) \in waiting' => LineSlot(q, j) \in waiting
      BY <1>2
    <2> QED
      BY <2>1, <2>2, <2>3, <2>4
  <1>14. b \in Nat /\ b >= 1
    BY <1>3, MgmtQueueAssumption, SMT
  <1>15. (\A j \in 1 .. b : ~fell(j)) => left = Tail(seen)
    <2> SUFFICES ASSUME \A j \in 1 .. b : ~fell(j) PROVE left = Tail(seen)
      OBVIOUS
    <2>1. \A j \in 1 .. b : left[j] = seen[j + 1]
      BY <1>13
    <2> HIDE DEF left, seen, b, fell
    <2> QED
      BY <1>5, <1>8, <1>14, <2>1, SMT
  <1>16. ASSUME NEW k \in 1 .. b, fell(k)
         PROVE left = Tail([seen EXCEPT ![k + 1] = NoSkb])
    <2> DEFINE spoilt == [seen EXCEPT ![k + 1] = NoSkb]
    <2>1. \A j \in 1 .. b : left[j] = IF j = k THEN NoSkb ELSE seen[j + 1]
      <3> SUFFICES ASSUME NEW j \in 1 .. b
                   PROVE left[j] = IF j = k THEN NoSkb ELSE seen[j + 1]
        OBVIOUS
      <3>1. j \in 0 .. b /\ k \in 0 .. b
        BY <1>14, SMT
      <3>2. fell(j) <=> j = k
        BY <1>11, <1>16, <3>1
      <3> QED
        BY <1>13, <3>2
    <2>2. NoSkb \in Entry
      BY DEF Entry
    <2> HIDE DEF left, seen, b, fell
    <2>3. k + 1 \in 1 .. Len(seen)
      BY <1>5, <1>14, SMT
    <2>4. spoilt \in Seq(Entry) /\ Len(spoilt) = b + 1
      BY <1>5, <1>14, <2>2, <2>3, SMT
    <2>5. \A j \in 1 .. b : spoilt[j + 1] = IF j = k THEN NoSkb ELSE seen[j + 1]
      BY <1>5, <1>14, <2>3, SMT
    <2>6. \A j \in 1 .. b : left[j] = spoilt[j + 1]
      BY <2>1, <2>5
    <2> HIDE DEF spoilt
    <2>7. left = Tail(spoilt)
      BY <1>8, <1>14, <2>4, <2>6, SMT
    <2> QED
      BY <2>7 DEF spoilt
  <1>17. Head(seen) = seen[1] /\ Len(seen) > 1
    <2> HIDE DEF seen, b
    <2> QED
      BY <1>5, <1>14, SMT
  <1>18. ASSUME NEW k \in 1 .. b, fell(k)
         PROVE /\ Head(seen) = NoSkb
               /\ \E i \in 2 .. Len(seen) : left = Tail([seen EXCEPT ![i] = NoSkb])
    <2>1. Head(seen) = NoSkb
      BY <1>10, <1>12, <1>17, <1>18
    <2>2. left = Tail([seen EXCEPT ![k + 1] = NoSkb])
      BY <1>16, <1>18
    <2>3. k + 1 \in 2 .. Len(seen)
      <3> HIDE DEF seen, b
      <3> QED
        BY <1>5, <1>14, SMT
    <2> QED
      BY <2>1, <2>2, <2>3
  <1>19. Head(seen) = IF stale' THEN NoSkb ELSE out'
    BY <1>2, <1>10, <1>17
  <1>20. left = Tail(seen)
         \/ /\ Head(seen) = NoSkb
            /\ \E i \in 2 .. Len(seen) : left = Tail([seen EXCEPT ![i] = NoSkb])
    BY <1>15, <1>18
  <1> QED
    BY <1>17, <1>19, <1>20 DEF left, seen

\* For every ring and every set of buffers, what the callers see of the ring is
\* a delay line: each frame once, first in first out, nothing overwritten, the
\* last frame kept back, across any number of resets; what comes out first after
\* a reset is no frame (enqueue_mgmt, dequeue_mgmt, init_mgmt_queue).
THEOREM RingIsDelayLine == RingSpec => ImplementsDelayLine
  <1> DEFINE seen == Line(Seen(queue, waiting))
  <1>0. ASSUME NEW s \in Seq(Entry), Len(s) = 1, s[1] = NoSkb
        PROVE s = <<NoSkb>>
    BY <1>0, SMT
  <1>1. RingInit => Delay!Init
    <2> SUFFICES ASSUME RingInit PROVE Delay!Init
      OBVIOUS
    <2>1. 0 \in Slot /\ {} \in SUBSET Slot
      BY MgmtQueueAssumption, SMT DEF Slot
    <2>2. /\ queue \in MgmtQueueType /\ queue.head = 0 /\ queue.tail = 0
          /\ waiting = {}
      BY <2>1 DEF RingInit, ZeroedQueue, MgmtQueueType
    <2>3. seen = <<NoSkb>>
      BY <2>1, <2>2, EmptyLine
    <2> QED
      BY <2>3 DEF RingInit, Delay!Init
  <1>2. RingInv /\ [RingNext]_ringVars => [Delay!Next]_(Delay!vars)
    <2> SUFFICES ASSUME RingInv, [RingNext]_ringVars
                 PROVE Delay!Next \/ UNCHANGED Delay!vars
      OBVIOUS
    <2>0. queue \in MgmtQueueType /\ waiting \in SUBSET Slot
      BY DEF RingInv, RingTypeOK
    <2>1. ASSUME NEW skb \in Skb, Enqueue(skb) PROVE Delay!Put(skb)
      <3>0. skb \in Entry /\ skb # NoSkb
        BY MgmtQueueAssumption DEF Entry
      <3>1. \A i \in 1 .. Len(seen) : seen[i] # skb
        <4> SUFFICES ASSUME NEW i \in 1 .. Len(seen) PROVE seen[i] # skb
          OBVIOUS
        <4>1. Len(seen) = Backlog(queue) + 1
          BY <2>0, SeenLine
        <4>2. Backlog(queue) \in 0 .. MGMT_QUEUE_NUM - 1
          BY <2>0, BacklogRange
        <4>3. i - 1 \in 0 .. Backlog(queue) /\ (i - 1) + 1 = i
          <5> HIDE DEF seen
          <5> QED
            BY <4>1, <4>2, MgmtQueueAssumption, SMT
        <4>4. seen[(i - 1) + 1] = IF LineSlot(queue, i - 1) \in waiting
                     THEN queue.ring[LineSlot(queue, i - 1)] ELSE NoSkb
          BY <2>0, <4>3, SeenLine
        <4>5. skb \notin owned
          BY <2>1 DEF Enqueue
        <4> QED
          BY <3>0, <4>3, <4>4, <4>5 DEF RingInv
      <3>2. CASE QueueFull(queue)
        <4>1. queue' = queue /\ waiting' = waiting
          BY <2>1, <3>2 DEF Enqueue, enqueue_mgmt
        <4>2. ~(Len(seen) < MGMT_QUEUE_NUM)
          <5>1. Len(seen) = Backlog(queue) + 1 /\ Backlog(queue) = MGMT_QUEUE_NUM - 1
            BY <2>0, <3>2, SeenLine, FullMeansBacklog
          <5> HIDE DEF seen
          <5> QED
            BY <5>1, MgmtQueueAssumption, SMT
        <4> QED
          BY <2>1, <3>1, <4>1, <4>2 DEF Enqueue, Delay!Put
      <3>3. CASE ~QueueFull(queue)
        <4> DEFINE s == Seen(queue, waiting)
        <4>1. s \in MgmtQueueType /\ ~QueueFull(s)
          BY <2>0, <3>3, SeenIsRing
        <4>2. Line(enqueue_mgmt(s, skb)) = Append(Line(s), skb)
          BY <3>0, <4>1, EnqueueAppends
        <4>3. Seen(queue', waiting') = enqueue_mgmt(s, skb)
          BY <2>0, <2>1, <3>3, SeenEnqueue DEF Enqueue
        <4>4. Backlog(queue) # MGMT_QUEUE_NUM - 1
          BY <2>0, <3>3, FullMeansBacklog
        <4>5. Backlog(queue) \in 0 .. MGMT_QUEUE_NUM - 1
          BY <2>0, BacklogRange
        <4>6. Len(seen) = Backlog(queue) + 1
          BY <2>0, SeenLine
        <4>7. Len(seen) < MGMT_QUEUE_NUM
          <5> HIDE DEF seen
          <5> QED
            BY <4>4, <4>5, <4>6, MgmtQueueAssumption, SMT
        <4> QED
          BY <2>1, <3>1, <4>2, <4>3, <4>7 DEF Enqueue, Delay!Put
      <3> QED
        BY <3>2, <3>3
    <2>2. CASE Dequeue
      <3>1. did' = "take"
        BY <2>2 DEF Dequeue
      <3> QED
        BY <2>2, <3>1, HandedOut DEF Delay!Next, Delay!Take
    <2>3. CASE Reset
      <3>1. 0 \in Slot /\ {} \in SUBSET Slot
        BY MgmtQueueAssumption, SMT DEF Slot
      <3>2. /\ queue' \in MgmtQueueType /\ queue'.head = 0 /\ queue'.tail = 0
            /\ waiting' = {}
        BY <2>0, <2>3, <3>1 DEF Reset, init_mgmt_queue, MgmtQueueType
      <3>3. Line(Seen(queue', waiting')) = <<NoSkb>>
        BY <3>1, <3>2, EmptyLine
      <3> QED
        BY <2>3, <3>3 DEF Reset, Delay!Next, Delay!Flush
    <2>4. CASE UNCHANGED ringVars
      BY <2>4 DEF ringVars, Delay!vars
    <2> QED
      BY <2>1, <2>2, <2>3, <2>4 DEF RingNext, Delay!Next
  <1> QED
    BY <1>1, <1>2, RingInvariant, PTL DEF RingSpec, ImplementsDelayLine, Delay!Spec

(***************************************************************************)
(* The transmit path.                                                      *)
(***************************************************************************)
\* Who holds the lock, and what each loop knows of its own counter.
LockOwner ==
    /\ lock = "isr" <=> isr \in {"mgmt", "resume", "netif"}
    /\ lock = "data" => /\ data > 0 /\ data_i <= data /\ data_i = offered
                        /\ tx_pending = NoTxb
    /\ data > 0 /\ lock # "data" => data_i = 0
    /\ isr = "resume" => tx_pending # NoTxb /\ isr_i <= tx_pending.nr

\* The invariants need each other: the type of tx_lp_pending needs the count,
\* the waker needs the count, and the fragments need the owner of the lock.
IInv ==
    /\ TypeOK /\ LockOwner
    /\ CounterMatchesPipe /\ StoppedQueueHasWaker
    /\ PendingImpliesStopped /\ ResumesWhereItStopped

\* One frame given to the driver: the count stays right, and a queue that it
\* stops has an URB out or one on its way through the handler.
LEMMA XmitKeepsCount ==
    ASSUME IInv, rtl8180_hard_data_xmit, UNCHANGED isr
    PROVE /\ queue_stop' \in BOOLEAN /\ netif_stopped' \in BOOLEAN
          /\ lp_pending' \in 0 .. MAX_TX_URB + 1
          /\ tx_urb_index' \in Context
          /\ pipe' \in Seq(Context)
          /\ CounterMatchesPipe'
          /\ StoppedQueueHasWaker'
          /\ queue_stop => queue_stop'
  <1> USE DEF IInv
  <1>1. CASE UNCHANGED <<stackVars, usbVars>>
    BY <1>1 DEF TypeOK, CounterMatchesPipe, StoppedQueueHasWaker, stackVars, usbVars
  <1>2. CASE /\ rtl8180_tx
             /\ IF check_nic_enought_desc(lp_pending) /\ check_nic_enought_desc(lp_pending')
                THEN UNCHANGED stackVars
                ELSE ieee80211_stop_queue
    <2>1. /\ lp_pending' \in 0 .. MAX_TX_URB + 1
          /\ tx_urb_index' \in Context
          /\ pipe' \in Seq(Context)
          /\ CounterMatchesPipe'
          /\ Len(pipe') >= Len(pipe)
      <3>1. CASE lp_pending > MAX_TX_URB /\ UNCHANGED usbVars
        BY <3>1, SMT DEF TypeOK, CounterMatchesPipe, usbVars
      <3>2. ASSUME lp_pending <= MAX_TX_URB,
                   tx_urb_index' = (tx_urb_index + 1) % MAX_TX_URB,
                   pipe' = Append(pipe, tx_urb_index),
                   lp_pending' = lp_pending + 1
            PROVE <2>1!1 /\ <2>1!2 /\ <2>1!3 /\ <2>1!4 /\ <2>1!5
        <4>1. tx_urb_index' \in Context
          BY <3>2, TxPathAssumption, SMT DEF TypeOK, Context
        <4>2. pipe' \in Seq(Context) /\ Len(pipe') = Len(pipe) + 1
          BY <3>2, SMT DEF TypeOK
        <4>3. Len(pipe) \in Nat /\ lp_pending \in Nat
          BY SMT DEF TypeOK
        <4> QED
          BY <3>2, <4>1, <4>2, <4>3, TxPathAssumption, SMT
          DEF CounterMatchesPipe, TypeOK
      <3>3. ASSUME tx_urb_index' = (tx_urb_index + 1) % MAX_TX_URB,
                   UNCHANGED <<pipe, lp_pending>>
            PROVE <2>1!1 /\ <2>1!2 /\ <2>1!3 /\ <2>1!4 /\ <2>1!5
        <4>1. tx_urb_index' \in Context
          BY <3>3, TxPathAssumption, SMT DEF TypeOK, Context
        <4> QED
          BY <3>3, <4>1, SMT DEF TypeOK, CounterMatchesPipe
      <3> QED
        BY <1>2, <3>1, <3>2, <3>3 DEF rtl8180_tx
    <2>2. CASE UNCHANGED stackVars
      <3>1. pipe # <<>> => pipe' # <<>>
        BY <2>1, SMT DEF TypeOK
      <3> QED
        BY <2>1, <2>2, <3>1 DEF TypeOK, StoppedQueueHasWaker, stackVars
    <2>3. ASSUME ~(check_nic_enought_desc(lp_pending) /\ check_nic_enought_desc(lp_pending')),
                 ieee80211_stop_queue
          PROVE StoppedQueueHasWaker' /\ queue_stop' = TRUE /\ netif_stopped' = TRUE
      <3>1. lp_pending > 0 \/ lp_pending' > 0
        BY <2>1, <2>3, TxPathAssumption, SMT DEF check_nic_enought_desc, TypeOK
      <3>2. Len(pipe') > 0 \/ isr' = "dec"
        BY <2>1, <3>1, SMT DEF CounterMatchesPipe, TypeOK
      <3> QED
        BY <2>3, <3>2, SMT DEF StoppedQueueHasWaker, ieee80211_stop_queue
    <2> QED
      BY <1>2, <2>1, <2>2, <2>3 DEF TypeOK, stackVars
  <1> QED
    BY <1>1, <1>2 DEF rtl8180_hard_data_xmit

LEMMA InitInv == Init => IInv
  <1> SUFFICES ASSUME Init PROVE IInv
    OBVIOUS
  <1>1. ZeroedQueue \in MgmtQueueType
    BY MgmtQueueAssumption, SMT DEF ZeroedQueue, MgmtQueueType, Slot
  <1>2. 0 \in Context /\ <<>> \in Seq(Context) /\ 0 \in 0 .. MaxFrags
        /\ 0 \in 0 .. MAX_TX_URB + 1
    BY TxPathAssumption, SMT DEF Context
  <1>5. TypeOK
    BY <1>1, <1>2 DEF Init, TypeOK
  <1>3. LockOwner /\ PendingImpliesStopped /\ ResumesWhereItStopped
    BY DEF Init, LockOwner, PendingImpliesStopped, ResumesWhereItStopped
  <1>4. CounterMatchesPipe /\ StoppedQueueHasWaker
    BY SMT DEF Init, CounterMatchesPipe, StoppedQueueHasWaker
  <1> QED
    BY <1>3, <1>4, <1>5 DEF IInv

\* The steps of the data thread.
LEMMA DataStep ==
    ASSUME IInv, (\E nr \in 1 .. MaxFrags : ieee80211_xmit(nr)) \/ Data
    PROVE IInv'
  <1> USE DEF IInv
  <1>1. ASSUME NEW nr \in 1 .. MaxFrags, ieee80211_xmit(nr) PROVE IInv'
    BY <1>1, TxPathAssumption, SMT
    DEF ieee80211_xmit, TypeOK, LockOwner, CounterMatchesPipe, StoppedQueueHasWaker,
        PendingImpliesStopped, ResumesWhereItStopped, stackVars, usbVars, isrVars,
        adminVars
  <1>2. CASE softmac_xmit_lost
    BY <1>2, TxPathAssumption, SMT
    DEF softmac_xmit_lost, TypeOK, LockOwner, CounterMatchesPipe, StoppedQueueHasWaker,
        PendingImpliesStopped, ResumesWhereItStopped, stackVars, usbVars, isrVars,
        adminVars
  <1>3. CASE softmac_xmit_enter
    BY <1>3, TxPathAssumption, SMT
    DEF softmac_xmit_enter, TypeOK, LockOwner, CounterMatchesPipe, StoppedQueueHasWaker,
        PendingImpliesStopped, ResumesWhereItStopped, stackVars, usbVars, isrVars,
        dataVars, adminVars
  <1>4. CASE softmac_xmit_frag
    <2>1. UNCHANGED isr /\ rtl8180_hard_data_xmit
      BY <1>4 DEF softmac_xmit_frag, isrVars
    <2>2. TypeOK' /\ LockOwner'
      BY <1>4, <2>1, XmitKeepsCount, TxPathAssumption, SMT
      DEF softmac_xmit_frag, TypeOK, LockOwner, isrVars, adminVars
    <2>3. PendingImpliesStopped' /\ ResumesWhereItStopped'
      BY <1>4, SMT
      DEF softmac_xmit_frag, TypeOK, LockOwner, PendingImpliesStopped,
          ResumesWhereItStopped, isrVars
    <2> QED
      BY <2>1, <2>2, <2>3, XmitKeepsCount
  <1>5. CASE softmac_xmit_exit
    <2>1. TypeOK' /\ LockOwner' /\ CounterMatchesPipe' /\ StoppedQueueHasWaker'
      BY <1>5, TxPathAssumption, SMT
      DEF softmac_xmit_exit, TypeOK, Pending, LockOwner, CounterMatchesPipe,
          StoppedQueueHasWaker, stackVars, usbVars, isrVars, adminVars
    <2>2. PendingImpliesStopped' /\ ResumesWhereItStopped'
      BY <1>5, SMT
      DEF softmac_xmit_exit, TypeOK, LockOwner, PendingImpliesStopped,
          ResumesWhereItStopped, stackVars, isrVars
    <2> QED
      BY <2>1, <2>2
  <1> QED
    BY <1>1, <1>2, <1>3, <1>4, <1>5 DEF Data

\* Management frames.
LEMMA TrafficStep == ASSUME IInv, ManagementTraffic PROVE IInv'
  <1> USE DEF IInv
  <1>1. ASSUME NEW skb \in Skb, softmac_mgmt_xmit(skb) PROVE IInv'
    <2>1. UNCHANGED <<tx_pending, lock, isr, isr_i, data, data_i, offered, admin, up,
                      bHwRadioOff>>
      BY <1>1 DEF softmac_mgmt_xmit, isrVars, dataVars, adminVars
    <2>2. LockOwner'
      BY <2>1, SMT DEF LockOwner
    <2>3. CASE queue_stop
      <3>1. mgmt' \in MgmtQueueType /\ UNCHANGED <<stackVars, usbVars>>
        BY <1>1, <2>3, OperationsKeepType DEF softmac_mgmt_xmit, TypeOK
      <3> QED
        BY <2>1, <2>2, <3>1
        DEF TypeOK, CounterMatchesPipe, StoppedQueueHasWaker, PendingImpliesStopped,
            ResumesWhereItStopped, stackVars, usbVars
    <2>4. CASE ~queue_stop
      <3>1. UNCHANGED mgmt /\ rtl8180_hard_data_xmit
        BY <1>1, <2>4 DEF softmac_mgmt_xmit
      <3> QED
        BY <2>1, <2>2, <3>1, XmitKeepsCount
        DEF TypeOK, PendingImpliesStopped, ResumesWhereItStopped
    <2> QED
      BY <2>3, <2>4
  <1>2. CASE softmac_ps_mgmt_xmit
    <2>1. /\ UNCHANGED <<tx_pending, mgmt, lock, isr, isr_i, data, data_i, offered,
                         admin, up, bHwRadioOff>>
          /\ rtl8180_hard_data_xmit
      BY <1>2 DEF softmac_ps_mgmt_xmit, isrVars, dataVars, adminVars
    <2>2. LockOwner'
      BY <2>1, SMT DEF LockOwner
    <2> QED
      BY <2>1, <2>2, XmitKeepsCount
      DEF TypeOK, PendingImpliesStopped, ResumesWhereItStopped
  <1> QED
    BY <1>1, <1>2 DEF ManagementTraffic

\* The completion handler up to the lock.
LEMMA HandlerStep ==
    ASSUME IInv,
           usb_giveback \/ rtl8187_lptx_isr \/ rtl8180_try_wake_queue \/ wake_queue_enter
    PROVE IInv'
  <1> USE DEF IInv
  <1>1. CASE usb_giveback
    <2>1. pipe' \in Seq(Context) /\ Len(pipe') = Len(pipe) - 1
      BY <1>1, SMT DEF usb_giveback, TypeOK
    <2>2. UNCHANGED <<queue_stop, netif_stopped, tx_pending, mgmt, lp_pending,
                      tx_urb_index, lock, isr_i, data, data_i, offered, admin, up,
                      bHwRadioOff>>
          /\ isr = "idle" /\ isr' = "dec"
      BY <1>1 DEF usb_giveback, stackVars, dataVars, adminVars
    <2>3. TypeOK' /\ LockOwner' /\ StoppedQueueHasWaker'
      BY <2>1, <2>2 DEF TypeOK, LockOwner, StoppedQueueHasWaker
    <2>4. CounterMatchesPipe'
      BY <2>1, <2>2, SMT DEF CounterMatchesPipe, TypeOK
    <2> QED
      BY <2>2, <2>3, <2>4 DEF PendingImpliesStopped, ResumesWhereItStopped
  <1>2. CASE rtl8187_lptx_isr
    <2>1. lp_pending' = Len(pipe) /\ lp_pending' \in 0 .. MAX_TX_URB + 1
      BY <1>2, TxPathAssumption, SMT DEF rtl8187_lptx_isr, CounterMatchesPipe, TypeOK
    <2>2. UNCHANGED <<queue_stop, netif_stopped, tx_pending, mgmt, pipe,
                      tx_urb_index, lock, isr_i, data, data_i, offered, admin, up,
                      bHwRadioOff>>
          /\ isr = "dec" /\ isr' = "check"
      BY <1>2 DEF rtl8187_lptx_isr, stackVars, dataVars, adminVars
    <2>3. TypeOK' /\ LockOwner' /\ StoppedQueueHasWaker'
      BY <2>1, <2>2 DEF TypeOK, LockOwner, StoppedQueueHasWaker
    <2>4. CounterMatchesPipe'
      BY <2>1, <2>2, SMT DEF CounterMatchesPipe, TypeOK
    <2> QED
      BY <2>2, <2>3, <2>4 DEF PendingImpliesStopped, ResumesWhereItStopped
  <1>3. CASE rtl8180_try_wake_queue
    <2>1. UNCHANGED <<queue_stop, netif_stopped, tx_pending, mgmt, pipe, lp_pending,
                      tx_urb_index, lock, isr_i, data, data_i, offered, admin, up,
                      bHwRadioOff>>
          /\ isr = "check" /\ isr' \in {"wake", "idle"}
      BY <1>3 DEF rtl8180_try_wake_queue, stackVars, usbVars, dataVars, adminVars
    <2>2. isr' = "idle" => pipe # <<>>
      BY <1>3, TxPathAssumption, SMT
      DEF rtl8180_try_wake_queue, check_nic_enought_desc, CounterMatchesPipe, TypeOK
    <2>3. TypeOK' /\ LockOwner' /\ StoppedQueueHasWaker'
      BY <2>1, <2>2 DEF TypeOK, LockOwner, StoppedQueueHasWaker
    <2>4. CounterMatchesPipe'
      BY <2>1, SMT DEF CounterMatchesPipe, TypeOK
    <2> QED
      BY <2>1, <2>3, <2>4 DEF PendingImpliesStopped, ResumesWhereItStopped
  <1>4. CASE wake_queue_enter
    <2>1. UNCHANGED <<netif_stopped, tx_pending, mgmt, pipe, lp_pending,
                      tx_urb_index, isr_i, data, data_i, offered, admin, up,
                      bHwRadioOff>>
          /\ isr = "wake" /\ lock = "free"
          /\ \/ queue_stop /\ ~queue_stop' /\ queue_stop' \in BOOLEAN
                /\ lock' = "isr" /\ isr' = "mgmt"
             \/ ~queue_stop /\ UNCHANGED <<queue_stop, lock>> /\ isr' = "idle"
      BY <1>4 DEF wake_queue_enter, usbVars, dataVars, adminVars, TypeOK
    <2>2. TypeOK' /\ LockOwner' /\ StoppedQueueHasWaker'
      BY <2>1 DEF TypeOK, LockOwner, StoppedQueueHasWaker
    <2>3. CounterMatchesPipe'
      BY <2>1, SMT DEF CounterMatchesPipe, TypeOK
    <2> QED
      BY <2>1, <2>2, <2>3 DEF PendingImpliesStopped, ResumesWhereItStopped
  <1> QED
    BY <1>1, <1>2, <1>3, <1>4

\* The two loops of the handler, with the lock held.
LEMMA WakeStep ==
    ASSUME IInv,
           \/ wake_queue_mgmt \/ wake_queue_mgmt_end
           \/ resume_tx_frag \/ resume_tx_end \/ wake_queue_exit
    PROVE IInv'
  <1> USE DEF IInv
  <1>1. CASE wake_queue_mgmt
    <2>1. /\ UNCHANGED <<tx_pending, lock, isr, isr_i, data, data_i, offered, admin,
                         up, bHwRadioOff>>
          /\ rtl8180_hard_data_xmit
          /\ isr = "mgmt"
      BY <1>1 DEF wake_queue_mgmt, isrVars, dataVars, adminVars
    <2>2. mgmt' \in MgmtQueueType
      BY <1>1, OperationsKeepType DEF wake_queue_mgmt, TypeOK
    <2>3. LockOwner'
      BY <2>1, SMT DEF LockOwner
    <2> QED
      BY <2>1, <2>2, <2>3, XmitKeepsCount
      DEF TypeOK, PendingImpliesStopped, ResumesWhereItStopped
  <1>2. CASE wake_queue_mgmt_end
    <2>1. UNCHANGED <<queue_stop, netif_stopped, tx_pending, lp_pending, tx_urb_index,
                      pipe, lock, data, data_i, offered, admin, up, bHwRadioOff>>
          /\ isr = "mgmt"
          /\ \/ ~queue_stop /\ tx_pending # NoTxb
                /\ isr' = "resume" /\ isr_i' = tx_pending.frag
             \/ ~(~queue_stop /\ tx_pending # NoTxb)
                /\ isr' = "netif" /\ isr_i' = isr_i
      BY <1>2 DEF wake_queue_mgmt_end, stackVars, usbVars, dataVars, adminVars
    <2>2. mgmt' \in MgmtQueueType
      BY <1>2, OperationsKeepType DEF wake_queue_mgmt_end, TypeOK
    <2>3. tx_pending # NoTxb => tx_pending.frag \in 0 .. MaxFrags
                                /\ tx_pending.frag = offered
                                /\ tx_pending.nr \in 1 .. MaxFrags
                                /\ offered < tx_pending.nr
      BY <2>1 DEF TypeOK, Pending, ResumesWhereItStopped
    <2>4. TypeOK'
      BY <2>1, <2>2, <2>3 DEF TypeOK
    <2>5. LockOwner'
      BY <2>1, <2>3, TxPathAssumption, SMT DEF LockOwner, TypeOK
    <2>6. CounterMatchesPipe'
      BY <2>1, SMT DEF CounterMatchesPipe, TypeOK
    <2>7. StoppedQueueHasWaker' /\ PendingImpliesStopped'
      BY <2>1 DEF StoppedQueueHasWaker, PendingImpliesStopped
    <2>8. ResumesWhereItStopped'
      BY <2>1, <2>3 DEF ResumesWhereItStopped
    <2> QED
      BY <2>4, <2>5, <2>6, <2>7, <2>8
  <1>3. CASE resume_tx_frag
    <2>1. /\ UNCHANGED <<tx_pending, mgmt, lock, isr, data, data_i, admin, up,
                         bHwRadioOff>>
          /\ rtl8180_hard_data_xmit
          /\ isr = "resume" /\ isr_i < tx_pending.nr
          /\ isr_i' = isr_i + 1 /\ offered' = offered + 1
      BY <1>3 DEF resume_tx_frag, dataVars, adminVars
    <2>2. tx_pending # NoTxb /\ tx_pending.nr \in 1 .. MaxFrags
      BY <2>1 DEF TypeOK, Pending, LockOwner
    <2>3. isr_i' \in 0 .. MaxFrags /\ isr_i' <= tx_pending.nr
          /\ isr_i' = offered' /\ offered' \in 0 .. MaxFrags
      BY <2>1, <2>2, TxPathAssumption, SMT DEF TypeOK, ResumesWhereItStopped
    <2>4. LockOwner'
      BY <2>1, <2>2, <2>3 DEF LockOwner
    <2> QED
      BY <2>1, <2>2, <2>3, <2>4, XmitKeepsCount
      DEF TypeOK, PendingImpliesStopped, ResumesWhereItStopped
  <1>4. CASE resume_tx_end
    <2>1. UNCHANGED <<queue_stop, netif_stopped, mgmt, lp_pending, tx_urb_index,
                      pipe, lock, isr_i, data, data_i, offered, admin, up,
                      bHwRadioOff>>
          /\ isr = "resume" /\ isr' = "netif"
      BY <1>4 DEF resume_tx_end, stackVars, usbVars, dataVars, adminVars
    <2>2. tx_pending \in Pending /\ isr_i = offered
      BY <2>1 DEF TypeOK, LockOwner, ResumesWhereItStopped
    <2>3. \/ tx_pending' = NoTxb
          \/ /\ queue_stop
             /\ tx_pending' \in Pending
             /\ tx_pending'.frag = offered /\ offered < tx_pending'.nr
      BY <1>4, <2>2 DEF resume_tx_end, Pending, TypeOK
    <2>4. TypeOK' /\ LockOwner'
      BY <2>1, <2>3 DEF TypeOK, LockOwner
    <2>5. CounterMatchesPipe'
      BY <2>1, SMT DEF CounterMatchesPipe, TypeOK
    <2>6. StoppedQueueHasWaker' /\ PendingImpliesStopped' /\ ResumesWhereItStopped'
      BY <2>1, <2>3
      DEF StoppedQueueHasWaker, PendingImpliesStopped, ResumesWhereItStopped
    <2> QED
      BY <2>4, <2>5, <2>6
  <1>5. CASE wake_queue_exit
    <2>1. UNCHANGED <<queue_stop, tx_pending, mgmt, lp_pending, tx_urb_index, pipe,
                      isr_i, data, data_i, offered, admin, up, bHwRadioOff>>
          /\ netif_stopped' \in BOOLEAN
          /\ isr = "netif" /\ isr' = "idle" /\ lock = "isr" /\ lock' = "free"
      BY <1>5 DEF wake_queue_exit, usbVars, dataVars, adminVars, TypeOK, LockOwner
    <2>2. TypeOK' /\ LockOwner' /\ StoppedQueueHasWaker'
      BY <2>1 DEF TypeOK, LockOwner, StoppedQueueHasWaker
    <2>3. CounterMatchesPipe'
      BY <2>1, SMT DEF CounterMatchesPipe, TypeOK
    <2> QED
      BY <2>1, <2>2, <2>3 DEF PendingImpliesStopped, ResumesWhereItStopped
  <1> QED
    BY <1>1, <1>2, <1>3, <1>4, <1>5

\* The administration: what leaves the queue alone, and what resets it.
LEMMA ResetKeeps ==
    ASSUME IInv, ieee80211_reset_queue, up' \in BOOLEAN,
           admin' \in {"probed", "idle", "netif_stop", "rx_initiate", "reset_queue",
                       "netif_wake"}
    PROVE IInv'
  <1> USE DEF IInv
  <1>1. UNCHANGED <<netif_stopped, lp_pending, tx_urb_index, pipe, lock, isr, isr_i,
                    data, data_i, offered, bHwRadioOff>>
        /\ lock = "free" /\ tx_pending' = NoTxb /\ queue_stop' = FALSE
    BY DEF ieee80211_reset_queue, usbVars, isrVars, dataVars
  <1>2. mgmt' \in MgmtQueueType
    BY OperationsKeepType DEF ieee80211_reset_queue, TypeOK
  <1>3. TypeOK' /\ LockOwner'
    BY <1>1, <1>2 DEF TypeOK, LockOwner
  <1>4. CounterMatchesPipe'
    BY <1>1, SMT DEF CounterMatchesPipe, TypeOK
  <1> QED
    BY <1>1, <1>3, <1>4
    DEF StoppedQueueHasWaker, PendingImpliesStopped, ResumesWhereItStopped, LockOwner

LEMMA AdminStep ==
    ASSUME IInv,
           \/ ieee80211_disassociate \/ rtl8180_down \/ rtl8180_commit \/ rtl8180_open
           \/ Bringup \/ radio_switch
    PROVE IInv'
  <1> USE DEF IInv
  <1>1. CASE ieee80211_disassociate \/ rtl8180_down \/ rtl8180_commit \/ up_reset_queue
    <2>1. ieee80211_reset_queue /\ up' \in BOOLEAN
          /\ admin' \in {"probed", "idle", "netif_stop", "rx_initiate", "reset_queue",
                         "netif_wake"}
      BY <1>1 DEF ieee80211_disassociate, rtl8180_down, rtl8180_commit,
                  up_reset_queue, TypeOK
    <2> QED
      BY <2>1, ResetKeeps
  <1>2. ASSUME rtl8180_open \/ rtl8180_down_netif \/ rtl8187_rx_initiate \/ up_netif_wake
               \/ radio_switch
        PROVE IInv'
    <2>1. /\ UNCHANGED <<queue_stop, tx_pending, mgmt, lp_pending, pipe, lock, isr,
                         isr_i, data, data_i, offered>>
          /\ netif_stopped' \in BOOLEAN /\ up' \in BOOLEAN /\ bHwRadioOff' \in BOOLEAN
          /\ tx_urb_index' \in {tx_urb_index, 0}
          /\ admin' \in {"probed", "idle", "netif_stop", "rx_initiate", "reset_queue",
                         "netif_wake"}
      BY <1>2 DEF rtl8180_open, rtl8180_down_netif, rtl8187_rx_initiate, up_netif_wake,
                  radio_switch, stackVars, usbVars, isrVars, dataVars, TypeOK
    <2>2. tx_urb_index' \in Context
      BY <2>1, TxPathAssumption, SMT DEF TypeOK, Context
    <2>3. TypeOK' /\ LockOwner'
      BY <2>1, <2>2 DEF TypeOK, LockOwner
    <2>4. CounterMatchesPipe'
      BY <2>1, SMT DEF CounterMatchesPipe, TypeOK
    <2> QED
      BY <2>1, <2>3, <2>4
      DEF StoppedQueueHasWaker, PendingImpliesStopped, ResumesWhereItStopped
  <1> QED
    BY <1>1, <1>2 DEF Bringup

LEMMA StutterStep == ASSUME IInv, UNCHANGED vars PROVE IInv'
  <1>1. UNCHANGED <<queue_stop, netif_stopped, tx_pending, mgmt, lp_pending,
                    tx_urb_index, pipe, lock, isr, isr_i, data, data_i, offered,
                    admin, up, bHwRadioOff>>
    BY DEF vars, stackVars, usbVars, isrVars, dataVars, adminVars
  <1>2. CounterMatchesPipe'
    BY <1>1, SMT DEF IInv, CounterMatchesPipe, TypeOK
  <1> QED
    BY <1>1, <1>2
    DEF IInv, TypeOK, LockOwner, StoppedQueueHasWaker, PendingImpliesStopped,
        ResumesWhereItStopped

\* The strengthened invariant is inductive.
THEOREM Inductive == Spec => []IInv
  <1>1. IInv /\ [Next]_vars => IInv'
    BY DataStep, TrafficStep, HandlerStep, WakeStep, AdminStep, StutterStep
    DEF Next, Completion
  <1> QED
    BY InitInv, <1>1, PTL DEF Spec

\* No index, counter or list of the transmit path leaves its range; in
\* particular tx_lp_pending is never negative and exceeds the number of
\* contexts by one at most (rtl8180_tx).
THEOREM TypeCorrect == Spec => []TypeOK
  BY Inductive, PTL DEF IInv

\* tx_lp_pending counts the URBs that are out (rtl8180_tx, rtl8187_lptx_isr).
THEOREM CountIsRight == Spec => []CounterMatchesPipe
  BY Inductive, PTL DEF IInv

\* A stopped queue has an URB out or a handler under way that will wake it
\* (rtl8180_hard_data_xmit, rtl8180_try_wake_queue, ieee80211_wake_queue).
THEOREM NoLostWakeup == Spec => []StoppedQueueHasWaker
  BY Inductive, PTL DEF IInv

\* A txb waits only in a stopped queue (ieee80211_softmac_xmit,
\* ieee80211_resume_tx, ieee80211_reset_queue).
THEOREM PendingOnlyWhileStopped == Spec => []PendingImpliesStopped
  BY Inductive, PTL DEF IInv

\* An interrupted txb goes on at the first fragment the driver has not seen
\* (ieee80211_softmac_xmit, ieee80211_resume_tx).
THEOREM NoFragmentTwice == Spec => []ResumesWhereItStopped
  BY Inductive, PTL DEF IInv

=============================================================================
