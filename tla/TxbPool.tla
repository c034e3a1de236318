------------------------------- MODULE TxbPool -------------------------------
(***************************************************************************)
(* The pool of preallocated transmit blocks (alloc_txb) and the fragments  *)
(* that ieee80211_xmit of ieee80211_tx.c builds in them.  The blocks are   *)
(* taken in turn and never given back: the driver copies a fragment when   *)
(* it is handed over, and the next frame that gets a block clears what the *)
(* last one left there.  Bytes are counted, their values are left out.     *)
(***************************************************************************)
EXTENDS Integers

CONSTANTS
    MAX_TX_SKB,            \* blocks in the pool (16 in ieee80211.h)
    MAX_NUM_FRAGS,         \* buffers of a block (8)
    MIN_FRAG_THRESHOLD,    \* bounds of the fragmentation threshold (256, 2346)
    MAX_FRAG_THRESHOLD,
    DEFAULT_FRAG_THRESHOLD,   \* 2342 in r8187.h
    HDR_LEN,               \* IEEE80211_3ADDR_LEN (24)
    Overhead,              \* prefix + postfix of each crypto (none, WEP, CCMP, TKIP)
    Msdu,                  \* sizes of a payload with its SNAP header
    DEFAULT_MSDU,          \* the largest at the MTU of ether_setup (1508)
    FragValue,             \* thresholds a user asks for
    MaxRaw                 \* bound: raw frames sent in a run

\* Nothing bounds Msdu: the driver has no ndo_change_mtu, so that the MTU can be
\* raised, and ieee80211_xmit does not look at the size of a frame.  A frame of
\* the default MTU fits in a block: the smallest threshold leaves 212 bytes in a
\* TKIP fragment.
ASSUME TxbPoolAssumption ==
    /\ MAX_TX_SKB \in Nat \ {0} /\ MAX_NUM_FRAGS \in Nat \ {0}
    /\ MIN_FRAG_THRESHOLD \in Nat /\ MIN_FRAG_THRESHOLD % 2 = 0
    /\ MAX_FRAG_THRESHOLD \in Nat
    /\ DEFAULT_FRAG_THRESHOLD \in MIN_FRAG_THRESHOLD .. MAX_FRAG_THRESHOLD
    /\ HDR_LEN \in Nat
    /\ FragValue \subseteq Nat
    /\ MaxRaw \in Nat
    /\ Overhead \subseteq Nat /\ 0 \in Overhead
    /\ \A x \in Overhead : HDR_LEN + x < MIN_FRAG_THRESHOLD
    /\ Msdu \subseteq Nat \ {0}
    /\ DEFAULT_MSDU \in Nat
    /\ \A x \in Overhead :
          DEFAULT_MSDU <= MAX_NUM_FRAGS * (MIN_FRAG_THRESHOLD - HDR_LEN - x)

VARIABLES
    alloc_txb,         \* the blocks
    tx_skb_index,      \* the block the next frame gets
    tx_pending_txb,    \* the calls of ieee80211_xmit that have not come back
    call,              \* such a call is between its two critical sections
    fts,               \* ieee->fts
    raw                \* raw frames sent so far

vars == <<alloc_txb, tx_skb_index, tx_pending_txb, call, fts, raw>>

Index == 0 .. MAX_TX_SKB - 1
Buffer == 0 .. MAX_NUM_FRAGS - 1
NoFrame == [payload |-> 0, frag_size |-> 0, extra |-> 0, added |-> 0]

FrameType == [payload : Nat, frag_size : Nat, extra : Nat, added : Nat]
Txb == [nr_frags : Nat, len : [Buffer -> Nat], frame : FrameType]

TypeOK ==
    /\ alloc_txb \in [Index -> Txb]
    /\ tx_skb_index \in Index
    /\ tx_pending_txb \in Int
    /\ call \in BOOLEAN
    /\ fts \in MIN_FRAG_THRESHOLD .. MAX_FRAG_THRESHOLD
    /\ raw \in 0 .. MaxRaw

\* ieee80211_alloc_txb for each block: zeroed, with empty buffers.
EmptyTxb == [nr_frags |-> 0, len |-> [i \in Buffer |-> 0], frame |-> NoFrame]

Init ==
    /\ alloc_txb = [s \in Index |-> EmptyTxb]
    /\ tx_skb_index = 0
    /\ tx_pending_txb = 0
    /\ call = FALSE
    /\ fts = DEFAULT_FRAG_THRESHOLD
    /\ raw = 0

-----------------------------------------------------------------------------
(* Building a block.  A frame has a payload of so many bytes, goes out in     *)
(* fragments of frag_size at most, reserves extra bytes in each for the       *)
(* crypto, which adds them or fails and adds nothing: its result is ignored.  *)

bytes_per_frag(f) == f.frag_size - HDR_LEN - f.extra

\* Mutant of nr_frags: a remainder has no fragment of its own.
nr_frags_down(f) == f.payload \div bytes_per_frag(f)

nr_frags(f) ==
    f.payload \div bytes_per_frag(f)
    + (IF f.payload % bytes_per_frag(f) = 0 THEN 0 ELSE 1)

bytes_last_frag(f) ==
    IF f.payload % bytes_per_frag(f) = 0
    THEN bytes_per_frag(f) ELSE f.payload % bytes_per_frag(f)

\* Mutant of cleared: the last of the old fragments is left as it was.
cleared_short(txb) ==
    [i \in Buffer |-> IF i < txb.nr_frags - 1 THEN 0 ELSE txb.len[i]]

\* The buffers that the frame before used are emptied: as many as it had.
cleared(txb) == [i \in Buffer |-> IF i < txb.nr_frags THEN 0 ELSE txb.len[i]]

\* skb_put adds to what the buffer holds.
built(txb, f) ==
    [nr_frags |-> nr_frags(f),
     frame |-> f,
     len |-> [i \in Buffer |->
        cleared(txb)[i]
        + (CASE i < nr_frags(f) - 1 -> HDR_LEN + bytes_per_frag(f) + f.added
             [] i = nr_frags(f) - 1 -> HDR_LEN + bytes_last_frag(f) + f.added
             [] OTHER -> 0)]]

\* A frame of more fragments than a block has buffers: the loop takes its further
\* buffers from the memory behind the block.  What happens then is undefined, and
\* the model stops.
Overrun == \E s \in Index : alloc_txb[s].nr_frags > MAX_NUM_FRAGS

\* The first half of ieee80211_xmit, under ieee->lock.  Multicasts are not
\* fragmented.  The stack makes one call at a time; one that finds the pool
\* used up by calls in progress fails and leaves the net device stopped.
ieee80211_xmit(f) ==
    /\ ~call
    /\ tx_pending_txb <= MAX_TX_SKB - 1
    /\ call' = TRUE
    /\ tx_pending_txb' = tx_pending_txb + 1
    /\ alloc_txb' = [alloc_txb EXCEPT ![tx_skb_index] = built(@, f)]
    /\ tx_skb_index' = (tx_skb_index + 1) % MAX_TX_SKB
    /\ UNCHANGED <<fts, raw>>

Frame(payload, extra) ==
    [payload : {payload}, extra : {extra}, added : {0, extra},
     frag_size : {fts, MAX_FRAG_THRESHOLD}]

\* Mutant of softmac_xmit: a frame that is lost is not counted down.
softmac_xmit_lost_leaks ==
    /\ call
    /\ call' = FALSE
    /\ tx_pending_txb' \in {tx_pending_txb, tx_pending_txb - 1}
    /\ UNCHANGED <<alloc_txb, tx_skb_index, fts, raw>>

\* The second half, ieee80211_softmac_xmit: the fragments are sent, kept in
\* tx_pending or lost, and the counter goes down in each case.
softmac_xmit ==
    /\ call
    /\ call' = FALSE
    /\ tx_pending_txb' = tx_pending_txb - 1
    /\ UNCHANGED <<alloc_txb, tx_skb_index, fts, raw>>

\* A raw frame gets a block of its own, which was never counted.
raw_xmit ==
    /\ ~call /\ raw < MaxRaw
    /\ raw' = raw + 1
    /\ tx_pending_txb' = tx_pending_txb - 1
    /\ UNCHANGED <<alloc_txb, tx_skb_index, call, fts>>

\* Mutant of r8180_wx_set_frag: the lower bound is not checked.
r8180_wx_set_frag_unchecked(value) ==
    /\ value <= MAX_FRAG_THRESHOLD
    /\ fts' = value - (value % 2)
    /\ UNCHANGED <<alloc_txb, tx_skb_index, tx_pending_txb, call, raw>>

\* Odd thresholds are rounded down, those out of bounds refused (and nothing
\* happens with the radio off).
r8180_wx_set_frag(value) ==
    /\ value \in MIN_FRAG_THRESHOLD .. MAX_FRAG_THRESHOLD
    /\ fts' = value - (value % 2)
    /\ UNCHANGED <<alloc_txb, tx_skb_index, tx_pending_txb, call, raw>>

r8180_wx_frag_disabled ==
    /\ fts' = DEFAULT_FRAG_THRESHOLD
    /\ UNCHANGED <<alloc_txb, tx_skb_index, tx_pending_txb, call, raw>>

Next ==
    /\ ~Overrun
    /\ \/ \E payload \in Msdu, extra \in Overhead :
             \E f \in Frame(payload, extra) : ieee80211_xmit(f)
       \/ softmac_xmit
       \/ raw_xmit
       \/ \E value \in FragValue : r8180_wx_set_frag(value)
       \/ r8180_wx_frag_disabled

Spec == Init /\ [][Next]_vars

-----------------------------------------------------------------------------

Used == {s \in Index : alloc_txb[s].nr_frags > 0}

\* A frame overruns its block only when it is larger than the default MTU allows
\* and larger than MAX_NUM_FRAGS full fragments: no threshold that is accepted and
\* no crypto makes a frame of the default MTU do it, odd thresholds and
\* unfragmented multicasts included (ieee80211_xmit indexes fragments[] without a
\* check; r8180_wx_set_frag bounds the threshold).
FragmentsFit ==
    \A s \in Index :
       LET f == alloc_txb[s].frame
       IN  alloc_txb[s].nr_frags > MAX_NUM_FRAGS =>
              /\ f.payload > DEFAULT_MSDU
              /\ f.payload > MAX_NUM_FRAGS * bytes_per_frag(f)

CarriesItsFrame(txb) ==
    LET f == txb.frame
        full == bytes_per_frag(f)
        rest == f.payload - (txb.nr_frags - 1) * full
    IN  /\ rest \in 1 .. full
        /\ \A i \in 0 .. txb.nr_frags - 2 : txb.len[i] = HDR_LEN + full + f.added
        /\ txb.len[txb.nr_frags - 1] = HDR_LEN + rest + f.added
        /\ \A i \in 0 .. txb.nr_frags - 1 : txb.len[i] <= f.frag_size

\* A block that is not overrun carries its frame and nothing of the frame that used it before: all
\* fragments but the last are full, the last has the rest, and none is longer
\* than the threshold it was cut for (ieee80211_xmit, txb->fragments[i]->len).
FragmentsCarryThePayload ==
    \A s \in Used :
       alloc_txb[s].nr_frags <= MAX_NUM_FRAGS => CarriesItsFrame(alloc_txb[s])

\* The count of calls in progress does not drift upwards: otherwise, with
\* MAX_TX_SKB of them lost, every later call would fail and leave the net device
\* stopped with nobody to wake it (ieee80211_xmit, tx_pending_txb).
PoolNeverCloses == tx_pending_txb <= (IF call THEN 1 ELSE 0)

SpareIsEmpty(txb) ==
    \A i \in Buffer : i >= txb.nr_frags => txb.len[i] = 0

\* A buffer past the fragments of the last frame is empty, so that clearing as
\* many as that frame had clears all (the first loop over txb->nr_frags in
\* ieee80211_xmit runs before the new count is stored).
SpareBuffersAreEmpty ==
    \A s \in Index : SpareIsEmpty(alloc_txb[s])

=============================================================================
