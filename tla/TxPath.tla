------------------------------- MODULE TxPath --------------------------------
(***************************************************************************)
(* The transmit path: ieee80211_softmac_xmit and the queue functions of    *)
(* ieee80211_softmac.c on top, rtl8180_hard_data_xmit, rtl8180_tx and the  *)
(* completion handler of r8187_core.c below.                               *)
(*                                                                         *)
(* Four threads: the network stack that sends data (one call at a time,    *)
(* under the transmit lock of the net device), the completion of URBs, the *)
(* softmac code that sends management frames, and the administration       *)
(* (open, close, reset, disassociate), serialised by priv->wx_sem.         *)
(* What a thread does with ieee->lock held is one step, except the two     *)
(* loops that send several frames, where the owner of the lock is recorded *)
(* and every frame is a step.  tx_lock is only taken inside ieee->lock or  *)
(* for one comparison, so a call of rtl8180_hard_data_xmit is one step: a  *)
(* decrement of tx_lp_pending that falls inside it gives the state of one  *)
(* that falls before or after it.                                          *)
(***************************************************************************)
EXTENDS MgmtQueue, Sequences

CONSTANTS
    MAX_TX_URB,   \* transmit contexts of the driver (16 in r8180_hw.h)
    MaxFrags,     \* fragments of a data frame, at most
    NoTxb         \* the null pointer in tx_pending.txb

ASSUME TxPathAssumption ==
    /\ MAX_TX_URB \in Nat \ {0}
    /\ MaxFrags \in Nat \ {0}

VARIABLES
    queue_stop,      \* ieee->queue_stop
    netif_stopped,   \* netif_queue_stopped(dev)
    tx_pending,      \* ieee->tx_pending: fragments of the txb, next fragment
    mgmt,            \* the ring of management frames
    lp_pending,      \* priv->tx_lp_pending
    tx_urb_index,    \* priv->tx_urb_index
    pipe,            \* the contexts whose URB the host controller has, in order
    bHwRadioOff,
    lock,            \* who holds ieee->lock between steps
    isr, isr_i,      \* where the completion handler is, and its i
    data, data_i,    \* fragments of the txb that ieee80211_xmit built (0: no
                     \* call in progress), and i of ieee80211_softmac_xmit
    offered,         \* fragments of the txb on its way given to the driver
    admin,           \* where the administration is
    up               \* priv->up

stackVars == <<queue_stop, netif_stopped>>
usbVars == <<lp_pending, tx_urb_index, pipe>>
dataVars == <<data, data_i>>
isrVars == <<isr, isr_i>>
adminVars == <<admin, up, bHwRadioOff>>
vars == <<stackVars, tx_pending, mgmt, usbVars, lock, isrVars, dataVars,
          offered, adminVars>>

Context == 0 .. MAX_TX_URB - 1
Pending == [nr : 1 .. MaxFrags, frag : 0 .. MaxFrags]

TypeOK ==
    /\ queue_stop \in BOOLEAN /\ netif_stopped \in BOOLEAN
    /\ tx_pending \in Pending \cup {NoTxb}
    /\ mgmt \in MgmtQueueType
    /\ lp_pending \in 0 .. MAX_TX_URB + 1
    /\ tx_urb_index \in Context
    /\ pipe \in Seq(Context)
    /\ bHwRadioOff \in BOOLEAN
    /\ lock \in {"free", "data", "isr"}
    /\ isr \in {"idle", "dec", "check", "wake", "mgmt", "resume", "netif"}
    /\ isr_i \in 0 .. MaxFrags
    /\ data \in 0 .. MaxFrags /\ data_i \in 0 .. MaxFrags
    /\ offered \in 0 .. MaxFrags
    /\ admin \in {"probed", "idle", "netif_stop", "rx_initiate", "reset_queue", "netif_wake"}
    /\ up \in BOOLEAN

\* alloc_ieee80211 and rtl8187_usb_probe: zeroed memory, the queue stopped.
Init ==
    /\ queue_stop = FALSE /\ netif_stopped = TRUE
    /\ tx_pending = NoTxb
    /\ mgmt = ZeroedQueue
    /\ lp_pending = 0 /\ tx_urb_index = 0 /\ pipe = <<>>
    /\ bHwRadioOff = FALSE
    /\ lock = "free"
    /\ isr = "idle" /\ isr_i = 0
    /\ data = 0 /\ data_i = 0
    /\ offered = 0
    /\ admin = "probed" /\ up = FALSE

-----------------------------------------------------------------------------
(* The driver below ieee->lock. *)

check_nic_enought_desc(used) == used < MAX_TX_URB

ieee80211_stop_queue ==
    /\ netif_stopped' = TRUE
    /\ queue_stop' = TRUE

InFlight(i) == \E k \in DOMAIN pipe : pipe[k] = i

\* Mutant of rtl8180_tx: a submission that fails counts.
rtl8180_tx_counts_failure ==
    /\ lp_pending <= MAX_TX_URB
    /\ tx_urb_index' = (tx_urb_index + 1) % MAX_TX_URB
    /\ pipe' = IF InFlight(tx_urb_index) THEN pipe ELSE Append(pipe, tx_urb_index)
    /\ lp_pending' = lp_pending + 1

\* The next context is taken whatever becomes of it.  The submission may fail,
\* and does when the host controller still has the URB.
rtl8180_tx ==
    \/ /\ lp_pending > MAX_TX_URB
       /\ UNCHANGED usbVars
    \/ /\ lp_pending <= MAX_TX_URB
       /\ tx_urb_index' = (tx_urb_index + 1) % MAX_TX_URB
       /\ \/ /\ ~InFlight(tx_urb_index)
             /\ pipe' = Append(pipe, tx_urb_index)
             /\ lp_pending' = lp_pending + 1
          \/ UNCHANGED <<pipe, lp_pending>>

\* The queue is stopped by a call that finds no context free, and by one that
\* takes the last.  With the radio off the frame is dropped without a word.
rtl8180_hard_data_xmit ==
    \/ /\ bHwRadioOff
       /\ UNCHANGED <<stackVars, usbVars>>
    \/ /\ ~bHwRadioOff
       /\ rtl8180_tx
       /\ IF check_nic_enought_desc(lp_pending) /\ check_nic_enought_desc(lp_pending')
          THEN UNCHANGED stackVars
          ELSE ieee80211_stop_queue

-----------------------------------------------------------------------------
(* Data: ieee80211_xmit, then ieee80211_softmac_xmit under the lock. *)

\* The stack looks at the queue before it calls; the txb is built and the lock
\* released before ieee80211_softmac_xmit takes it again.
ieee80211_xmit(nr) ==
    /\ data = 0
    /\ ~netif_stopped
    /\ lock = "free"
    /\ data' = nr
    /\ data_i' = 0
    /\ UNCHANGED <<stackVars, tx_pending, mgmt, usbVars, lock, isrVars, offered,
                   adminVars>>

softmac_xmit_lost ==
    /\ data > 0 /\ lock = "free"
    /\ queue_stop /\ tx_pending # NoTxb
    /\ data' = 0
    /\ UNCHANGED <<stackVars, tx_pending, mgmt, usbVars, lock, isrVars, data_i,
                   offered, adminVars>>

softmac_xmit_enter ==
    /\ data > 0 /\ lock = "free"
    /\ ~(queue_stop /\ tx_pending # NoTxb)
    /\ lock' = "data"
    /\ offered' = 0
    /\ UNCHANGED <<stackVars, tx_pending, mgmt, usbVars, isrVars, dataVars,
                   adminVars>>

softmac_xmit_frag ==
    /\ lock = "data" /\ data_i < data
    /\ ~queue_stop
    /\ rtl8180_hard_data_xmit
    /\ data_i' = data_i + 1
    /\ offered' = offered + 1
    /\ UNCHANGED <<tx_pending, mgmt, lock, isrVars, data, adminVars>>

softmac_xmit_exit ==
    /\ lock = "data"
    /\ \/ data_i = data /\ UNCHANGED tx_pending
       \/ /\ data_i < data /\ queue_stop
          /\ tx_pending' = [nr |-> data, frag |-> data_i]
    /\ data' = 0
    /\ lock' = "free"
    /\ UNCHANGED <<stackVars, mgmt, usbVars, isrVars, data_i, offered, adminVars>>

-----------------------------------------------------------------------------
(* Management frames: only after the first open, but also after a close, when *)
(* a work item that was queued before runs.                                   *)

\* softmac_mgmt_xmit with IEEE_SOFTMAC_SINGLE_QUEUE.
softmac_mgmt_xmit(skb) ==
    /\ admin # "probed"
    /\ lock = "free"
    /\ IF queue_stop
       THEN /\ mgmt' = enqueue_mgmt(mgmt, skb)
            /\ UNCHANGED <<stackVars, usbVars>>
       ELSE /\ rtl8180_hard_data_xmit
            /\ UNCHANGED mgmt
    /\ UNCHANGED <<tx_pending, lock, isrVars, dataVars, offered, adminVars>>

\* softmac_ps_mgmt_xmit: a null frame does not ask whether the queue is stopped.
softmac_ps_mgmt_xmit ==
    /\ admin # "probed"
    /\ lock = "free"
    /\ rtl8180_hard_data_xmit
    /\ UNCHANGED <<tx_pending, mgmt, lock, isrVars, dataVars, offered, adminVars>>

-----------------------------------------------------------------------------
(* Completion: rtl8187_lptx_isr, rtl8180_try_wake_queue, ieee80211_wake_queue *)
(* and ieee80211_resume_tx.  A bulk pipe gives its URBs back in order.        *)

usb_giveback ==
    /\ isr = "idle" /\ pipe # <<>>
    /\ pipe' = Tail(pipe)
    /\ isr' = "dec"
    /\ UNCHANGED <<stackVars, tx_pending, mgmt, lp_pending, tx_urb_index, lock,
                   isr_i, dataVars, offered, adminVars>>

\* The counter goes down whatever the status of the URB is.
rtl8187_lptx_isr ==
    /\ isr = "dec"
    /\ lp_pending' = lp_pending - 1
    /\ isr' = "check"
    /\ UNCHANGED <<stackVars, tx_pending, mgmt, tx_urb_index, pipe, lock, isr_i,
                   dataVars, offered, adminVars>>

\* Mutant of rtl8180_try_wake_queue: an URB that failed wakes nobody.
rtl8180_try_wake_on_success ==
    /\ isr = "check"
    /\ isr' \in {"idle", IF check_nic_enought_desc(lp_pending) THEN "wake" ELSE "idle"}
    /\ UNCHANGED <<stackVars, tx_pending, mgmt, usbVars, lock, isr_i, dataVars,
                   offered, adminVars>>

rtl8180_try_wake_queue ==
    /\ isr = "check"
    /\ isr' = IF check_nic_enought_desc(lp_pending) THEN "wake" ELSE "idle"
    /\ UNCHANGED <<stackVars, tx_pending, mgmt, usbVars, lock, isr_i, dataVars,
                   offered, adminVars>>

wake_queue_enter ==
    /\ isr = "wake" /\ lock = "free"
    /\ IF queue_stop
       THEN /\ queue_stop' = FALSE
            /\ lock' = "isr"
            /\ isr' = "mgmt"
       ELSE /\ isr' = "idle"
            /\ UNCHANGED <<queue_stop, lock>>
    /\ UNCHANGED <<netif_stopped, tx_pending, mgmt, usbVars, isr_i, dataVars,
                   offered, adminVars>>

wake_queue_mgmt ==
    /\ isr = "mgmt" /\ ~queue_stop
    /\ dequeued_skb(mgmt) # NoSkb
    /\ mgmt' = dequeue_mgmt(mgmt)
    /\ rtl8180_hard_data_xmit
    /\ UNCHANGED <<tx_pending, lock, isrVars, dataVars, offered, adminVars>>

\* Mutant of wake_queue_mgmt_end: the txb is not resumed.
wake_queue_mgmt_end_only ==
    /\ isr = "mgmt"
    /\ queue_stop \/ dequeued_skb(mgmt) = NoSkb
    /\ isr' = "netif"
    /\ UNCHANGED <<stackVars, tx_pending, mgmt, usbVars, lock, isr_i, dataVars,
                   offered, adminVars>>

\* A null pointer taken out of the ring ends the loop too, its slot consumed.
wake_queue_mgmt_end ==
    /\ isr = "mgmt"
    /\ \/ queue_stop /\ UNCHANGED mgmt
       \/ /\ ~queue_stop /\ dequeued_skb(mgmt) = NoSkb
          /\ mgmt' = dequeue_mgmt(mgmt)
    /\ IF ~queue_stop /\ tx_pending # NoTxb
       THEN isr' = "resume" /\ isr_i' = tx_pending.frag
       ELSE isr' = "netif" /\ UNCHANGED isr_i
    /\ UNCHANGED <<stackVars, tx_pending, usbVars, lock, dataVars, offered,
                   adminVars>>

resume_tx_frag ==
    /\ isr = "resume" /\ isr_i < tx_pending.nr
    /\ ~queue_stop
    /\ rtl8180_hard_data_xmit
    /\ isr_i' = isr_i + 1
    /\ offered' = offered + 1
    /\ UNCHANGED <<tx_pending, mgmt, lock, isr, dataVars, adminVars>>

\* Mutant of resume_tx_end: tx_pending.frag is not updated.
resume_tx_end_unsaved ==
    /\ isr = "resume"
    /\ tx_pending' = IF isr_i = tx_pending.nr THEN NoTxb ELSE tx_pending
    /\ isr_i = tx_pending.nr \/ queue_stop
    /\ isr' = "netif"
    /\ UNCHANGED <<stackVars, mgmt, usbVars, lock, isr_i, dataVars, offered,
                   adminVars>>

resume_tx_end ==
    /\ isr = "resume"
    /\ \/ isr_i = tx_pending.nr /\ tx_pending' = NoTxb
       \/ /\ isr_i < tx_pending.nr /\ queue_stop
          /\ tx_pending' = [tx_pending EXCEPT !.frag = isr_i]
    /\ isr' = "netif"
    /\ UNCHANGED <<stackVars, mgmt, usbVars, lock, isr_i, dataVars, offered,
                   adminVars>>

wake_queue_exit ==
    /\ isr = "netif"
    /\ netif_stopped' = (netif_stopped /\ queue_stop)
    /\ lock' = "free"
    /\ isr' = "idle"
    /\ UNCHANGED <<queue_stop, tx_pending, mgmt, usbVars, isr_i, dataVars, offered,
                   adminVars>>

-----------------------------------------------------------------------------
(* Administration. *)

\* Frames and the pending txb are thrown away; the net device is not told.
ieee80211_reset_queue ==
    /\ lock = "free"
    /\ mgmt' = init_mgmt_queue(mgmt)
    /\ tx_pending' = NoTxb
    /\ queue_stop' = FALSE
    /\ UNCHANGED <<netif_stopped, usbVars, lock, isrVars, dataVars, offered,
                   bHwRadioOff>>

\* ieee80211_stop_protocol, then a start, for a new ESSID, BSSID or mode.
ieee80211_disassociate ==
    /\ admin = "idle" /\ up
    /\ ieee80211_reset_queue
    /\ UNCHANGED <<admin, up>>

rtl8180_down ==
    /\ admin = "idle" /\ up
    /\ up' = FALSE
    /\ ieee80211_reset_queue
    /\ admin' = "netif_stop"

rtl8180_down_netif ==
    /\ admin = "netif_stop"
    /\ netif_stopped' = TRUE
    /\ admin' = "idle"
    /\ UNCHANGED <<queue_stop, tx_pending, mgmt, usbVars, lock, isrVars, dataVars,
                   offered, up, bHwRadioOff>>

\* rtl8180_restart, after tx_timeout: no URB is taken back.
rtl8180_commit ==
    /\ admin = "idle" /\ up
    /\ ieee80211_reset_queue
    /\ admin' = "rx_initiate"
    /\ UNCHANGED up

rtl8180_open ==
    /\ admin \in {"probed", "idle"} /\ ~up
    /\ ~bHwRadioOff
    /\ up' = TRUE
    /\ admin' = "rx_initiate"
    /\ UNCHANGED <<stackVars, tx_pending, mgmt, usbVars, lock, isrVars, dataVars,
                   offered, bHwRadioOff>>

\* _rtl8180_up: the receive URBs are submitted and the index goes back to 0 ...
rtl8187_rx_initiate ==
    /\ admin = "rx_initiate"
    /\ tx_urb_index' = 0
    /\ admin' = "reset_queue"
    /\ UNCHANGED <<stackVars, tx_pending, mgmt, lp_pending, pipe, lock, isrVars,
                   dataVars, offered, up, bHwRadioOff>>

\* ... the queue is reset, and then the net device is woken.
up_reset_queue ==
    /\ admin = "reset_queue"
    /\ ieee80211_reset_queue
    /\ admin' = "netif_wake"
    /\ UNCHANGED up

up_netif_wake ==
    /\ admin = "netif_wake"
    /\ netif_stopped' = FALSE
    /\ admin' = "idle"
    /\ UNCHANGED <<queue_stop, tx_pending, mgmt, usbVars, lock, isrVars, dataVars,
                   offered, up, bHwRadioOff>>

\* The radio switch, as the GPIO work item reports it.
radio_switch ==
    /\ bHwRadioOff' = ~bHwRadioOff
    /\ UNCHANGED <<stackVars, tx_pending, mgmt, usbVars, lock, isrVars, dataVars,
                   offered, admin, up>>

-----------------------------------------------------------------------------

Data ==
    \/ softmac_xmit_lost \/ softmac_xmit_enter
    \/ softmac_xmit_frag \/ softmac_xmit_exit

ManagementTraffic ==
    \/ \E skb \in Skb : softmac_mgmt_xmit(skb)
    \/ softmac_ps_mgmt_xmit

Completion ==
    \/ rtl8187_lptx_isr \/ rtl8180_try_wake_queue
    \/ wake_queue_enter \/ wake_queue_mgmt \/ wake_queue_mgmt_end
    \/ resume_tx_frag \/ resume_tx_end \/ wake_queue_exit

Bringup ==
    \/ rtl8180_down_netif
    \/ rtl8187_rx_initiate \/ up_reset_queue \/ up_netif_wake

Next ==
    \/ \E nr \in 1 .. MaxFrags : ieee80211_xmit(nr)
    \/ Data
    \/ ManagementTraffic
    \/ usb_giveback
    \/ Completion
    \/ ieee80211_disassociate
    \/ rtl8180_down \/ rtl8180_commit \/ rtl8180_open
    \/ Bringup
    \/ radio_switch

Spec == Init /\ [][Next]_vars

\* The host controller gives every URB back, at the latest with an error; an
\* interrupt handler and a thread that holds or waits for a spin lock go on.
FairSpec ==
    /\ Spec
    /\ WF_vars(usb_giveback)
    /\ WF_vars(Completion)
    /\ WF_vars(Data)
    /\ SF_vars(wake_queue_enter)

-----------------------------------------------------------------------------

\* tx_lp_pending counts what the host controller has and the one URB whose
\* handler has not come to the decrement (rtl8180_tx, rtl8187_lptx_isr).
CounterMatchesPipe ==
    lp_pending = Len(pipe) + (IF isr = "dec" THEN 1 ELSE 0)

\* A stopped queue is never forgotten: an URB is still out, or its handler is
\* still on its way to ieee80211_wake_queue.
StoppedQueueHasWaker ==
    queue_stop => pipe # <<>> \/ isr \in {"dec", "check", "wake"}

\* A txb waits only while the queue is stopped, so that the next wake finds it
\* and no second one can need its place (ieee80211_softmac_xmit,
\* ieee80211_resume_tx, ieee80211_reset_queue).
PendingImpliesStopped ==
    tx_pending # NoTxb => queue_stop \/ isr \in {"mgmt", "resume"}

\* A txb that was interrupted goes on at the fragment the driver has not seen:
\* none is sent twice and none is skipped (tx_pending.frag).
ResumesWhereItStopped ==
    /\ tx_pending # NoTxb /\ isr # "resume" => tx_pending.frag = offered
    /\ tx_pending # NoTxb => offered < tx_pending.nr \/ isr = "resume"
    /\ isr = "resume" => isr_i = offered

\* A queue that was stopped is woken, when null frames, which take contexts from
\* a stopped queue, do not come for ever (rtl8180_try_wake_queue).
QueueIsWoken ==
    <>[][~softmac_ps_mgmt_xmit]_vars => (queue_stop ~> ~queue_stop)

\* When management frames, which go first, stop coming for a while, the txb
\* that waits is sent.
PendingIsResumed ==
    <>[][~ManagementTraffic]_vars => (tx_pending # NoTxb ~> tx_pending = NoTxb)

=============================================================================
