------------------------------ MODULE Softmac -------------------------------
(***************************************************************************)
(* The station side of the management entity: ieee80211_softmac.c and the  *)
(* wireless extension handlers of ieee80211_softmac_wx.c and r8180_wx.c    *)
(* that reconfigure it.                                                    *)
(*                                                                         *)
(* Three contexts share ieee80211_device:                                  *)
(*   - "worker", the thread of ieee->wq, which takes one work after the    *)
(*     other in the order they were queued, and does the work of the radio *)
(*     switch, which is queued every two seconds, anywhere among them;     *)
(*   - "user", the process inside an ioctl, open, close or reset: there is *)
(*     one at a time, priv->wx_sem is held around each of them;            *)
(*   - the softirqs (received frames, timers), which interrupt the other   *)
(*     two anywhere and are one step each.                                 *)
(* The two processes advance from one point where they may sleep, or be    *)
(* interrupted with an effect, to the next; pc says where they are.        *)
(***************************************************************************)
EXTENDS Naturals, Sequences, FiniteSets, SequencesExt

CONSTANTS
    Modes,     \* values of ieee->iw_mode: "INFRA", "ADHOC"
    UserOps,   \* what the user does
    Channels   \* channels allowed in channel_map

ASSUME SoftmacAssumption ==
    /\ Modes \subseteq {"INFRA", "ADHOC"} /\ Modes # {}
    /\ UserOps \subseteq {"up", "down", "restart", "network", "mode", "scan", "mlme"}
    /\ Channels \in Nat \ {0}

VARIABLES
    state,          \* ieee->state
    proto_started,
    iw_mode,
    wanted,         \* wap_set or ssid_set: the user named a network
    scanning,       \* the background scan is on
    hurryup,        \* ieee->sync_scan_hurryup
    carrier,        \* netif_carrier_ok(dev)
    assoc_timer,    \* ieee->associate_timer is pending
    delayed,        \* delayed works whose timer is pending
    wq,             \* works queued on ieee->wq
    wx_sem,         \* ieee->wx_sem
    scan_sem,       \* ieee->scan_sem
    ch,             \* ch of ieee80211_softmac_scan_syncro
    pc, task,       \* where the two processes are, and in what
    up,             \* the interface is open: priv->up and the receive URBs
    joined          \* history: the station is linked, or scans while linked, since
                    \* an access point accepted its association

linkVars == <<state, carrier, joined>>
confVars == <<proto_started, iw_mode, wanted, up>>
scanVars == <<scanning, hurryup, scan_sem, ch>>
workVars == <<assoc_timer, delayed, wq>>
procVars == <<wx_sem, pc, task>>
vars == <<linkVars, confVars, scanVars, workVars, procVars>>

Process == {"worker", "user"}
State == {"NOLINK", "ASSOCIATING", "RETRY", "AUTHENTICATING", "AUTHENTICATED",
          "LINKED", "LINKED_SCANNING"}
DelayedWork == {"retry", "scan", "ibss"}
Work == DelayedWork \cup {"procedure", "complete", "sync"}
Label == {"idle", "wx", "stop_scan", "step1", "arm", "start", "syncro", "tune",
          "linked", "disassoc", "forget", "apply", "start_protocol", "down_end",
          "queue_sync"}

TypeOK ==
    /\ state \in State
    /\ iw_mode \in Modes
    /\ {proto_started, wanted, scanning, hurryup, carrier, assoc_timer, up, joined}
         \subseteq BOOLEAN
    /\ delayed \subseteq DelayedWork
    /\ wq \in Seq(Work) /\ IsInjective(wq)
    /\ delayed \cap ToSet(wq) = {}
    /\ wx_sem \in 0 .. 1 /\ scan_sem \in 0 .. 1
    /\ ch \in 0 .. Channels
    /\ pc \in [Process -> Label]
    /\ task \in [Process -> Work \cup UserOps \cup {"none", "up", "restop", "gpio"}]

\* ieee80211_softmac_init.
Init ==
    /\ state = "NOLINK" /\ carrier = FALSE /\ joined = FALSE
    /\ proto_started = FALSE /\ wanted = FALSE /\ up = FALSE
    /\ iw_mode \in Modes
    /\ scanning = FALSE /\ hurryup = FALSE /\ ch = 0
    /\ assoc_timer = FALSE /\ delayed = {} /\ wq = <<>>
    /\ wx_sem = 1 /\ scan_sem = 1
    /\ pc = [p \in Process |-> "idle"] /\ task = [p \in Process |-> "none"]

----------------------------------------------------------------------------
(* Work queues, semaphores and the program counters.                       *)

\* The queue after queue_work(wq, w): a work that is pending is not queued twice.
queue_work(w) == IF w \in delayed \cup ToSet(wq) THEN wq ELSE Append(wq, w)

\* The pending timers after queue_delayed_work(wq, w, some time).
queue_delayed_work(w) == IF w \in ToSet(wq) THEN delayed ELSE delayed \cup {w}

Goto(p, label) == pc' = [pc EXCEPT ![p] = label]

\* p is in task t, at down(&ieee->wx_sem), and gets it.
Down(p, t) == pc[p] = "wx" /\ task[p] = t /\ wx_sem = 1

\* p keeps ieee->wx_sem and goes on at label.
Hold(p, label) == wx_sem' = 0 /\ Goto(p, label) /\ UNCHANGED task

\* p does up(&ieee->wx_sem) and is done.
Up(p) ==
    /\ wx_sem' = 1
    /\ Goto(p, "idle")
    /\ task' = [task EXCEPT ![p] = "none"]

\* The timer of a delayed work runs out.
delayed_work_timer_fn ==
    /\ \E w \in delayed :
         delayed' = delayed \ {w} /\ wq' = Append(wq, w)
    /\ UNCHANGED <<linkVars, confVars, scanVars, assoc_timer, procVars>>

\* The worker takes the next work and goes on at label.
Take(w, label) ==
    /\ pc["worker"] = "idle"
    /\ wq # <<>> /\ Head(wq) = w
    /\ wq' = Tail(wq)
    /\ Goto("worker", label)
    /\ task' = [task EXCEPT !["worker"] = IF label = "idle" THEN "none" ELSE w]

----------------------------------------------------------------------------
(* Networks and the background scan.                                       *)

\* ieee80211_softmac_new_net and ieee80211_softmac_check_all_nets, from the
\* state st: match says whether a network was seen that the user wants.
new_net(st, match) ==
    IF st = "NOLINK" /\ match
    THEN IF iw_mode = "INFRA"
         THEN state' = "ASSOCIATING" /\ wq' = queue_work("procedure")
         ELSE state' = "LINKED" /\ wq' = wq
    ELSE state' = st /\ wq' = wq

\* A beacon or a probe response arrives.
rx_new_net ==
    /\ up
    /\ new_net(state, wanted)
    /\ UNCHANGED <<carrier, joined, confVars, scanVars, assoc_timer, delayed, procVars>>

\* The end of ieee80211_start_bss and of ieee80211_associate_retry_wq:
\* ieee80211_start_scan if there is no link, then up(&ieee->wx_sem).
start_scan(p) ==
    /\ pc[p] = "start"
    /\ IF state = "NOLINK" /\ ~scanning
       THEN scanning' = TRUE /\ wq' = queue_work("scan")
       ELSE UNCHANGED <<scanning, wq>>
    /\ Up(p)
    /\ UNCHANGED <<linkVars, confVars, hurryup, scan_sem, ch, assoc_timer, delayed>>

\* ieee80211_softmac_stop_scan.
stop_scan(p) ==
    /\ pc[p] = "stop_scan" /\ scan_sem = 1
    /\ scanning' = FALSE
    /\ delayed' = IF scanning THEN delayed \ {"scan"} ELSE delayed
    /\ Goto(p, IF p = "worker" THEN "step1" ELSE "disassoc")
    /\ UNCHANGED <<linkVars, confVars, hurryup, scan_sem, ch, assoc_timer, wq, wx_sem, task>>

\* ieee80211_softmac_scan_wq: the next channel, and again later.
softmac_scan_wq ==
    /\ scan_sem = 1
    /\ Take("scan", "idle")
    /\ delayed' = IF scanning THEN delayed \cup {"scan"} ELSE delayed
    /\ UNCHANGED <<linkVars, confVars, scanVars, assoc_timer, wx_sem>>

----------------------------------------------------------------------------
(* The synchronous scan, in the worker (ad-hoc start, scan while linked)   *)
(* or in the user's process (scan in any other state).                     *)

scan_syncro_enter(p) ==
    /\ pc[p] = "syncro" /\ scan_sem = 1
    /\ scan_sem' = 0 /\ ch' = 0
    /\ Goto(p, "tune")
    /\ UNCHANGED <<linkVars, confVars, scanning, hurryup, workVars, wx_sem, task>>

scan_syncro_out(p) ==
    /\ hurryup' = FALSE /\ scan_sem' = 1 /\ ch' = 0
    /\ Goto(p, IF p = "worker" THEN "linked" ELSE "idle")
    /\ task' = IF p = "worker" THEN task ELSE [task EXCEPT ![p] = "none"]

\* Mutant of scan_syncro: the end of channel_map is noticed one channel late.
scan_syncro_late(p) ==
    /\ pc[p] = "tune"
    /\ IF ch > Channels \/ state = "LINKED" \/ hurryup
       THEN scan_syncro_out(p)
       ELSE /\ ch' = ch + 1
            /\ UNCHANGED <<hurryup, scan_sem, pc, task>>
    /\ UNCHANGED <<linkVars, confVars, scanning, workVars, wx_sem>>

\* One channel: tune, send the probe requests, sleep unless in a hurry.
scan_syncro(p) ==
    /\ pc[p] = "tune"
    /\ IF ch = Channels \/ state = "LINKED" \/ hurryup
       THEN scan_syncro_out(p)
       ELSE /\ ch' = ch + 1
            /\ UNCHANGED <<hurryup, scan_sem, pc, task>>
    /\ UNCHANGED <<linkVars, confVars, scanning, workVars, wx_sem>>

\* wx_sync_scan_wq.  The ioctl that queued it left ieee->wx_sem to it.
wx_sync_scan_wq ==
    /\ Take("sync", "syncro")
    /\ carrier' = FALSE /\ state' = "LINKED_SCANNING" /\ hurryup' = FALSE
    /\ UNCHANGED <<joined, confVars, scanning, scan_sem, ch, assoc_timer, delayed, wx_sem>>

\* Mutant of linked: no up(&ieee->wx_sem) at the end.
linked_no_up ==
    /\ pc["worker"] = "linked"
    /\ state' = "LINKED" /\ carrier' = TRUE
    /\ Hold("worker", "idle")
    /\ UNCHANGED <<joined, confVars, scanVars, workVars>>

\* The end of wx_sync_scan_wq and of start_ibss_wq.
linked ==
    /\ pc["worker"] = "linked"
    /\ state' = "LINKED" /\ carrier' = TRUE
    /\ Up("worker")
    /\ UNCHANGED <<joined, confVars, scanVars, workVars>>

----------------------------------------------------------------------------
(* Ad-hoc mode.                                                            *)

start_ibss_wq ==
    /\ Take("ibss", "wx")
    /\ UNCHANGED <<linkVars, confVars, scanVars, assoc_timer, delayed, wx_sem>>

\* With ieee->wx_sem.  Without an ESSID the driver takes one; a network of the
\* list, or else a scan, may have it.
start_ibss ==
    /\ Down("worker", "ibss")
    /\ wanted' \in {wanted, TRUE}
    /\ \E found \in BOOLEAN : new_net(state, found /\ wanted')
    /\ IF state' = "NOLINK"
       THEN hurryup' = FALSE /\ Hold("worker", "syncro")
       ELSE hurryup' = hurryup /\ Hold("worker", "linked")
    /\ UNCHANGED <<carrier, joined, proto_started, iw_mode, up, scanning, scan_sem,
                   ch, assoc_timer, delayed>>

----------------------------------------------------------------------------
(* Authentication and association.                                         *)

\* ieee80211_associate_abort.
associate_abort ==
    /\ state' = "RETRY" /\ joined' = FALSE
    /\ delayed' = queue_delayed_work("retry")

associate_abort_cb ==
    /\ assoc_timer
    /\ assoc_timer' = FALSE
    /\ associate_abort
    /\ UNCHANGED <<carrier, confVars, scanVars, wq, procVars>>

associate_procedure_wq ==
    /\ Take("procedure", "wx")
    /\ hurryup' = TRUE
    /\ UNCHANGED <<linkVars, confVars, scanning, scan_sem, ch, assoc_timer, delayed, wx_sem>>

\* Mutant of associate_procedure: the background scan is left on.
associate_procedure_scanning ==
    /\ Down("worker", "procedure")
    /\ Hold("worker", "step1")
    /\ UNCHANGED <<linkVars, confVars, scanVars, workVars>>

associate_procedure ==
    /\ Down("worker", "procedure")
    /\ Hold("worker", "stop_scan")
    /\ UNCHANGED <<linkVars, confVars, scanVars, workVars>>

\* The authentication request is sent, or there is no memory for it.
associate_step1 ==
    /\ pc["worker"] = "step1"
    /\ \/ /\ state' = "AUTHENTICATING"
          /\ Hold("worker", "arm")
          /\ UNCHANGED <<joined, delayed>>
       \/ associate_abort /\ Up("worker")
    /\ UNCHANGED <<carrier, confVars, scanVars, assoc_timer, wq>>


\* The answer may be here before the timer is set.
associate_step1_arm ==
    /\ pc["worker"] = "arm"
    /\ assoc_timer' = TRUE
    /\ Up("worker")
    /\ UNCHANGED <<linkVars, confVars, scanVars, delayed, wq>>

\* Mutant of associate_step2: the timer is stopped and not set again.
associate_step2_unarmed ==
    \/ state' = "AUTHENTICATED" /\ assoc_timer' = FALSE /\ UNCHANGED <<joined, delayed>>
    \/ associate_abort /\ assoc_timer' = FALSE

\* ieee80211_associate_step2: the timer is stopped, the association request
\* sent, the timer set; or there is no memory.
associate_step2 ==
    \/ state' = "AUTHENTICATED" /\ assoc_timer' = TRUE /\ UNCHANGED <<joined, delayed>>
    \/ associate_abort /\ assoc_timer' = FALSE

\* ieee80211_auth_challenge, which puts the timer off.
auth_challenge ==
    \/ assoc_timer' = TRUE /\ UNCHANGED <<state, joined, delayed>>
    \/ associate_abort /\ UNCHANGED assoc_timer

\* A frame reaches ieee80211_rx_frame_softmac.
Receives(st) == up /\ proto_started /\ iw_mode = "INFRA" /\ state = st

\* What the frames of the access point say; one that is too short refuses.
auth_parse == {"accepted", "challenge", "refused"}
assoc_parse == {"accepted", "refused"}

rx_auth ==
    /\ Receives("AUTHENTICATING")
    /\ \E says \in auth_parse :
          \/ says = "accepted" /\ associate_step2
          \/ says = "challenge" /\ auth_challenge
          \/ says = "refused" /\ associate_abort /\ UNCHANGED assoc_timer
    /\ UNCHANGED <<carrier, confVars, scanVars, wq, procVars>>

\* Mutant of associate_complete: the work is not queued.
associate_complete_silent ==
    /\ assoc_timer' = FALSE
    /\ state' = "LINKED"
    /\ wq' = wq

\* ieee80211_associate_complete.
associate_complete ==
    /\ assoc_timer' = FALSE
    /\ state' = "LINKED"
    /\ wq' = queue_work("complete")

rx_assoc_resp ==
    /\ Receives("AUTHENTICATED")
    /\ \E says \in assoc_parse :
          \/ /\ says = "accepted"
             /\ associate_complete /\ joined' = TRUE /\ UNCHANGED delayed
          \/ says = "refused" /\ associate_abort /\ UNCHANGED <<assoc_timer, wq>>
    /\ UNCHANGED <<carrier, confVars, scanVars, procVars>>

associate_complete_wq ==
    /\ Take("complete", "idle")
    /\ carrier' = TRUE
    /\ UNCHANGED <<state, joined, confVars, scanVars, assoc_timer, delayed, wx_sem>>

\* Disassociation or deauthentication, from anybody: nobody looks at the sender.
rx_disassoc ==
    /\ Receives("LINKED")
    /\ state' = "ASSOCIATING" /\ joined' = FALSE
    /\ wq' = queue_work("procedure")
    /\ UNCHANGED <<carrier, confVars, scanVars, assoc_timer, delayed, procVars>>

associate_retry_wq ==
    /\ Take("retry", "wx")
    /\ UNCHANGED <<linkVars, confVars, scanVars, assoc_timer, delayed, wx_sem>>

\* Mutant of associate_retry: the early exit forgets up(&ieee->wx_sem).
associate_retry_no_up ==
    /\ Down("worker", "retry")
    /\ IF proto_started /\ state = "RETRY"
       THEN /\ \E found \in BOOLEAN : new_net("NOLINK", found /\ wanted)
            /\ Hold("worker", "start")
       ELSE /\ UNCHANGED <<state, wq>>
            /\ Hold("worker", "idle")
    /\ UNCHANGED <<carrier, joined, confVars, scanVars, assoc_timer, delayed>>

\* With ieee->wx_sem: back to no link, and to a network of the list if any.
associate_retry ==
    /\ Down("worker", "retry")
    /\ IF proto_started /\ state = "RETRY"
       THEN /\ \E found \in BOOLEAN : new_net("NOLINK", found /\ wanted)
            /\ Hold("worker", "start")
       ELSE /\ UNCHANGED <<state, wq>>
            /\ Up("worker")
    /\ UNCHANGED <<carrier, joined, confVars, scanVars, assoc_timer, delayed>>

----------------------------------------------------------------------------
(* The user.                                                               *)

\* An operation begins with priv->wx_sem and comes to down(&ieee->wx_sem).
Begin(op) ==
    /\ op \in UserOps
    /\ pc["user"] = "idle"
    /\ task' = [task EXCEPT !["user"] = op]

\* rtl8180_open: the receive URBs, then ieee80211_softmac_start_protocol.
rtl8180_open ==
    /\ Begin("up") /\ ~up
    /\ up' = TRUE
    /\ hurryup' = FALSE
    /\ Goto("user", "wx")
    /\ UNCHANGED <<linkVars, proto_started, iw_mode, wanted, scanning, scan_sem,
                   ch, workVars, wx_sem>>

\* rtl8180_close, the reset work (rtl8180_commit), and the ioctls that stop
\* and start the protocol around a change.
stop_request ==
    /\ \/ Begin("down") /\ up
       \/ Begin("restart") /\ up
       \/ Begin("network")
       \/ Begin("mode")
    /\ hurryup' = TRUE
    /\ Goto("user", "wx")
    /\ UNCHANGED <<linkVars, confVars, scanning, scan_sem, ch, workVars, wx_sem>>

\* ieee80211_stop_protocol, with ieee->wx_sem, up to the background scan.
\* Works that are queued already are not cancelled.
stop_protocol ==
    /\ \E op \in {"down", "restart", "network", "mode"} : Down("user", op)
    /\ proto_started
    /\ proto_started' = FALSE
    /\ assoc_timer' = FALSE
    /\ delayed' = delayed \ {"retry", "ibss"}
    /\ Hold("user", "stop_scan")
    /\ UNCHANGED <<linkVars, iw_mode, wanted, up, scanVars, wq>>

\* The ioctl of an interface that is down changes the setting only; a second
\* ieee80211_softmac_stop_protocol of rtl8180_commit finds nothing to stop;
\* the mode is the present one.
nothing_to_stop ==
    /\ \/ Down("user", "network") /\ ~proto_started /\ Hold("user", "apply")
       \/ Down("user", "mode") /\ ~proto_started /\ Hold("user", "apply")
       \/ Down("user", "mode") /\ Up("user")
    /\ UNCHANGED <<linkVars, confVars, scanVars, workVars>>

\* The first half of ieee80211_disassociate.  Nothing is sent: the access point
\* goes on taking the station for associated.
disassociate(p) ==
    /\ pc[p] = "disassoc"
    /\ carrier' = FALSE /\ state' = "NOLINK" /\ joined' = FALSE
    /\ Goto(p, "forget")
    /\ UNCHANGED <<confVars, scanVars, workVars, wx_sem, task>>

\* The second half, and the return of ieee80211_stop_protocol.
disassociate_forget(p) ==
    /\ pc[p] = "forget"
    /\ wanted' = FALSE
    /\ CASE task[p] \in {"mlme", "gpio"} ->
               /\ Goto(p, "idle")
               /\ task' = [task EXCEPT ![p] = "none"]
               /\ UNCHANGED <<wx_sem, hurryup>>
         [] task[p] = "down" ->
               wx_sem' = 1 /\ Goto("user", "down_end") /\ UNCHANGED <<task, hurryup>>
         [] task[p] = "restart" ->
               /\ wx_sem' = 1 /\ Goto("user", "wx")
               /\ task' = [task EXCEPT !["user"] = "restop"]
               /\ hurryup' = TRUE
         [] OTHER -> Hold("user", "apply") /\ UNCHANGED hurryup
    /\ UNCHANGED <<linkVars, proto_started, iw_mode, up, scanning, scan_sem, ch, workVars>>

\* rtl8180_commit stops the protocol a second time, to no effect, and starts
\* it in _rtl8180_up.
restop ==
    /\ Down("user", "restop")
    /\ hurryup' = FALSE
    /\ Goto("user", "wx")
    /\ task' = [task EXCEPT !["user"] = "up"]
    /\ UNCHANGED <<linkVars, confVars, scanning, scan_sem, ch, workVars, wx_sem>>

\* The end of rtl8180_down.
rtl8180_down ==
    /\ pc["user"] = "down_end"
    /\ up' = FALSE
    /\ state' = "NOLINK"
    /\ Goto("user", "idle")
    /\ task' = [task EXCEPT !["user"] = "none"]
    /\ UNCHANGED <<carrier, joined, proto_started, iw_mode, wanted, scanVars,
                   workVars, wx_sem>>

\* ieee80211_wx_set_wap, ieee80211_wx_set_essid: the user names a network, or
\* takes the name back.
set_network ==
    /\ pc["user"] = "apply" /\ task["user"] = "network"
    /\ wanted' \in BOOLEAN
    /\ IF up THEN Hold("user", "start_protocol") ELSE Up("user")
    /\ UNCHANGED <<linkVars, proto_started, iw_mode, up, scanVars, workVars>>

\* ieee80211_wx_set_mode.
set_mode ==
    /\ pc["user"] = "apply" /\ task["user"] = "mode"
    /\ iw_mode' \in Modes \ {iw_mode}
    /\ IF up THEN Hold("user", "start_protocol") ELSE Up("user")
    /\ UNCHANGED <<linkVars, proto_started, wanted, up, scanVars, workVars>>

\* ieee80211_start_bss looks at the list of networks, and goes on to start_scan.
start_bss ==
    /\ \E found \in BOOLEAN : new_net(state, found /\ wanted)
    /\ Hold("user", "start")
    /\ UNCHANGED delayed

\* ieee80211_start_ibss leaves the rest to a work.
queue_start_ibss ==
    /\ delayed' = queue_delayed_work("ibss")
    /\ Up("user")
    /\ UNCHANGED <<state, wq>>

\* ieee80211_start_protocol, with ieee->wx_sem.
start_protocol ==
    /\ Down("user", "up") \/ pc["user"] = "start_protocol"
    /\ proto_started' = TRUE
    /\ IF iw_mode = "INFRA" THEN start_bss ELSE queue_start_ibss
    /\ UNCHANGED <<carrier, joined, iw_mode, wanted, up, scanVars, assoc_timer>>

\* r8180_wx_set_scan: in any state but linked the scan is done here.
wx_set_scan ==
    /\ Begin("scan") /\ up
    /\ IF state # "LINKED"
       THEN /\ scanning' = FALSE /\ hurryup' = FALSE
            /\ Goto("user", "syncro")
       ELSE /\ UNCHANGED <<scanning, hurryup>>
            /\ Goto("user", "wx")
    /\ UNCHANGED <<linkVars, confVars, scan_sem, ch, workVars, wx_sem>>

\* ieee80211_wx_set_scan: while linked the worker will do it, ...
wx_set_scan_linked ==
    /\ Down("user", "scan")
    /\ IF proto_started /\ state = "LINKED" /\ "sync" \notin ToSet(wq)
       THEN Hold("user", "queue_sync")
       ELSE Up("user")
    /\ UNCHANGED <<linkVars, confVars, scanVars, workVars>>

\* ... and it will release ieee->wx_sem.
wx_set_scan_queue ==
    /\ pc["user"] = "queue_sync"
    /\ wq' = queue_work("sync")
    /\ Goto("user", "idle")
    /\ task' = [task EXCEPT !["user"] = "none"]
    /\ UNCHANGED <<linkVars, confVars, scanVars, assoc_timer, delayed, wx_sem>>

\* ieee80211_wx_set_mlme, without ieee->wx_sem.
wx_set_mlme ==
    /\ Begin("mlme") /\ up
    /\ Goto("user", "disassoc")
    /\ UNCHANGED <<linkVars, confVars, scanVars, workVars, wx_sem>>

\* GPIOChangeRFWorkItemCallBack finds the switch newly turned off, and
\* MgntActSet_RF_State disassociates, without ieee->wx_sem.  A reading that
\* changes nothing here, or says "on", is no step.
GPIOChangeRFWorkItemCallBack ==
    /\ pc["worker"] = "idle"
    /\ Goto("worker", "disassoc")
    /\ task' = [task EXCEPT !["worker"] = "gpio"]
    /\ UNCHANGED <<linkVars, confVars, scanVars, workVars, wx_sem>>

----------------------------------------------------------------------------
Reception == rx_new_net \/ rx_auth \/ rx_assoc_resp \/ rx_disassoc

Timers == associate_abort_cb \/ delayed_work_timer_fn

WorkerGoesOn ==
    \/ associate_procedure_wq \/ associate_procedure \/ associate_step1
    \/ associate_step1_arm \/ associate_complete_wq
    \/ associate_retry_wq \/ associate_retry
    \/ softmac_scan_wq \/ wx_sync_scan_wq \/ start_ibss_wq \/ start_ibss \/ linked
    \/ stop_scan("worker") \/ start_scan("worker")
    \/ scan_syncro_enter("worker") \/ scan_syncro("worker")
    \/ disassociate("worker") \/ disassociate_forget("worker")

Worker == WorkerGoesOn \/ GPIOChangeRFWorkItemCallBack

Request ==
    rtl8180_open \/ stop_request \/ wx_set_scan \/ wx_set_mlme

UserGoesOn ==
    \/ stop_protocol \/ nothing_to_stop
    \/ disassociate("user") \/ disassociate_forget("user")
    \/ restop \/ rtl8180_down \/ set_network \/ set_mode \/ start_protocol
    \/ wx_set_scan_linked \/ wx_set_scan_queue
    \/ stop_scan("user") \/ start_scan("user")
    \/ scan_syncro_enter("user") \/ scan_syncro("user")

Next == Reception \/ Timers \/ Worker \/ Request \/ UserGoesOn

Spec == Init /\ [][Next]_vars

\* mod_timer(&ieee->associate_timer, ...), which puts off a timer that is set.
Rearmed ==
    /\ assoc_timer'
    /\ associate_step1_arm \/ (rx_auth /\ state' # "RETRY")

\* Timers run out, unless they are put off for ever, a runnable thread runs, and
\* a thread that sleeps on a semaphore gets it if it becomes free again and
\* again: __up wakes the first of its wait list.  The works of the queue come
\* to their turn whatever the switch does.  Nothing is assumed of the user, the
\* switch and the air.
FairSpec ==
    /\ Spec
    /\ WF_vars(associate_abort_cb) \/ []<><<Rearmed>>_vars
    /\ WF_vars(delayed_work_timer_fn)
    /\ SF_vars(WorkerGoesOn) /\ SF_vars(UserGoesOn)

----------------------------------------------------------------------------
(* Properties.                                                             *)

\* The works that hold ieee->wx_sem: a process between down and up, or the
\* queued scan the ioctl left it to.
WxHolders ==
    {p \in Process : pc[p] \in {"stop_scan", "step1", "arm", "start", "linked",
                                 "apply", "start_protocol", "queue_sync"}}
    \cup {p \in Process : pc[p] \in {"syncro", "tune"} /\ task[p] # "scan"}
    \cup {p \in Process : pc[p] \in {"disassoc", "forget"} /\ task[p] \notin {"mlme", "gpio"}}
    \cup (ToSet(wq) \cap {"sync"})

\* ieee->wx_sem is released once for every time it is taken, although the
\* scan of a linked station is begun by one process and ended by another.
SemAccounting ==
    Cardinality(WxHolders) = 1 - wx_sem

\* While the station authenticates the background scan is off, and so cannot
\* leave the channel of the access point (associate_procedure_wq, stop_scan).
NoAsyncScanInHandshake ==
    state \in {"AUTHENTICATING", "AUTHENTICATED"} => ~scanning

\* A station that waits for the answer of the access point has a timer that
\* ends the wait, unless the thread that will set it, or the one that is
\* stopping the protocol, is still on its way.
HandshakeIsTimed ==
    state \in {"AUTHENTICATING", "AUTHENTICATED"} =>
        \/ assoc_timer
        \/ pc["worker"] = "arm"
        \/ pc["user"] \in {"stop_scan", "disassoc"}

\* A station that is linked since its association was accepted has its carrier,
\* or the work that will turn it on is pending, although a scan, the user, the
\* switch and the access point take the link away and give it back in any order
\* (associate_complete, associate_complete_wq).  Nothing is said of a LINKED
\* that comes from a beacon in ad-hoc mode: it gets no carrier, and keeps none
\* when the user goes to infrastructure mode.
LinkedGetsCarrier ==
    state = "LINKED" /\ iw_mode = "INFRA" /\ joined => carrier \/ "complete" \in ToSet(wq)

\* The comment of ieee80211_wx_set_scan, "intentionally forget to up sem":
\* the work it queued will.
SemComesBack == "sync" \in ToSet(wq) ~> wx_sem = 1

\* The access point has the station authenticate with a challenge.
Challenged == rx_auth /\ state' = "AUTHENTICATING"


\* An operation of the user that does not scan comes to its end.
UserReturns == pc["user"] # "idle" ~> pc["user"] = "idle"
=============================================================================
