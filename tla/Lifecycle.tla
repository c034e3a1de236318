----------------------------- MODULE Lifecycle ------------------------------
(***************************************************************************)
(* The life of the interface in r8187_core.c, r8180_pm.c and r8180_wx.c:   *)
(* open, close, reset, suspend, resume and unplugging, with what they     *)
(* start and must stop: the timers, the receive URB and the radio, which   *)
(* the switch on the device turns off and on besides.                      *)
(*                                                                         *)
(* Three threads:                                                          *)
(*   - "user": the process in an ioctl, open or close, the power           *)
(*     management and the USB core; rtnl and the freezer make it one;      *)
(*   - "events": rtl8180_restart, on the queue of the kernel;              *)
(*   - "worker": the thread of ieee->wq, with the work of the switch.      *)
(* priv->wx_sem excludes the first two from each other, but not the third. *)
(* Timers, completions and the receive tasklet interrupt all of them.      *)
(***************************************************************************)
EXTENDS Naturals, FiniteSets

CONSTANTS
    Timers,    \* the timers of the interface: rateadapter_timer, watch_dog_timer
    UserOps    \* what the user does

ASSUME LifecycleAssumption ==
    UserOps \subseteq {"open", "close", "retry", "crcmon", "suspend", "resume",
                       "disconnect"}

VARIABLES
    present,        \* between probe and the end of disconnect
    up,             \* priv->up
    running,        \* netif_running(dev)
    suspended,      \* between rtl8187_suspend and rtl8187_resume
    switch,         \* the radio switch, bit 1 of the register GPI
    bHwRadioOff,
    wlan_first_up,  \* priv->wlan_first_up_flag1
    RfOffReason,    \* who wants the radio off
    eRFPowerState,  \* what the driver believes of the radio
    radio,          \* what the radio is: ANAPARAM and register 4 of the RF chip
    timer,          \* state of each timer: off, armed, or its handler runs
    works,          \* the timers whose works are queued on ieee->wq
    gpio_timer,     \* gpio_polling_timer is pending
    gpio_work,      \* GPIOChangeRFWorkItem is queued
    want,           \* StateToSet of MgntActSet_RF_State
    urb,            \* the receive URB
    tasklet,        \* irq_rx_tasklet: scheduled, running
    submit_failed,  \* history: the last usb_submit_urb of the URB found no memory
    reset,          \* reset_wq is queued
    wx_sem,         \* priv->wx_sem
    pc, task        \* where the threads are, and in what

ifVars == <<present, up, running, suspended>>
rfVars == <<switch, bHwRadioOff, wlan_first_up, RfOffReason, eRFPowerState, radio, want>>
timerVars == <<timer, works, gpio_timer, gpio_work>>
rxVars == <<urb, tasklet, submit_failed>>
procVars == <<reset, wx_sem, pc, task>>
vars == <<ifVars, rfVars, timerVars, rxVars, procVars>>

Process == {"user", "events", "worker"}
Power == {"on", "off"}
Label == {"idle", "wx", "down", "del_timers", "rf", "rf_hw", "rf_state", "up", "done",
          "mgnt", "del_gpio", "kill", "free"}
Task == UserOps \cup {"none", "unregister", "disconnect", "restart", "gpio"}

TypeOK ==
    /\ present \in BOOLEAN /\ up \in BOOLEAN /\ running \in BOOLEAN
    /\ suspended \in BOOLEAN /\ bHwRadioOff \in BOOLEAN /\ wlan_first_up \in BOOLEAN
    /\ switch \in Power /\ eRFPowerState \in Power /\ radio \in Power /\ want \in Power
    /\ gpio_timer \in BOOLEAN /\ gpio_work \in BOOLEAN /\ reset \in BOOLEAN
    /\ submit_failed \in BOOLEAN
    /\ RfOffReason \subseteq {"HW"}
    /\ timer \in [Timers -> {"off", "armed", "runs"}]
    /\ works \subseteq Timers
    /\ urb \in {"idle", "flight", "done", "error", "killed"}
    /\ tasklet \subseteq {"scheduled", "running"}
    /\ wx_sem \in 0 .. 1
    /\ pc \in [Process -> Label]
    /\ task \in [Process -> Task]

\* rtl8180_init: zeroed state, timers and works that are set up and not started,
\* the semaphore, a tasklet that nobody has scheduled.
rtl8180_init ==
    /\ up = FALSE /\ bHwRadioOff = FALSE /\ wlan_first_up = FALSE
    /\ RfOffReason = {} /\ eRFPowerState = "off" /\ want = "off"
    /\ timer = [t \in Timers |-> "off"] /\ works = {} /\ reset = FALSE
    /\ wx_sem = 1 /\ tasklet = {} /\ urb = "idle" /\ submit_failed = FALSE

\* The end of rtl8187_usb_probe: gpio_change_polling has run once, and nothing has
\* turned the radio on yet.
Init ==
    /\ rtl8180_init
    /\ present = TRUE /\ running = FALSE /\ suspended = FALSE
    /\ switch \in Power /\ radio = "off"
    /\ gpio_timer = TRUE /\ gpio_work = TRUE
    /\ pc = [p \in Process |-> "idle"] /\ task = [p \in Process |-> "none"]

----------------------------------------------------------------------------
(* Semaphore and program counters.                                         *)

Goto(p, label) ==
    /\ pc' = [pc EXCEPT ![p] = label]
    /\ UNCHANGED task

\* p begins op and goes to label.
Start(p, op, label) ==
    /\ pc[p] = "idle"
    /\ pc' = [pc EXCEPT ![p] = label]
    /\ task' = [task EXCEPT ![p] = op]

Idle(p) ==
    /\ pc' = [pc EXCEPT ![p] = "idle"]
    /\ task' = [task EXCEPT ![p] = "none"]

\* What the network and power management layers note when op is over: it ran,
\* or had nothing to do.
Noted(op) ==
    /\ running' = (CASE op = "open" -> TRUE
                     [] op \in {"close", "unregister"} -> FALSE
                     [] OTHER -> running)
    /\ suspended' = (CASE op = "suspend" -> TRUE
                       [] op = "resume" -> FALSE
                       [] OTHER -> suspended)

----------------------------------------------------------------------------
(* What the user and the layers above begin.                               *)

\* rtl8180_open is refused while the radio is switched off; ioctls return
\* without effect.  All look before they wait for wx_sem.
Begin(op) ==
    /\ op \in UserOps /\ ~suspended /\ ~bHwRadioOff
    /\ \/ op = "open" /\ ~running
       \/ op \in {"retry", "crcmon"}
    /\ Start("user", op, "wx")
    /\ UNCHANGED <<ifVars, rfVars, timerVars, rxVars, reset, wx_sem>>

\* rtl8180_close looks at priv->up before it waits for wx_sem.
rtl8180_close(op) ==
    IF running /\ up
    THEN Start("user", op, "wx") /\ UNCHANGED <<running, suspended>>
    ELSE Noted(op) /\ UNCHANGED <<pc, task>>

Close ==
    /\ "close" \in UserOps /\ running /\ ~suspended
    /\ pc["user"] = "idle"
    /\ rtl8180_close("close")
    /\ UNCHANGED <<present, up, rfVars, timerVars, rxVars, reset, wx_sem>>

\* dev->stop, while the layer above still takes the interface for running.
rtl8187_suspend ==
    /\ "suspend" \in UserOps /\ ~suspended
    /\ pc["user"] = "idle"
    /\ rtl8180_close("suspend")
    /\ UNCHANGED <<present, up, rfVars, timerVars, rxVars, reset, wx_sem>>

\* dev->open; nobody looks at what it returns.
rtl8187_resume ==
    /\ "resume" \in UserOps /\ suspended
    /\ pc["user"] = "idle"
    /\ IF running /\ ~bHwRadioOff
       THEN Start("user", "resume", "wx") /\ UNCHANGED <<running, suspended>>
       ELSE Noted("resume") /\ UNCHANGED <<pc, task>>
    /\ UNCHANGED <<present, up, rfVars, timerVars, rxVars, reset, wx_sem>>

\* rtl8187_usb_disconnect begins with unregister_netdev, which closes.
unregister_netdev ==
    /\ "disconnect" \in UserOps
    /\ pc["user"] = "idle"
    /\ IF running /\ up
       THEN Start("user", "unregister", "wx") /\ UNCHANGED <<running, suspended>>
       ELSE Start("user", "disconnect", "del_gpio") /\ Noted("unregister")
    /\ UNCHANGED <<present, up, rfVars, timerVars, rxVars, reset, wx_sem>>

\* tx_timeout and r8180_set_mac_adr queue a reset.
schedule_reset ==
    /\ ~reset
    /\ task["user"] # "disconnect"
    /\ reset' = TRUE
    /\ UNCHANGED <<ifVars, rfVars, timerVars, rxVars, wx_sem, pc, task>>

rtl8180_restart ==
    /\ reset
    /\ reset' = FALSE
    /\ Start("events", "restart", "wx")
    /\ UNCHANGED <<ifVars, rfVars, timerVars, rxVars, wx_sem>>

\* Where the operation of p begins.  priv->up is tested under wx_sem by rtl8180_up,
\* rtl8180_commit, r8180_wx_set_crcmon and rtl8180_down.
First(p) ==
    CASE task[p] \in {"open", "resume"} -> IF up THEN "done" ELSE "up"
      [] task[p] \in {"retry", "restart"} -> IF up THEN "del_timers" ELSE "done"
      [] task[p] = "crcmon" -> IF up THEN "down" ELSE "done"
      [] OTHER -> "down"

\* down(&priv->wx_sem).
Enter(p) ==
    /\ pc[p] = "wx" /\ wx_sem > 0
    /\ wx_sem' = wx_sem - 1
    /\ Goto(p, First(p))
    /\ UNCHANGED <<ifVars, rfVars, timerVars, rxVars, reset>>

\* up(&priv->wx_sem), and back to the caller.
Leave(p) ==
    /\ pc[p] = "done"
    /\ wx_sem' = wx_sem + 1
    /\ Noted(task[p])
    /\ IF task[p] = "unregister"
       THEN pc' = [pc EXCEPT ![p] = "del_gpio"] /\ task' = [task EXCEPT ![p] = "disconnect"]
       ELSE Idle(p)
    /\ UNCHANGED <<present, up, rfVars, timerVars, rxVars, reset>>

----------------------------------------------------------------------------
(* Going down and coming up.                                               *)

AfterDown(p) ==
    CASE task[p] = "crcmon" -> "up"
      [] task[p] = "disconnect" -> "kill"
      [] OTHER -> "done"

rtl8180_down(p) ==
    /\ pc[p] = "down"
    /\ up' = FALSE
    /\ Goto(p, IF up THEN "del_timers" ELSE AfterDown(p))
    /\ UNCHANGED <<present, running, suspended, rfVars, timerVars, rxVars, reset, wx_sem>>

\* Mutant of del_timers: del_timer, which does not wait for the handler.
del_timers_async(p) ==
    /\ pc[p] = "del_timers"
    /\ timer' = [t \in Timers |-> IF timer[t] = "runs" THEN "runs" ELSE "off"]
    /\ Goto(p, IF task[p] \in {"retry", "restart"} THEN "up" ELSE "rf")
    /\ UNCHANGED <<ifVars, rfVars, works, gpio_timer, gpio_work, rxVars, reset, wx_sem>>

\* del_timer_sync, which waits for the handler.  cancel_delayed_work stops only a
\* work whose delay has not passed: these are queued without one and stay queued.
del_timers(p) ==
    /\ pc[p] = "del_timers"
    /\ \A t \in Timers : timer[t] # "runs"
    /\ timer' = [t \in Timers |-> "off"]
    /\ Goto(p, IF task[p] \in {"retry", "restart"} THEN "up" ELSE "rf")
    /\ UNCHANGED <<ifVars, rfVars, works, gpio_timer, gpio_work, rxVars, reset, wx_sem>>

\* rtl8180_down turns the radio off, unless the switch has.
down_rf(p) ==
    /\ pc[p] = "rf"
    /\ Goto(p, IF bHwRadioOff THEN AfterDown(p) ELSE "rf_hw")
    /\ UNCHANGED <<ifVars, rfVars, timerVars, rxVars, reset, wx_sem>>

\* rtl8187_rx_urbsubmit: an URB that is out already stays so, with an error
\* that is only printed, as is a lack of memory.
rx_urbsubmit ==
    \/ urb' = "flight" /\ submit_failed' = FALSE
    \/ urb # "flight" /\ urb' = urb /\ submit_failed' = TRUE

\* Mutant of rtl8180_up: the RF chip is not set up again.
rtl8180_up_dark(p) ==
    /\ pc[p] = "up"
    /\ up' = TRUE
    /\ rx_urbsubmit
    /\ timer' = [t \in Timers |-> "armed"]
    /\ \E q \in SUBSET Timers : works' = works \cup q
    /\ Goto(p, "done")
    /\ UNCHANGED <<present, running, suspended, rfVars, gpio_timer, gpio_work,
                   tasklet, reset, wx_sem>>

\* _rtl8180_up.  rtl8180_adapter_start resets the adapter and turns the radio on
\* (rf_init), rtl8187_rx_initiate sends the URB out, the handlers of the timers
\* are called to set them.  No other thread reads one of these variables and
\* writes another, and the timers are off until then: they are one step.
rtl8180_up(p) ==
    /\ pc[p] = "up"
    /\ up' = TRUE
    /\ radio' = "on"
    /\ rx_urbsubmit
    /\ timer' = [t \in Timers |-> "armed"]
    /\ \E q \in SUBSET Timers : works' = works \cup q
    /\ Goto(p, "done")
    /\ UNCHANGED <<present, running, suspended, switch, bHwRadioOff, wlan_first_up,
                   RfOffReason, eRFPowerState, want, gpio_timer, gpio_work, tasklet,
                   reset, wx_sem>>

----------------------------------------------------------------------------
(* timer_rate_adaptive and watch_dog_adaptive.                             *)

timer_fires(t) ==
    /\ timer[t] = "armed"
    /\ timer' = [timer EXCEPT ![t] = IF up THEN "runs" ELSE "off"]
    /\ UNCHANGED <<ifVars, rfVars, works, gpio_timer, gpio_work, rxVars, procVars>>

timer_rearms(t) ==
    /\ timer[t] = "runs"
    /\ timer' = [timer EXCEPT ![t] = "armed"]
    /\ works' \in {works, works \cup {t}}
    /\ UNCHANGED <<ifVars, rfVars, gpio_timer, gpio_work, rxVars, procVars>>

\* rtl8180_rate_adapter, and the works of the dynamic mechanism.  They look at
\* neither priv->up nor the radio, and may run after a close.
timer_work(t) ==
    /\ pc["worker"] = "idle" /\ t \in works
    /\ works' = works \ {t}
    /\ UNCHANGED <<ifVars, rfVars, timer, gpio_timer, gpio_work, rxVars, procVars>>

----------------------------------------------------------------------------
(* The radio and its switch.                                               *)

turn_switch ==
    /\ switch' \in Power \ {switch}
    /\ UNCHANGED <<ifVars, bHwRadioOff, wlan_first_up, RfOffReason, eRFPowerState,
                   radio, want, timerVars, rxVars, procVars>>

\* Mutant of gpio_change_polling: the timer is not set again.
gpio_change_once ==
    /\ gpio_timer
    /\ gpio_work' = TRUE /\ gpio_timer' = FALSE
    /\ UNCHANGED <<ifVars, rfVars, timer, works, rxVars, procVars>>

\* Queues the work and sets its timer again.
gpio_change_polling ==
    /\ gpio_timer
    /\ gpio_work' = TRUE
    /\ UNCHANGED <<ifVars, rfVars, timer, works, gpio_timer, rxVars, procVars>>

\* Reads the switch.  A change, and the first reading, goes on to
\* MgntActSet_RF_State.
GPIOChangeRFWorkItemCallBack ==
    /\ gpio_work /\ pc["worker"] = "idle"
    /\ gpio_work' = FALSE
    /\ bHwRadioOff' = (switch = "off")
    /\ wlan_first_up' = TRUE
    /\ want' = switch
    /\ IF bHwRadioOff' # bHwRadioOff \/ ~wlan_first_up
       THEN Start("worker", "gpio", "mgnt")
       ELSE UNCHANGED <<pc, task>>
    /\ UNCHANGED <<ifVars, switch, RfOffReason, eRFPowerState, radio, timer, works,
                   gpio_timer, rxVars, reset, wx_sem>>

\* MgntActSet_RF_State and SetRFPowerState.  The work of the switch is the
\* only caller that is compiled in, so RFChangeInProgress never has it wait.
MgntActSet_RF_State ==
    /\ pc["worker"] = "mgnt"
    /\ RfOffReason' = IF want = "on" THEN RfOffReason \ {"HW"}
                                     ELSE RfOffReason \cup {"HW"}
    /\ IF want # eRFPowerState /\ (want = "on" => RfOffReason' = {})
       THEN Goto("worker", "rf_hw")
       ELSE Idle("worker")
    /\ UNCHANGED <<ifVars, switch, bHwRadioOff, wlan_first_up, eRFPowerState, radio,
                   want, timerVars, rxVars, reset, wx_sem>>

\* SetZebraRFPowerState8187: the registers first, then what the driver believes.
Target(p) == IF p = "worker" THEN want ELSE "off"

SetZebra_registers(p) ==
    /\ pc[p] = "rf_hw"
    /\ radio' = Target(p)
    /\ Goto(p, "rf_state")
    /\ UNCHANGED <<ifVars, switch, bHwRadioOff, wlan_first_up, RfOffReason,
                   eRFPowerState, want, timerVars, rxVars, reset, wx_sem>>

SetZebra_state(p) ==
    /\ pc[p] = "rf_state"
    /\ eRFPowerState' = Target(p)
    /\ IF p = "worker" THEN Idle(p) ELSE Goto(p, AfterDown(p))
    /\ UNCHANGED <<ifVars, switch, bHwRadioOff, wlan_first_up, RfOffReason,
                   radio, want, timerVars, rxVars, reset, wx_sem>>

----------------------------------------------------------------------------
(* The receive URB.                                                        *)

\* A frame, or an error, ends the URB; rtl8187_rx_isr leaves it to the tasklet.
rx_isr ==
    /\ urb = "flight"
    /\ urb' \in {"done", "error"}
    /\ tasklet' = tasklet \cup {"scheduled"}
    /\ UNCHANGED <<ifVars, rfVars, timerVars, submit_failed, procVars>>

\* rtl8180_irq_rx_tasklet reads the frame, and then
irq_rx_tasklet ==
    /\ tasklet = {"scheduled"}
    /\ tasklet' = {"running"}
    /\ UNCHANGED <<ifVars, rfVars, timerVars, urb, submit_failed, procVars>>

\* Mutant of irq_rx_resubmit: only an URB that brought a frame is sent again.
irq_rx_resubmit_good ==
    /\ "running" \in tasklet
    /\ tasklet' = tasklet \ {"running"}
    /\ IF urb \in {"killed", "error"}
       THEN UNCHANGED <<urb, submit_failed>>
       ELSE rx_urbsubmit
    /\ UNCHANGED <<ifVars, rfVars, timerVars, procVars>>

\* sends the URB out again, unless it was killed.
irq_rx_resubmit ==
    /\ "running" \in tasklet
    /\ tasklet' = tasklet \ {"running"}
    /\ IF urb = "killed"
       THEN UNCHANGED <<urb, submit_failed>>
       ELSE rx_urbsubmit
    /\ UNCHANGED <<ifVars, rfVars, timerVars, procVars>>

----------------------------------------------------------------------------
(* The rest of rtl8187_usb_disconnect.                                     *)

\* Mutant of del_gpio_timer: the timer is left.
del_gpio_forgotten ==
    /\ pc["user"] = "del_gpio"
    /\ Goto("user", "down")
    /\ UNCHANGED <<ifVars, rfVars, timerVars, rxVars, reset, wx_sem>>

\* del_timer_sync; a work that is queued stays queued, or may be running.
del_gpio_timer ==
    /\ pc["user"] = "del_gpio"
    /\ gpio_timer' = FALSE
    /\ Goto("user", "down")
    /\ UNCHANGED <<ifVars, rfVars, timer, works, gpio_work, rxVars, reset, wx_sem>>

\* rf_close, and rtl8187_usb_deleteendpoints.
deleteendpoints ==
    /\ pc["user"] = "kill"
    /\ radio' = "off"
    /\ IF urb = "flight"
       THEN urb' = "killed" /\ tasklet' = tasklet \cup {"scheduled"}
       ELSE UNCHANGED <<urb, tasklet>>
    /\ Goto("user", "free")
    /\ UNCHANGED <<ifVars, switch, bHwRadioOff, wlan_first_up, RfOffReason,
                   eRFPowerState, want, timerVars, submit_failed, reset, wx_sem>>

\* free_ieee80211: destroy_workqueue waits for the works of ieee->wq.  The
\* model follows the device no further.
free_ieee80211 ==
    /\ pc["user"] = "free"
    /\ pc["worker"] = "idle" /\ ~gpio_work /\ works = {}
    /\ present' = FALSE
    /\ Idle("user")
    /\ UNCHANGED <<up, running, suspended, rfVars, timerVars, rxVars, reset, wx_sem>>

Unplugged ==
    /\ ~present
    /\ UNCHANGED vars

----------------------------------------------------------------------------
UserGoesOn ==
    \/ Enter("user") \/ Leave("user") \/ rtl8180_down("user") \/ del_timers("user")
    \/ down_rf("user") \/ SetZebra_registers("user") \/ SetZebra_state("user")
    \/ rtl8180_up("user")
    \/ del_gpio_timer \/ deleteendpoints \/ free_ieee80211

RestartGoesOn ==
    \/ Enter("events") \/ del_timers("events") \/ rtl8180_up("events")
    \/ Leave("events")

Worker ==
    \/ GPIOChangeRFWorkItemCallBack \/ MgntActSet_RF_State
    \/ SetZebra_registers("worker") \/ SetZebra_state("worker")

User ==
    \/ \E op \in {"open", "retry", "crcmon"} : Begin(op)
    \/ Close \/ rtl8187_suspend \/ rtl8187_resume \/ unregister_netdev
    \/ schedule_reset \/ turn_switch

Next ==
    \/ /\ present
       /\ \/ User \/ UserGoesOn \/ Worker
          \/ rtl8180_restart \/ RestartGoesOn
          \/ \E t \in Timers : timer_fires(t) \/ timer_rearms(t) \/ timer_work(t)
          \/ gpio_change_polling
          \/ rx_isr \/ irq_rx_tasklet \/ irq_rx_resubmit
    \/ Unplugged

Spec == Init /\ [][Next]_vars

\* Timers run out and works run.  The switch, the user, the device and its
\* resets are free.
FairSpec == Spec /\ WF_vars(present /\ Worker) /\ WF_vars(present /\ gpio_change_polling)

----------------------------------------------------------------------------
(* Properties.                                                             *)

\* Timers run as long as the interface is up and no longer, whatever handler was
\* running when it went down: rtl8180_down clears up, then waits for them;
\* rtl8180_commit, which leaves up set, sets them again.  Nothing is said of
\* the works they queued, which run on after a close.
TimersFollowInterface ==
    wx_sem = 1 =>
        IF up THEN \A t \in Timers : timer[t] # "off"
              ELSE \A t \in Timers : timer[t] = "off"

\* An interface in use has its radio on, unless the switch is off, although
\* the work of the switch and a close turn it without excluding each other.
RadioOnInUse ==
    up /\ wx_sem = 1 /\ pc["worker"] = "idle" /\ ~bHwRadioOff => radio = "on"

\* An interface that is up receives: its URB is out, or the tasklet that
\* sends it out is on its way, unless there was no memory to do so.
ReceiveArmed ==
    up /\ wx_sem = 1 => urb = "flight" \/ tasklet # {} \/ submit_failed

\* No timer outlives the device that it works on, neither armed nor running
\* (rtl8187_usb_disconnect stops the polling timer and leaves the others to a
\* close that may have happened, or is made while a reset sets them again).
GoneIsQuiet ==
    ~present => ~gpio_timer /\ \A t \in Timers : timer[t] = "off"

\* A switch that is turned off, and stays so, is noticed, unless the device is
\* being unplugged.
SwitchIsNoticed ==
    present /\ switch = "off" ~>
        bHwRadioOff \/ switch = "on" \/ task["user"] = "disconnect"
=============================================================================
