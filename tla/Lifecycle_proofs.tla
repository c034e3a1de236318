-------------------------- MODULE Lifecycle_proofs --------------------------
(***************************************************************************)
(* The timers run exactly while the interface is up, an interface that is  *)
(* up receives and has its radio on unless the switch is off, and nothing  *)
(* outlives the device: for every set of timers and whatever the user may  *)
(* do.                                                                     *)
(***************************************************************************)
EXTENDS Lifecycle, TLAPS

\* Where a thread is between down and up of priv->wx_sem.  rtl8187_usb_disconnect
\* calls rtl8180_down without it.
Protected == {"del_timers", "rf", "rf_hw", "rf_state", "up", "done"}

Holds(p) ==
    pc[p] \in Protected \/ (pc[p] = "down" /\ task[p] # "disconnect")

\* Where each thread can be, and in what.
UserPlaces ==
    /\ pc["user"] = "idle" => task["user"] = "none"
    /\ task["user"] = "none" => pc["user"] = "idle"
    /\ pc["user"] # "mgnt"
    /\ task["user"] \in {"none", "open", "close", "retry", "crcmon", "suspend", "resume",
                       "unregister", "disconnect"}
    /\ task["user"] = "disconnect" => pc["user"] \in {"del_gpio", "down", "kill", "free"}
    /\ pc["user"] \in {"del_gpio", "kill", "free"} => task["user"] = "disconnect"
    /\ pc["user"] \in {"down", "rf", "rf_hw", "rf_state"} =>
         task["user"] \in {"close", "suspend", "crcmon", "unregister", "disconnect"}
    /\ pc["user"] = "del_timers" =>
         task["user"] \in {"close", "suspend", "crcmon", "unregister", "retry"}
    /\ pc["user"] = "up" => task["user"] \in {"open", "resume", "retry", "crcmon"}

EventsPlaces ==
    /\ pc["events"] \in {"idle", "wx", "del_timers", "up", "done"}
    /\ pc["events"] = "idle" \/ task["events"] = "restart"

WorkerPlaces == pc["worker"] \in {"idle", "mgnt", "rf_hw", "rf_state"}

\* priv->wx_sem is what excludes the user and the resets.
Exclusion ==
    /\ ~(Holds("user") /\ Holds("events"))
    /\ wx_sem = IF Holds("user") \/ Holds("events") THEN 0 ELSE 1

TimersOff == \A t \in Timers : timer[t] = "off"

TimersMatchUp ==
    IF up THEN \A t \in Timers : timer[t] # "off" ELSE TimersOff

\* What a thread has brought about when it is somewhere between down and up.
Progress(p) ==
    /\ pc[p] = "del_timers" => (up <=> task[p] \in {"retry", "restart"})
    /\ pc[p] \in {"rf", "rf_hw", "rf_state"} => ~up /\ TimersOff
    /\ pc[p] = "up" => TimersOff /\ (task[p] \in {"retry", "restart"} => up)

Between == pc["user"] \in {"del_timers", "up"} \/ pc["events"] \in {"del_timers", "up"}

\* The layer above takes an interface that is up for running, or is about to.
UpIsRunning ==
    /\ up => running \/ (pc["user"] = "done" /\ task["user"] = "open")
    /\ task["user"] = "resume" => running
    /\ task["user"] = "crcmon" /\ pc["user"] \notin {"wx", "done"} => running
    /\ task["user"] = "unregister" /\ pc["user"] = "done" => ~up
    /\ task["user"] = "close" /\ pc["user"] = "done" => ~up
    /\ task["user"] = "disconnect" => ~up

Places == UserPlaces /\ EventsPlaces /\ WorkerPlaces

TimersInv ==
    /\ Between \/ TimersMatchUp
    /\ Progress("user") /\ Progress("events")

IInv == TypeOK /\ Places /\ Exclusion /\ TimersInv /\ UpIsRunning

-----------------------------------------------------------------------------
LEMMA InitIInv ==
    Init => IInv
<1> SUFFICES ASSUME Init PROVE IInv
  OBVIOUS
<1>1. TypeOK
  <2>1. timer \in [Timers -> {"off", "armed", "runs"}] /\ works \subseteq Timers
    BY DEF Init, rtl8180_init
  <2>2. /\ pc \in [Process -> Label]
        /\ task \in [Process -> Task]
    BY DEF Init, rtl8180_init, Process, Label, Task
  <2>3. RfOffReason \subseteq {"HW"} /\ tasklet \subseteq {"scheduled", "running"}
    BY DEF Init, rtl8180_init
  <2>4. switch \in Power /\ eRFPowerState \in Power /\ radio \in Power /\ want \in Power
    BY DEF Init, rtl8180_init, Power
  <2>5. urb \in {"idle", "flight", "done", "error", "killed"} /\ wx_sem \in 0 .. 1
    BY DEF Init, rtl8180_init
  <2> QED
    BY <2>1, <2>2, <2>3, <2>4, <2>5 DEF Init, rtl8180_init, TypeOK
<1>2. UserPlaces /\ EventsPlaces /\ WorkerPlaces
  BY DEF Init, rtl8180_init, UserPlaces, EventsPlaces, WorkerPlaces, Process, Task
<1>3. Exclusion
  BY DEF Init, rtl8180_init, Exclusion, Holds, Protected, Process
<1>4. TimersMatchUp /\ Progress("user") /\ Progress("events") /\ UpIsRunning
  BY DEF Init, rtl8180_init, TimersMatchUp, TimersOff, Progress, UpIsRunning, Process
<1> QED
  BY <1>1, <1>2, <1>3, <1>4 DEF IInv, Places, TimersInv

-----------------------------------------------------------------------------
\* The types.  The count of wx_sem is the one that takes the invariant.

LEMMA StartTypes ==
    ASSUME TypeOK, NEW p \in Process, NEW label \in Label,
           NEW op \in Task,
           Start(p, op, label)
    PROVE  /\ pc' \in [Process -> Label]
           /\ task' \in [Process -> Task]
  BY DEF TypeOK, Start

LEMMA GotoTypes ==
    ASSUME TypeOK, NEW p \in Process, NEW label \in Label, Goto(p, label)
    PROVE  /\ pc' \in [Process -> Label]
           /\ task' \in [Process -> Task]
  BY DEF TypeOK, Goto

LEMMA IdleTypes ==
    ASSUME TypeOK, NEW p \in Process, Idle(p)
    PROVE  /\ pc' \in [Process -> Label]
           /\ task' \in [Process -> Task]
  BY DEF TypeOK, Idle, Label, Task

LEMMA NotedTypes ==
    ASSUME TypeOK, NEW op, Noted(op)
    PROVE  running' \in BOOLEAN /\ suspended' \in BOOLEAN
  BY DEF TypeOK, Noted

\* TypeOK in two halves: the threads, and everything else.
ProcTypes ==
    /\ pc \in [Process -> Label]
    /\ task \in [Process -> Task]

OtherTypes ==
    /\ present \in BOOLEAN /\ up \in BOOLEAN /\ running \in BOOLEAN
    /\ suspended \in BOOLEAN /\ bHwRadioOff \in BOOLEAN /\ wlan_first_up \in BOOLEAN
    /\ switch \in Power /\ eRFPowerState \in Power /\ radio \in Power /\ want \in Power
    /\ gpio_timer \in BOOLEAN /\ gpio_work \in BOOLEAN /\ reset \in BOOLEAN
    /\ submit_failed \in BOOLEAN
    /\ RfOffReason \subseteq {"HW"}
    /\ timer \in [Timers -> {"off", "armed", "runs"}]
    /\ works \subseteq Timers
    /\ urb \in {"idle", "flight", "done", "error", "killed"}
    /\ tasklet \subseteq {"scheduled", "running"}
    /\ wx_sem \in 0 .. 1

LEMMA TypeHalves ==
    TypeOK <=> ProcTypes /\ OtherTypes
  BY DEF TypeOK, ProcTypes, OtherTypes

LEMMA TypeHalvesNext ==
    ASSUME ProcTypes', OtherTypes' PROVE TypeOK'
  BY DEF TypeOK, ProcTypes, OtherTypes

LEMMA LabelTypes ==
    ASSUME NEW p
    PROVE  First(p) \in Label /\ AfterDown(p) \in Label
  BY DEF First, AfterDown, Label

LEMMA TypeUserBegins ==
    ASSUME TypeOK, User PROVE TypeOK'
<1> USE DEF vars, ifVars, rfVars, timerVars, rxVars, procVars
<1>0. "user" \in Process /\ "wx" \in Label /\ "del_gpio" \in Label
  BY DEF Process, Label
<1>1. ASSUME NEW op \in {"open", "retry", "crcmon"}, Begin(op) PROVE TypeOK'
  <2>1. ProcTypes'
    BY <1>0, <1>1, StartTypes DEF Begin, ProcTypes, Task
  <2>2. OtherTypes'
    BY <1>1 DEF Begin, OtherTypes, TypeOK
  <2> QED
    BY <2>1, <2>2, TypeHalvesNext
<1>2. CASE Close
  <2>1. ProcTypes'
    BY <1>0, <1>2, StartTypes DEF Close, rtl8180_close, ProcTypes, TypeOK, Task
  <2>2. OtherTypes'
    <3>1. running' \in BOOLEAN /\ suspended' \in BOOLEAN
      BY <1>2, NotedTypes DEF Close, rtl8180_close, TypeOK
    <3> QED
      BY <1>2, <3>1 DEF Close, rtl8180_close, OtherTypes, TypeOK
  <2> QED
    BY <2>1, <2>2, TypeHalvesNext
<1>3. CASE rtl8187_suspend
  <2>1. ProcTypes'
    BY <1>0, <1>3, StartTypes DEF rtl8187_suspend, rtl8180_close, ProcTypes, TypeOK, Task
  <2>2. OtherTypes'
    <3>1. running' \in BOOLEAN /\ suspended' \in BOOLEAN
      BY <1>3, NotedTypes DEF rtl8187_suspend, rtl8180_close, TypeOK
    <3> QED
      BY <1>3, <3>1 DEF rtl8187_suspend, rtl8180_close, OtherTypes, TypeOK
  <2> QED
    BY <2>1, <2>2, TypeHalvesNext
<1>4. CASE rtl8187_resume
  <2>1. ProcTypes'
    BY <1>0, <1>4, StartTypes DEF rtl8187_resume, ProcTypes, TypeOK, Task
  <2>2. OtherTypes'
    <3>1. running' \in BOOLEAN /\ suspended' \in BOOLEAN
      BY <1>4, NotedTypes DEF rtl8187_resume, TypeOK
    <3> QED
      BY <1>4, <3>1 DEF rtl8187_resume, OtherTypes, TypeOK
  <2> QED
    BY <2>1, <2>2, TypeHalvesNext
<1>5. CASE unregister_netdev
  <2>1. ProcTypes'
    BY <1>0, <1>5, StartTypes DEF unregister_netdev, ProcTypes, TypeOK, Task
  <2>2. OtherTypes'
    <3>1. running' \in BOOLEAN /\ suspended' \in BOOLEAN
      BY <1>5, NotedTypes DEF unregister_netdev, TypeOK
    <3> QED
      BY <1>5, <3>1 DEF unregister_netdev, OtherTypes, TypeOK
  <2> QED
    BY <2>1, <2>2, TypeHalvesNext
<1>6. CASE schedule_reset
  BY <1>6 DEF schedule_reset, TypeOK
<1>7. CASE turn_switch
  BY <1>7 DEF turn_switch, TypeOK
<1> QED
  BY <1>1, <1>2, <1>3, <1>4, <1>5, <1>6, <1>7 DEF User

\* wx_sem is left by who holds it, and then it was 0.
LEMMA TypeGoesOn ==
    ASSUME TypeOK, Exclusion, NEW p \in {"user", "events", "worker"},
           \/ Enter(p) \/ (Leave(p) /\ p # "worker") \/ rtl8180_down(p) \/ del_timers(p)
           \/ down_rf(p) \/ SetZebra_registers(p) \/ SetZebra_state(p) \/ rtl8180_up(p)
    PROVE  TypeOK'
<1> USE DEF vars, ifVars, rfVars, timerVars, rxVars, procVars
<1>0. /\ p \in Process
      /\ {"del_timers", "up", "rf", "rf_hw", "rf_state", "done"} \subseteq Label
  BY DEF Process, Label
<1>1. CASE Enter(p)
  <2>1. ProcTypes'
    BY <1>0, <1>1, GotoTypes, LabelTypes DEF Enter, ProcTypes
  <2>2. OtherTypes'
    BY <1>1 DEF Enter, OtherTypes, TypeOK
  <2> QED
    BY <2>1, <2>2, TypeHalvesNext
<1>2. CASE Leave(p) /\ p # "worker"
  <2>1. wx_sem = 0
    BY <1>2 DEF Leave, Exclusion, Holds, Protected
  <2>2. wx_sem' \in 0 .. 1
    BY <1>2, <2>1 DEF Leave
  <2>3. /\ pc' \in [Process -> Label]
        /\ task' \in [Process -> Task]
    <3>1. CASE task[p] = "unregister"
      BY <1>2, <3>1, <1>0 DEF Leave, TypeOK, Label, Task
    <3>2. CASE task[p] # "unregister"
      BY <1>2, <3>2, <1>0, IdleTypes DEF Leave
    <3> QED
      BY <3>1, <3>2
  <2>4. OtherTypes'
    <3>1. running' \in BOOLEAN /\ suspended' \in BOOLEAN
      BY <1>2, NotedTypes DEF Leave
    <3> QED
      BY <1>2, <2>2, <3>1 DEF Leave, OtherTypes, TypeOK
  <2> QED
    BY <2>3, <2>4, TypeHalvesNext DEF ProcTypes
<1>3. CASE rtl8180_down(p)
  <2>1. (IF up THEN "del_timers" ELSE AfterDown(p)) \in Label
    BY <1>0, LabelTypes
  <2>2. pc' \in [Process -> Label] /\ task' \in [Process -> Task]
    BY <1>0, <1>3, <2>1, GotoTypes DEF rtl8180_down
  <2>3. up' \in BOOLEAN
    BY <1>3 DEF rtl8180_down
  <2>4. OtherTypes'
    BY <1>3, <2>3 DEF rtl8180_down, OtherTypes, TypeOK
  <2> QED
    BY <2>2, <2>4, TypeHalvesNext DEF ProcTypes
<1>4. CASE del_timers(p)
  <2>1. (IF task[p] \in {"retry", "restart"} THEN "up" ELSE "rf") \in Label
    BY <1>0
  <2>2. timer' \in [Timers -> {"off", "armed", "runs"}] /\ works' \subseteq Timers
    BY <1>4 DEF del_timers, TypeOK
  <2>3. ProcTypes'
    BY <1>0, <1>4, <2>1, GotoTypes DEF del_timers, ProcTypes
  <2>4. OtherTypes'
    BY <1>4, <2>2 DEF del_timers, OtherTypes, TypeOK
  <2> QED
    BY <2>3, <2>4, TypeHalvesNext
<1>5. CASE down_rf(p)
  <2>1. (IF bHwRadioOff THEN AfterDown(p) ELSE "rf_hw") \in Label
    BY <1>0, LabelTypes
  <2>2. ProcTypes'
    BY <1>0, <1>5, <2>1, GotoTypes DEF down_rf, ProcTypes
  <2>3. OtherTypes'
    BY <1>5 DEF down_rf, OtherTypes, TypeOK
  <2> QED
    BY <2>2, <2>3, TypeHalvesNext
<1>6. CASE SetZebra_registers(p)
  <2>1. ProcTypes'
    BY <1>0, <1>6, GotoTypes DEF SetZebra_registers, ProcTypes
  <2>2. OtherTypes'
    BY <1>6 DEF SetZebra_registers, OtherTypes, TypeOK, Target, Power
  <2> QED
    BY <2>1, <2>2, TypeHalvesNext
<1>7. CASE SetZebra_state(p)
  <2>1. ProcTypes'
    BY <1>0, <1>7, GotoTypes, LabelTypes, IdleTypes DEF SetZebra_state, ProcTypes
  <2>2. OtherTypes'
    BY <1>7 DEF SetZebra_state, OtherTypes, TypeOK, Target, Power
  <2> QED
    BY <2>1, <2>2, TypeHalvesNext
<1>8. CASE rtl8180_up(p)
  <2>1. urb' \in {"idle", "flight", "done", "error", "killed"} /\ submit_failed' \in BOOLEAN
    BY <1>8 DEF rtl8180_up, rx_urbsubmit, TypeOK
  <2>2. timer' \in [Timers -> {"off", "armed", "runs"}] /\ works' \subseteq Timers
    BY <1>8 DEF rtl8180_up, TypeOK
  <2>3. ProcTypes'
    BY <1>0, <1>8, GotoTypes DEF rtl8180_up, ProcTypes
  <2>4. OtherTypes'
    BY <1>8, <2>1, <2>2 DEF rtl8180_up, OtherTypes, TypeOK, Power
  <2> QED
    BY <2>3, <2>4, TypeHalvesNext
<1> QED
  BY <1>1, <1>2, <1>3, <1>4, <1>5, <1>6, <1>7, <1>8

LEMMA TypeRest ==
    ASSUME TypeOK,
           \/ del_gpio_timer \/ deleteendpoints \/ free_ieee80211
           \/ GPIOChangeRFWorkItemCallBack \/ MgntActSet_RF_State
           \/ rtl8180_restart \/ gpio_change_polling
           \/ rx_isr \/ irq_rx_tasklet \/ irq_rx_resubmit
           \/ \E t \in Timers : timer_fires(t) \/ timer_rearms(t) \/ timer_work(t)
    PROVE  TypeOK'
<1> USE DEF vars, ifVars, rfVars, timerVars, rxVars, procVars
<1>0. /\ {"user", "worker", "events"} \subseteq Process
      /\ {"down", "free", "mgnt", "rf_hw", "wx"} \subseteq Label
  BY DEF Process, Label
<1>1. CASE del_gpio_timer
  <2>1. ProcTypes'
    BY <1>0, <1>1, GotoTypes DEF del_gpio_timer, ProcTypes
  <2>2. OtherTypes'
    <3>1. /\ UNCHANGED <<ifVars, rfVars, timer, works, gpio_work, rxVars, reset, wx_sem>>
          /\ gpio_timer' \in BOOLEAN
      BY <1>1 DEF del_gpio_timer
    <3> QED
      BY <3>1 DEF OtherTypes, TypeOK
  <2> QED
    BY <2>1, <2>2, TypeHalvesNext
<1>2. CASE deleteendpoints
  <2>1. /\ urb' \in {"idle", "flight", "done", "error", "killed"}
        /\ tasklet' \subseteq {"scheduled", "running"}
    BY <1>2 DEF deleteendpoints, TypeOK
  <2>2. ProcTypes'
    BY <1>0, <1>2, GotoTypes DEF deleteendpoints, ProcTypes
  <2>3. OtherTypes'
    BY <1>2, <2>1 DEF deleteendpoints, OtherTypes, TypeOK, Power
  <2> QED
    BY <2>2, <2>3, TypeHalvesNext
<1>3. CASE free_ieee80211
  <2>1. ProcTypes'
    BY <1>0, <1>3, IdleTypes DEF free_ieee80211, ProcTypes
  <2>2. OtherTypes'
    BY <1>3 DEF free_ieee80211, OtherTypes, TypeOK
  <2> QED
    BY <2>1, <2>2, TypeHalvesNext
<1>4. CASE GPIOChangeRFWorkItemCallBack
  <2>1. ProcTypes'
    BY <1>0, <1>4, StartTypes DEF GPIOChangeRFWorkItemCallBack, ProcTypes, TypeOK, Task
  <2>2. OtherTypes'
    BY <1>4 DEF GPIOChangeRFWorkItemCallBack, OtherTypes, TypeOK
  <2> QED
    BY <2>1, <2>2, TypeHalvesNext
<1>5. CASE MgntActSet_RF_State
  <2>1. ProcTypes'
    BY <1>0, <1>5, GotoTypes, IdleTypes DEF MgntActSet_RF_State, ProcTypes, TypeOK
  <2>2. OtherTypes'
    BY <1>5 DEF MgntActSet_RF_State, OtherTypes, TypeOK
  <2> QED
    BY <2>1, <2>2, TypeHalvesNext
<1>6. CASE rtl8180_restart
  <2>1. ProcTypes'
    <3>1. Start("events", "restart", "wx") /\ "restart" \in Task
      BY <1>6 DEF rtl8180_restart, Task
    <3> QED
      BY <1>0, <3>1, StartTypes DEF ProcTypes
  <2>2. OtherTypes'
    <3>1. reset' \in BOOLEAN
      BY <1>6 DEF rtl8180_restart
    <3>2. UNCHANGED <<ifVars, rfVars, timerVars, rxVars, wx_sem>>
      BY <1>6 DEF rtl8180_restart
    <3> QED
      BY <3>1, <3>2 DEF OtherTypes, TypeOK
  <2> QED
    BY <2>1, <2>2, TypeHalvesNext
<1>7. CASE gpio_change_polling
  <2>1. ProcTypes'
    BY <1>7 DEF gpio_change_polling, ProcTypes, TypeOK
  <2>2. OtherTypes'
    BY <1>7 DEF gpio_change_polling, OtherTypes, TypeOK
  <2> QED
    BY <2>1, <2>2, TypeHalvesNext
<1>8. CASE rx_isr
  <2>1. ProcTypes'
    BY <1>8 DEF rx_isr, ProcTypes, TypeOK
  <2>2. OtherTypes'
    BY <1>8 DEF rx_isr, OtherTypes, TypeOK
  <2> QED
    BY <2>1, <2>2, TypeHalvesNext
<1>9. CASE irq_rx_tasklet
  <2>1. ProcTypes'
    BY <1>9 DEF irq_rx_tasklet, ProcTypes, TypeOK
  <2>2. OtherTypes'
    BY <1>9 DEF irq_rx_tasklet, OtherTypes, TypeOK
  <2> QED
    BY <2>1, <2>2, TypeHalvesNext
<1>10. CASE irq_rx_resubmit
  <2>1. ProcTypes'
    BY <1>10 DEF irq_rx_resubmit, ProcTypes, TypeOK
  <2>2. OtherTypes'
    <3>1. /\ urb' \in {"idle", "flight", "done", "error", "killed"}
          /\ submit_failed' \in BOOLEAN /\ tasklet' \subseteq {"scheduled", "running"}
      BY <1>10 DEF irq_rx_resubmit, rx_urbsubmit, TypeOK
    <3>2. UNCHANGED <<ifVars, rfVars, timerVars, procVars>>
      BY <1>10 DEF irq_rx_resubmit
    <3> QED
      BY <3>1, <3>2 DEF OtherTypes, TypeOK
  <2> QED
    BY <2>1, <2>2, TypeHalvesNext
<1>11. ASSUME NEW t \in Timers, timer_fires(t) \/ timer_rearms(t) \/ timer_work(t)
       PROVE  TypeOK'
  <2>1. timer' \in [Timers -> {"off", "armed", "runs"}]
    BY <1>11 DEF timer_fires, timer_rearms, timer_work, TypeOK
  <2>2. works' \subseteq Timers
    BY <1>11 DEF timer_fires, timer_rearms, timer_work, TypeOK
  <2>3. UNCHANGED <<ifVars, rfVars, gpio_timer, gpio_work, rxVars, procVars>>
    BY <1>11 DEF timer_fires, timer_rearms, timer_work
  <2>4. ProcTypes' /\ OtherTypes'
    BY <2>1, <2>2, <2>3 DEF ProcTypes, OtherTypes, TypeOK
  <2> QED
    BY <2>4, TypeHalvesNext
<1> QED
  BY <1>1, <1>2, <1>3, <1>4, <1>5, <1>6, <1>7, <1>8, <1>9, <1>10, <1>11

LEMMA TypeStep ==
    ASSUME IInv, [Next]_vars PROVE TypeOK'
<1>1. TypeOK /\ Exclusion
  BY DEF IInv
<1>2. CASE UNCHANGED vars
  <2>1. ProcTypes' /\ OtherTypes'
    BY <1>1, <1>2 DEF vars, ifVars, rfVars, timerVars, rxVars, procVars, TypeOK,
                      ProcTypes, OtherTypes
  <2> QED
    BY <2>1, TypeHalvesNext
<1>3. CASE User
  BY <1>1, <1>3, TypeUserBegins
<1>4. CASE UserGoesOn
  BY <1>1, <1>4, TypeGoesOn, TypeRest DEF UserGoesOn
<1>5. CASE RestartGoesOn
  BY <1>1, <1>5, TypeGoesOn DEF RestartGoesOn
<1>6. CASE Worker
  BY <1>1, <1>6, TypeGoesOn, TypeRest DEF Worker
<1>7. CASE \/ rtl8180_restart \/ gpio_change_polling
           \/ rx_isr \/ irq_rx_tasklet \/ irq_rx_resubmit
           \/ \E t \in Timers : timer_fires(t) \/ timer_rearms(t) \/ timer_work(t)
  BY <1>1, <1>7, TypeRest
<1> QED
  BY <1>2, <1>3, <1>4, <1>5, <1>6, <1>7 DEF Next, Unplugged

-----------------------------------------------------------------------------
\* The rest of the invariant, one action after the other.

LEMMA QuietStep ==
    ASSUME IInv, WorkerPlaces',
           UNCHANGED <<up, running, timer, works, wx_sem>>,
           \A p \in {"user", "events"} : pc'[p] = pc[p] /\ task'[p] = task[p]
    PROVE  Places' /\ Exclusion' /\ TimersInv' /\ UpIsRunning'
<1> USE DEF IInv
<1>1. Places'
  BY DEF Places, UserPlaces, EventsPlaces
<1>2. Exclusion'
  BY DEF Exclusion, Holds
<1>3. TimersInv'
  BY DEF TimersInv, Between, TimersMatchUp, TimersOff, Progress
<1>4. UpIsRunning'
  BY DEF UpIsRunning
<1> QED
  BY <1>1, <1>2, <1>3, <1>4

LEMMA BeginStep ==
    ASSUME IInv, NEW op \in {"open", "retry", "crcmon"}, Begin(op)
    PROVE  Places' /\ Exclusion' /\ TimersInv' /\ UpIsRunning'
<1> USE DEF IInv
<1>1. /\ pc["user"] = "idle" /\ op \in Task
      /\ pc' = [pc EXCEPT !["user"] = "wx"] /\ task' = [task EXCEPT !["user"] = op]
      /\ UNCHANGED <<up, running, timer, works, wx_sem>>
  BY DEF Begin, Start, ifVars, timerVars, Task
<1>2. /\ pc'["user"] = "wx" /\ task'["user"] = op
      /\ \A q \in {"events", "worker"} : pc'[q] = pc[q] /\ task'[q] = task[q]
  BY <1>1 DEF TypeOK, Process
<1>3. Places'
  BY <1>1, <1>2 DEF Places, UserPlaces, EventsPlaces, WorkerPlaces
<1>4. Exclusion'
  BY <1>1, <1>2 DEF Exclusion, Holds, Protected
<1>5. TimersInv'
  BY <1>1, <1>2 DEF TimersInv, Between, TimersMatchUp, TimersOff, Progress
<1>6. UpIsRunning'
  BY <1>1, <1>2 DEF UpIsRunning, Places, UserPlaces
<1> QED
  BY <1>3, <1>4, <1>5, <1>6

LEMMA CloseStep ==
    ASSUME IInv, Close
    PROVE  Places' /\ Exclusion' /\ TimersInv' /\ UpIsRunning'
<1> USE DEF IInv
<1>1. /\ pc["user"] = "idle" /\ running
      /\ \A q \in {"events", "worker"} : pc'[q] = pc[q] /\ task'[q] = task[q]
      /\ UNCHANGED <<up, timer, works, wx_sem>>
      /\ \/ /\ up /\ pc'["user"] = "wx" /\ task'["user"] = "close"
            /\ running' = running
         \/ /\ ~up /\ pc'["user"] = pc["user"] /\ task'["user"] = task["user"]
            /\ running' = FALSE
  BY DEF Close, rtl8180_close, Start, Noted, ifVars, timerVars, rfVars, rxVars,
              procVars, TypeOK, Process
<1>2. Places'
  BY <1>1 DEF Places, UserPlaces, EventsPlaces, WorkerPlaces, Exclusion, Holds, Protected
<1>3. Exclusion'
  BY <1>1 DEF Exclusion, Holds, Protected, Places, UserPlaces, EventsPlaces, WorkerPlaces
<1>4. TimersInv'
  BY <1>1 DEF TimersInv, Between, TimersMatchUp, TimersOff, Progress, Places, UserPlaces,
              EventsPlaces, Exclusion, Holds, Protected, UpIsRunning
<1>5. UpIsRunning'
  BY <1>1 DEF UpIsRunning, Places, UserPlaces, EventsPlaces, Exclusion, Holds, Protected,
              TimersInv, Progress
<1> QED
  BY <1>2, <1>3, <1>4, <1>5

LEMMA SuspendStep ==
    ASSUME IInv, rtl8187_suspend
    PROVE  Places' /\ Exclusion' /\ TimersInv' /\ UpIsRunning'
<1> USE DEF IInv
<1>1. /\ pc["user"] = "idle"
      /\ \A q \in {"events", "worker"} : pc'[q] = pc[q] /\ task'[q] = task[q]
      /\ UNCHANGED <<up, timer, works, wx_sem>>
      /\ \/ /\ running /\ up /\ pc'["user"] = "wx" /\ task'["user"] = "suspend"
            /\ running' = running
         \/ /\ ~(running /\ up) /\ pc'["user"] = pc["user"] /\ task'["user"] = task["user"]
            /\ running' = running
  BY DEF rtl8187_suspend, rtl8180_close, Start, Noted, ifVars, timerVars, rfVars,
              rxVars, procVars, TypeOK, Process
<1>2. Places'
  BY <1>1 DEF Places, UserPlaces, EventsPlaces, WorkerPlaces, Exclusion, Holds, Protected
<1>3. Exclusion'
  BY <1>1 DEF Exclusion, Holds, Protected, Places, UserPlaces, EventsPlaces, WorkerPlaces
<1>4. TimersInv'
  BY <1>1 DEF TimersInv, Between, TimersMatchUp, TimersOff, Progress, Places, UserPlaces,
              EventsPlaces, Exclusion, Holds, Protected, UpIsRunning
<1>5. UpIsRunning'
  BY <1>1 DEF UpIsRunning, Places, UserPlaces, EventsPlaces, Exclusion, Holds, Protected,
              TimersInv, Progress
<1> QED
  BY <1>2, <1>3, <1>4, <1>5

LEMMA ResumeStep ==
    ASSUME IInv, rtl8187_resume
    PROVE  Places' /\ Exclusion' /\ TimersInv' /\ UpIsRunning'
<1> USE DEF IInv
<1>1. /\ pc["user"] = "idle"
      /\ \A q \in {"events", "worker"} : pc'[q] = pc[q] /\ task'[q] = task[q]
      /\ UNCHANGED <<up, running, timer, works, wx_sem>>
      /\ \/ running /\ pc'["user"] = "wx" /\ task'["user"] = "resume"
         \/ pc'["user"] = pc["user"] /\ task'["user"] = task["user"]
  BY DEF rtl8187_resume, Start, Noted, ifVars, timerVars, rfVars, rxVars, procVars,
              TypeOK, Process
<1>2. Places'
  BY <1>1 DEF Places, UserPlaces, EventsPlaces, WorkerPlaces, Exclusion, Holds, Protected
<1>3. Exclusion'
  BY <1>1 DEF Exclusion, Holds, Protected, Places, UserPlaces, EventsPlaces, WorkerPlaces
<1>4. TimersInv'
  BY <1>1 DEF TimersInv, Between, TimersMatchUp, TimersOff, Progress, Places, UserPlaces,
              EventsPlaces, Exclusion, Holds, Protected, UpIsRunning
<1>5. UpIsRunning'
  BY <1>1 DEF UpIsRunning, Places, UserPlaces, EventsPlaces, Exclusion, Holds, Protected,
              TimersInv, Progress
<1> QED
  BY <1>2, <1>3, <1>4, <1>5

LEMMA UnregisterStep ==
    ASSUME IInv, unregister_netdev
    PROVE  Places' /\ Exclusion' /\ TimersInv' /\ UpIsRunning'
<1> USE DEF IInv
<1>1. /\ pc["user"] = "idle"
      /\ \A q \in {"events", "worker"} : pc'[q] = pc[q] /\ task'[q] = task[q]
      /\ UNCHANGED <<up, timer, works, wx_sem>>
      /\ \/ /\ up /\ pc'["user"] = "wx" /\ task'["user"] = "unregister"
            /\ running' = running
         \/ /\ ~(running /\ up) /\ pc'["user"] = "del_gpio" /\ task'["user"] = "disconnect"
            /\ running' = FALSE
  BY DEF unregister_netdev, Start, Noted, ifVars, timerVars, rfVars, rxVars, procVars,
              TypeOK, Process
<1>2. Places'
  BY <1>1 DEF Places, UserPlaces, EventsPlaces, WorkerPlaces, Exclusion, Holds, Protected
<1>3. Exclusion'
  BY <1>1 DEF Exclusion, Holds, Protected, Places, UserPlaces, EventsPlaces, WorkerPlaces
<1>4. TimersInv'
  BY <1>1 DEF TimersInv, Between, TimersMatchUp, TimersOff, Progress, Places, UserPlaces,
              EventsPlaces, Exclusion, Holds, Protected, UpIsRunning
<1>5. UpIsRunning'
  BY <1>1 DEF UpIsRunning, Places, UserPlaces, EventsPlaces, Exclusion, Holds, Protected,
              TimersInv, Progress
<1> QED
  BY <1>2, <1>3, <1>4, <1>5

\* down and up of priv->wx_sem.
LEMMA EnterStep ==
    ASSUME IInv, NEW p \in {"user", "events"}, Enter(p)
    PROVE  Places' /\ Exclusion' /\ TimersInv' /\ UpIsRunning'
<1> USE DEF IInv
<1>1. /\ pc[p] = "wx" /\ wx_sem = 1 /\ wx_sem' = 0
      /\ pc'[p] = First(p) /\ task'[p] = task[p]
      /\ \A q \in {"user", "events", "worker"} \ {p} : pc'[q] = pc[q] /\ task'[q] = task[q]
      /\ UNCHANGED <<up, running, timer, works>>
  BY DEF Enter, Goto, ifVars, timerVars, rfVars, rxVars, procVars, TypeOK, Process
<1>2. Places'
  BY <1>1 DEF Places, UserPlaces, EventsPlaces, WorkerPlaces, Exclusion, Holds,
              Protected, First
<1>3. Exclusion'
  BY <1>1 DEF Exclusion, Holds, Protected, Places, UserPlaces, EventsPlaces,
              WorkerPlaces, First
<1>4. TimersInv'
  BY <1>1 DEF TimersInv, Between, TimersMatchUp, TimersOff, Progress, Places, UserPlaces,
              EventsPlaces, Exclusion, Holds, Protected, UpIsRunning, First
<1>5. UpIsRunning'
  BY <1>1 DEF UpIsRunning, Places, UserPlaces, EventsPlaces, Exclusion, Holds, Protected,
              TimersInv, Progress, First
<1> QED
  BY <1>2, <1>3, <1>4, <1>5

LEMMA LeaveStep ==
    ASSUME IInv, NEW p \in {"user", "events"}, Leave(p)
    PROVE  Places' /\ Exclusion' /\ TimersInv' /\ UpIsRunning'
<1> USE DEF IInv
<1>1. /\ pc[p] = "done" /\ wx_sem = 0 /\ wx_sem' = 1
      /\ \A q \in {"user", "events", "worker"} \ {p} : pc'[q] = pc[q] /\ task'[q] = task[q]
      /\ UNCHANGED <<up, timer, works>>
      /\ \/ /\ task[p] = "unregister" /\ task'[p] = "disconnect" /\ pc'[p] = "del_gpio"
            /\ running' = FALSE
         \/ /\ task[p] # "unregister" /\ task'[p] = "none" /\ pc'[p] = "idle"
            /\ task[p] = "open" => running'
            /\ task[p] \notin {"open", "close"} => running' = running
  <2>1. wx_sem = 0 /\ wx_sem' = 1
    BY DEF Leave, Exclusion, Holds, Protected
  <2>2. /\ task[p] \in {"unregister", "close"} => running' = FALSE
        /\ task[p] = "open" => running' = TRUE
        /\ task[p] \notin {"open", "close", "unregister"} => running' = running
    BY DEF Leave, Noted
  <2>3. pc \in [Process -> Label] /\ task \in [Process -> Task] /\ p \in Process
    BY DEF TypeOK, Process
  <2>4. CASE task[p] = "unregister"
    BY <2>1, <2>2, <2>3, <2>4 DEF Leave, timerVars, Process
  <2>5. CASE task[p] # "unregister"
    BY <2>1, <2>2, <2>3, <2>5 DEF Leave, Idle, timerVars, Process
  <2> QED
    BY <2>4, <2>5
<1>2. Places'
  BY <1>1 DEF Places, UserPlaces, EventsPlaces, WorkerPlaces, Exclusion, Holds, Protected
<1>3. Exclusion'
  BY <1>1 DEF Exclusion, Holds, Protected, Places, UserPlaces, EventsPlaces, WorkerPlaces
<1>4. TimersInv'
  BY <1>1 DEF TimersInv, Between, TimersMatchUp, TimersOff, Progress, Places, UserPlaces,
              EventsPlaces, Exclusion, Holds, Protected, UpIsRunning
<1>5. UpIsRunning'
  BY <1>1 DEF UpIsRunning, Places, UserPlaces, EventsPlaces, Exclusion, Holds, Protected,
              TimersInv, Progress
<1> QED
  BY <1>2, <1>3, <1>4, <1>5

\* What rtl8180_down and _rtl8180_up do.
LEMMA DownStep ==
    ASSUME IInv, rtl8180_down("user")
    PROVE  Places' /\ Exclusion' /\ TimersInv' /\ UpIsRunning'
<1> USE DEF IInv
<1>1. /\ pc["user"] = "down" /\ ~up' /\ UNCHANGED <<running, timer, works, wx_sem>>
      /\ pc'["user"] = (IF up THEN "del_timers" ELSE AfterDown("user"))
      /\ task'["user"] = task["user"]
      /\ \A q \in {"events", "worker"} : pc'[q] = pc[q] /\ task'[q] = task[q]
  BY DEF rtl8180_down, Goto, ifVars, timerVars, rfVars, rxVars, procVars, TypeOK, Process
<1>2. Places'
  BY <1>1 DEF Places, UserPlaces, EventsPlaces, WorkerPlaces, Exclusion, Holds,
              Protected, AfterDown, UpIsRunning
<1>3. Exclusion'
  BY <1>1 DEF Exclusion, Holds, Protected, Places, UserPlaces, EventsPlaces, WorkerPlaces,
              AfterDown, UpIsRunning
<1>4. TimersInv'
  BY <1>1 DEF TimersInv, Between, TimersMatchUp, TimersOff, Progress, Places, UserPlaces,
              EventsPlaces, Exclusion, Holds, Protected, UpIsRunning, AfterDown
<1>5. UpIsRunning'
  BY <1>1 DEF UpIsRunning, Places, UserPlaces, EventsPlaces, Exclusion, Holds, Protected,
              TimersInv, Progress, AfterDown
<1> QED
  BY <1>2, <1>3, <1>4, <1>5

LEMMA DelTimersStep ==
    ASSUME IInv, NEW p \in {"user", "events"}, del_timers(p)
    PROVE  Places' /\ Exclusion' /\ TimersInv' /\ UpIsRunning'
<1> USE DEF IInv
<1>1. /\ pc[p] = "del_timers" /\ UNCHANGED <<up, running, wx_sem>> /\ TimersOff'
      /\ pc'[p] = (IF task[p] \in {"retry", "restart"} THEN "up" ELSE "rf")
      /\ task'[p] = task[p]
      /\ \A q \in {"user", "events", "worker"} \ {p} : pc'[q] = pc[q] /\ task'[q] = task[q]
  BY DEF del_timers, TimersOff, Goto, ifVars, timerVars, rfVars, rxVars, procVars,
              TypeOK, Process
<1>2. Places'
  BY <1>1 DEF Places, UserPlaces, EventsPlaces, WorkerPlaces, Exclusion, Holds, Protected
<1>3. Exclusion'
  BY <1>1 DEF Exclusion, Holds, Protected, Places, UserPlaces, EventsPlaces, WorkerPlaces
<1>4. TimersInv'
  BY <1>1 DEF TimersInv, Between, TimersMatchUp, TimersOff, Progress, Places, UserPlaces,
              EventsPlaces, Exclusion, Holds, Protected, UpIsRunning
<1>5. UpIsRunning'
  BY <1>1 DEF UpIsRunning, Places, UserPlaces, EventsPlaces, Exclusion, Holds, Protected,
              TimersInv, Progress
<1> QED
  BY <1>2, <1>3, <1>4, <1>5

LEMMA RfStep ==
    ASSUME IInv, down_rf("user") \/ SetZebra_registers("user") \/ SetZebra_state("user")
    PROVE  Places' /\ Exclusion' /\ TimersInv' /\ UpIsRunning'
<1> USE DEF IInv
<1>1. /\ pc["user"] \in {"rf", "rf_hw", "rf_state"}
      /\ pc'["user"] \in {"rf_hw", "rf_state", AfterDown("user")}
      /\ task'["user"] = task["user"]
      /\ \A q \in {"events", "worker"} : pc'[q] = pc[q] /\ task'[q] = task[q]
      /\ UNCHANGED <<up, running, timer, works, wx_sem>>
  BY DEF down_rf, SetZebra_registers, SetZebra_state, Goto, ifVars, timerVars, rfVars,
              rxVars, procVars, TypeOK, Process
<1>2. Places'
  BY <1>1 DEF Places, UserPlaces, EventsPlaces, WorkerPlaces, Exclusion, Holds,
              Protected, AfterDown
<1>3. Exclusion'
  BY <1>1 DEF Exclusion, Holds, Protected, Places, UserPlaces, EventsPlaces,
              WorkerPlaces, AfterDown
<1>4. TimersInv'
  BY <1>1 DEF TimersInv, Between, TimersMatchUp, TimersOff, Progress, Places, UserPlaces,
              EventsPlaces, Exclusion, Holds, Protected, UpIsRunning, AfterDown
<1>5. UpIsRunning'
  BY <1>1 DEF UpIsRunning, Places, UserPlaces, EventsPlaces, Exclusion, Holds, Protected,
              TimersInv, Progress, AfterDown
<1> QED
  BY <1>2, <1>3, <1>4, <1>5

LEMMA UpStep ==
    ASSUME IInv, NEW p \in {"user", "events"}, rtl8180_up(p)
    PROVE  Places' /\ Exclusion' /\ TimersInv' /\ UpIsRunning'
<1> USE DEF IInv
<1>1. /\ pc[p] = "up" /\ pc'[p] = "done" /\ up' /\ \A t \in Timers : timer'[t] # "off"
      /\ task'[p] = task[p] /\ UNCHANGED <<running, wx_sem>>
      /\ \A q \in {"user", "events", "worker"} \ {p} : pc'[q] = pc[q] /\ task'[q] = task[q]
  BY DEF rtl8180_up, Goto, ifVars, timerVars, rfVars, rxVars, procVars, TypeOK, Process
<1>2. Places'
  BY <1>1 DEF Places, UserPlaces, EventsPlaces, WorkerPlaces, Exclusion, Holds, Protected
<1>3. Exclusion'
  BY <1>1 DEF Exclusion, Holds, Protected, Places, UserPlaces, EventsPlaces, WorkerPlaces
<1>4. TimersInv'
  BY <1>1 DEF TimersInv, Between, TimersMatchUp, TimersOff, Progress, Places, UserPlaces,
              EventsPlaces, Exclusion, Holds, Protected, UpIsRunning
<1>5. UpIsRunning'
  BY <1>1 DEF UpIsRunning, Places, UserPlaces, EventsPlaces, Exclusion, Holds, Protected,
              TimersInv, Progress
<1> QED
  BY <1>2, <1>3, <1>4, <1>5

\* The end of rtl8187_usb_disconnect, and the start of rtl8180_restart.
LEMMA UnplugStep ==
    ASSUME IInv, del_gpio_timer \/ deleteendpoints \/ free_ieee80211
    PROVE  Places' /\ Exclusion' /\ TimersInv' /\ UpIsRunning'
<1> USE DEF IInv
<1>1. /\ \/ /\ pc["user"] = "del_gpio" /\ pc'["user"] = "down" /\ task'["user"] = task["user"]
         \/ /\ pc["user"] = "kill" /\ pc'["user"] = "free" /\ task'["user"] = task["user"]
         \/ /\ pc["user"] = "free" /\ pc'["user"] = "idle" /\ task'["user"] = "none"
      /\ \A q \in {"events", "worker"} : pc'[q] = pc[q] /\ task'[q] = task[q]
      /\ UNCHANGED <<up, running, timer, works, wx_sem>>
  BY DEF del_gpio_timer, deleteendpoints, free_ieee80211, Goto, Idle, ifVars,
              timerVars, rfVars, rxVars, procVars, TypeOK, Process
<1>2. Places'
  BY <1>1 DEF Places, UserPlaces, EventsPlaces, WorkerPlaces, Exclusion, Holds, Protected
<1>3. Exclusion'
  BY <1>1 DEF Exclusion, Holds, Protected, Places, UserPlaces, EventsPlaces, WorkerPlaces
<1>4. TimersInv'
  BY <1>1 DEF TimersInv, Between, TimersMatchUp, TimersOff, Progress, Places, UserPlaces,
              EventsPlaces, Exclusion, Holds, Protected, UpIsRunning
<1>5. UpIsRunning'
  BY <1>1 DEF UpIsRunning, Places, UserPlaces, EventsPlaces, Exclusion, Holds, Protected,
              TimersInv, Progress
<1> QED
  BY <1>2, <1>3, <1>4, <1>5

LEMMA RestartStep ==
    ASSUME IInv, rtl8180_restart
    PROVE  Places' /\ Exclusion' /\ TimersInv' /\ UpIsRunning'
<1> USE DEF IInv
<1>1. /\ pc["events"] = "idle" /\ pc'["events"] = "wx" /\ task'["events"] = "restart"
      /\ \A q \in {"user", "worker"} : pc'[q] = pc[q] /\ task'[q] = task[q]
      /\ UNCHANGED <<up, running, timer, works, wx_sem>>
  BY DEF rtl8180_restart, Start, ifVars, timerVars, rfVars, rxVars, procVars, TypeOK,
              Process
<1>2. Places'
  BY <1>1 DEF Places, UserPlaces, EventsPlaces, WorkerPlaces, Exclusion, Holds, Protected
<1>3. Exclusion'
  BY <1>1 DEF Exclusion, Holds, Protected, Places, UserPlaces, EventsPlaces, WorkerPlaces
<1>4. TimersInv'
  BY <1>1 DEF TimersInv, Between, TimersMatchUp, TimersOff, Progress, Places, UserPlaces,
              EventsPlaces, Exclusion, Holds, Protected, UpIsRunning
<1>5. UpIsRunning'
  BY <1>1 DEF UpIsRunning, Places, UserPlaces, EventsPlaces, Exclusion, Holds, Protected,
              TimersInv, Progress
<1> QED
  BY <1>2, <1>3, <1>4, <1>5

\* The timers stop when the interface does.
LEMMA TimersStep ==
    ASSUME IInv, NEW t \in Timers, timer_fires(t) \/ timer_rearms(t) \/ timer_work(t)
    PROVE  Places' /\ Exclusion' /\ TimersInv' /\ UpIsRunning'
<1> USE DEF IInv
<1>1. UNCHANGED <<up, running, wx_sem, pc, task>>
  BY DEF timer_fires, timer_rearms, timer_work, ifVars, procVars
<1>2. TimersOff => TimersOff'
  BY DEF TimersOff, timer_fires, timer_rearms, timer_work
<1>3. ASSUME up, \A u \in Timers : timer[u] # "off"
      PROVE  \A u \in Timers : timer'[u] # "off"
  BY <1>3 DEF timer_fires, timer_rearms, timer_work, TypeOK
<1>4. Places' /\ Exclusion' /\ UpIsRunning'
  BY <1>1 DEF Places, UserPlaces, EventsPlaces, WorkerPlaces, Exclusion, Holds, UpIsRunning
<1>5. TimersInv'
  BY <1>1, <1>2, <1>3 DEF TimersInv, Between, TimersMatchUp, Progress
<1> QED
  BY <1>4, <1>5

\* The radio, its switch and the receive URB.
LEMMA RadioStep ==
    ASSUME IInv,
           \/ schedule_reset \/ turn_switch \/ gpio_change_polling \/ Worker
           \/ rx_isr \/ irq_rx_tasklet \/ irq_rx_resubmit
    PROVE  Places' /\ Exclusion' /\ TimersInv' /\ UpIsRunning'
<1>1. /\ UNCHANGED <<up, running, timer, works, wx_sem>>
      /\ \A p \in {"user", "events"} : pc'[p] = pc[p] /\ task'[p] = task[p]
      /\ pc'["worker"] \in {pc["worker"], "idle", "mgnt", "rf_hw", "rf_state"}
  <2>1. pc \in [Process -> Label] /\ task \in [Process -> Task]
    BY DEF IInv, TypeOK
  <2>2. CASE Worker
    <3>1. UNCHANGED <<up, running, timer, works, wx_sem>>
      BY <2>2 DEF Worker, GPIOChangeRFWorkItemCallBack, MgntActSet_RF_State,
         SetZebra_registers, SetZebra_state, ifVars, timerVars
    <3>2. CASE GPIOChangeRFWorkItemCallBack
      BY <2>1, <3>1, <3>2 DEF GPIOChangeRFWorkItemCallBack, Start, Process
    <3>3. CASE MgntActSet_RF_State
      BY <2>1, <3>1, <3>3 DEF MgntActSet_RF_State, Goto, Idle, Process
    <3>4. CASE SetZebra_registers("worker")
      BY <2>1, <3>1, <3>4 DEF SetZebra_registers, Goto, Process
    <3>5. CASE SetZebra_state("worker")
      BY <2>1, <3>1, <3>5 DEF SetZebra_state, Idle, Process
    <3> QED
      BY <2>2, <3>2, <3>3, <3>4, <3>5 DEF Worker
  <2>3. CASE schedule_reset \/ turn_switch \/ gpio_change_polling
    BY <2>3
       DEF schedule_reset, turn_switch, gpio_change_polling, ifVars, timerVars, procVars
  <2>4. CASE rx_isr \/ irq_rx_tasklet \/ irq_rx_resubmit
    BY <2>4 DEF rx_isr, irq_rx_tasklet, irq_rx_resubmit, ifVars, timerVars, procVars
  <2> QED
    BY <2>2, <2>3, <2>4
<1>2. WorkerPlaces'
  BY <1>1 DEF IInv, Places, WorkerPlaces
<1> QED
  BY <1>1, <1>2, QuietStep

-----------------------------------------------------------------------------
LEMMA Step ==
    ASSUME IInv, [Next]_vars PROVE IInv'
<1>1. TypeOK'
  BY TypeStep
<1>2. Places' /\ Exclusion' /\ TimersInv' /\ UpIsRunning'
  <2>1. CASE User
    BY <2>1, BeginStep, CloseStep, SuspendStep, ResumeStep, UnregisterStep, RadioStep
       DEF User
  <2>2. CASE UserGoesOn
    BY <2>2, EnterStep, LeaveStep, DownStep, DelTimersStep, RfStep, UpStep, UnplugStep
       DEF UserGoesOn
  <2>3. CASE rtl8180_restart \/ RestartGoesOn
    BY <2>3, RestartStep, EnterStep, LeaveStep, DelTimersStep, UpStep DEF RestartGoesOn
  <2>4. CASE \/ Worker \/ gpio_change_polling
             \/ rx_isr \/ irq_rx_tasklet \/ irq_rx_resubmit
    BY <2>4, RadioStep
  <2>5. CASE \E t \in Timers : timer_fires(t) \/ timer_rearms(t) \/ timer_work(t)
    BY <2>5, TimersStep
  <2>6. CASE UNCHANGED vars
    <3>1. UNCHANGED <<up, running, timer, works, wx_sem, pc, task>>
      BY <2>6 DEF vars, ifVars, timerVars, procVars
    <3>2. WorkerPlaces'
      BY <3>1 DEF IInv, Places, WorkerPlaces
    <3> QED
      BY <3>1, <3>2, QuietStep
  <2> QED
    BY <2>1, <2>2, <2>3, <2>4, <2>5, <2>6 DEF Next, Unplugged
<1> QED
  BY <1>1, <1>2 DEF IInv

THEOREM Invariant ==
    Spec => []IInv
<1>1. Init => IInv
  BY InitIInv
<1>2. IInv /\ [Next]_vars => IInv'
  BY Step
<1> QED
  BY <1>1, <1>2, PTL DEF Spec

\* Every variable keeps its type; wx_sem never counts above one.
THEOREM TypeCorrect ==
    Spec => []TypeOK
<1>1. IInv => TypeOK
  BY DEF IInv
<1> QED
  BY <1>1, Invariant, PTL

\* While nobody is between down and up of priv->wx_sem, every timer of an interface
\* that is up is armed or runs, and those of one that is down are off, with
\* no work queued: rtl8180_down, rtl8180_commit and _rtl8180_up.
THEOREM TimersFollow ==
    Spec => []TimersFollowInterface
<1>1. IInv => TimersFollowInterface
  <2> SUFFICES ASSUME IInv, wx_sem = 1
               PROVE  IF up THEN \A t \in Timers : timer[t] # "off"
                      ELSE \A t \in Timers : timer[t] = "off"
    BY DEF TimersFollowInterface
  <2>1. ~Holds("user") /\ ~Holds("events")
    BY DEF IInv, Exclusion
  <2>2. ~Between
    BY <2>1 DEF Between, Holds, Protected
  <2> QED
    BY <2>2 DEF IInv, TimersInv, TimersMatchUp, TimersOff
<1> QED
  BY <1>1, Invariant, PTL


-----------------------------------------------------------------------------
\* The radio, the receive URB and the end of the device, on top of IInv.

\* Who has begun to unplug past del_timer_sync finds the switch's timer gone.
Unplugging(place, in) == in = "disconnect" /\ place # "del_gpio"
UnplugKept == Unplugging(pc["user"], task["user"]) => ~gpio_timer

\* An interface that is up receives, and only a disconnect kills the URB.
ReceiveKept ==
    /\ up => urb = "flight" \/ tasklet # {} \/ submit_failed
    /\ urb = "killed" => ~present \/ pc["user"] = "free"

\* An interface that is up has its radio on, but for the work of the switch: it is about to
\* write the registers, or it has turned the radio off and the driver believes so, or will.
WorkerKnows == pc["worker"] # "idle" => (bHwRadioOff <=> want = "off")
RadioKept ==
    up /\ radio = "off" =>
       \/ pc["worker"] = "idle" /\ eRFPowerState = "off" /\ bHwRadioOff
       \/ pc["worker"] = "mgnt" /\ eRFPowerState = "off"
       \/ pc["worker"] = "rf_hw"
       \/ pc["worker"] = "rf_state" /\ want = "off"

DeviceInv == GoneIsQuiet /\ UnplugKept /\ ReceiveKept /\ WorkerKnows /\ RadioKept

rfKept == UNCHANGED <<bHwRadioOff, eRFPowerState, radio, want>> /\ pc'["worker"] = pc["worker"]
UserKept ==
    /\ Unplugging(pc'["user"], task'["user"]) => Unplugging(pc["user"], task["user"])
    /\ pc["user"] = "free" => pc'["user"] = "free"

\* A step that touches nothing of this.
LEMMA DeviceStays ==
    ASSUME DeviceInv, present, UserKept, rfKept,
           UNCHANGED <<present, up, gpio_timer, gpio_work, rxVars>>
    PROVE  DeviceInv'
  BY DEF DeviceInv, GoneIsQuiet, UnplugKept, ReceiveKept, WorkerKnows, RadioKept, UserKept,
     rfKept, rxVars

LEMMA DeviceUserBegins ==
    ASSUME IInv, DeviceInv, present, User PROVE DeviceInv'
<1>1. pc \in [Process -> Label] /\ task \in [Process -> Task]
  BY DEF IInv, TypeOK
<1>2. UNCHANGED <<present, up, gpio_timer, gpio_work, rxVars>>
      /\ UNCHANGED <<bHwRadioOff, eRFPowerState, radio, want>>
  BY DEF User, Begin, Close, rtl8187_suspend, rtl8187_resume, unregister_netdev,
     schedule_reset, turn_switch, ifVars, rfVars, timerVars, procVars
<1>3. pc'["worker"] = pc["worker"] /\ UserKept
  <2>1. CASE \E op \in {"open", "retry", "crcmon"} : Begin(op)
    BY <1>1, <2>1 DEF Begin, Start, Process, UserKept, Unplugging
  <2>2. CASE Close \/ rtl8187_suspend
    BY <1>1, <2>2 DEF Close, rtl8187_suspend, rtl8180_close, Start, Process, UserKept,
       Unplugging
  <2>3. CASE rtl8187_resume
    BY <1>1, <2>3 DEF rtl8187_resume, Start, Process, UserKept, Unplugging
  <2>4. CASE unregister_netdev
    BY <1>1, <2>4 DEF unregister_netdev, Start, Process, UserKept, Unplugging
  <2>5. CASE schedule_reset \/ turn_switch
    BY <2>5 DEF schedule_reset, turn_switch, procVars, UserKept
  <2> QED
    BY <2>1, <2>2, <2>3, <2>4, <2>5 DEF User
<1> QED
  BY <1>2, <1>3, DeviceStays DEF rfKept

\* Waiting for wx_sem, giving it back, stopping the timers, and the timers themselves.
LEMMA DeviceStaysQuiet ==
    ASSUME IInv, DeviceInv, present,
           \/ rtl8180_restart
           \/ \E p \in {"user", "events"} : Enter(p) \/ Leave(p) \/ del_timers(p)
           \/ down_rf("user")
           \/ \E t \in Timers : timer_fires(t) \/ timer_rearms(t) \/ timer_work(t)
    PROVE  DeviceInv'
<1>1. pc \in [Process -> Label] /\ task \in [Process -> Task]
  BY DEF IInv, TypeOK
<1>2. UNCHANGED <<present, up, gpio_timer, gpio_work, rxVars>>
      /\ UNCHANGED <<bHwRadioOff, eRFPowerState, radio, want>>
  BY DEF rtl8180_restart, Enter, Leave, del_timers, down_rf, timer_fires, timer_rearms,
     timer_work, ifVars, rfVars, timerVars
<1>3. pc'["worker"] = pc["worker"] /\ UserKept
  <2>1. CASE rtl8180_restart
    BY <1>1, <2>1 DEF rtl8180_restart, Start, Process, UserKept
  <2>2. ASSUME NEW p \in {"user", "events"}, Enter(p)
        PROVE  pc'["worker"] = pc["worker"] /\ UserKept
    <3>1. p = "user" => task["user"] # "disconnect"
      BY <2>2 DEF Enter, IInv, Places, UserPlaces
    <3> QED
      BY <1>1, <2>2, <3>1 DEF Enter, Goto, Process, UserKept, Unplugging
  <2>3. ASSUME NEW p \in {"user", "events"}, Leave(p)
        PROVE  pc'["worker"] = pc["worker"] /\ UserKept
    BY <1>1, <2>3 DEF Leave, Idle, Process, UserKept, Unplugging
  <2>4. ASSUME NEW p \in {"user", "events"}, del_timers(p)
        PROVE  pc'["worker"] = pc["worker"] /\ UserKept
    BY <1>1, <2>4 DEF del_timers, Goto, Process, UserKept, Unplugging
  <2>5. CASE down_rf("user")
    BY <1>1, <2>5 DEF down_rf, Goto, Process, UserKept, Unplugging
  <2>6. ASSUME NEW t \in Timers, timer_fires(t) \/ timer_rearms(t) \/ timer_work(t)
        PROVE  pc'["worker"] = pc["worker"] /\ UserKept
    BY <2>6 DEF timer_fires, timer_rearms, timer_work, procVars, UserKept
  <2> QED
    BY <2>1, <2>2, <2>3, <2>4, <2>5, <2>6
<1> QED
  BY <1>2, <1>3, DeviceStays DEF rfKept

\* Going down, and the user's writes to the radio: the interface is not up any more.
LEMMA DeviceGoesDown ==
    ASSUME IInv, DeviceInv, present,
           \/ rtl8180_down("user") \/ SetZebra_registers("user") \/ SetZebra_state("user")
    PROVE  DeviceInv'
<1>1. pc \in [Process -> Label] /\ task \in [Process -> Task]
  BY DEF IInv, TypeOK
<1>2. UNCHANGED <<present, gpio_timer, gpio_work, rxVars>> /\ UNCHANGED <<bHwRadioOff, want>>
  BY DEF rtl8180_down, SetZebra_registers, SetZebra_state, ifVars, timerVars, rfVars
<1>3. ~up'
  BY DEF rtl8180_down, SetZebra_registers, SetZebra_state, ifVars, IInv, TimersInv, Progress
<1>4. pc'["worker"] = pc["worker"] /\ UserKept
  BY <1>1 DEF rtl8180_down, SetZebra_registers, SetZebra_state, Goto, Process, UserKept,
     Unplugging
<1> QED
  BY <1>2, <1>3, <1>4 DEF DeviceInv, GoneIsQuiet, UnplugKept, ReceiveKept, WorkerKnows,
     RadioKept, UserKept, rxVars

\* Coming up: the radio is on and the URB is sent out.
LEMMA DeviceComesUp ==
    ASSUME IInv, DeviceInv, present, NEW p \in {"user", "events"}, rtl8180_up(p)
    PROVE  DeviceInv'
<1>1. pc \in [Process -> Label] /\ task \in [Process -> Task]
  BY DEF IInv, TypeOK
<1>2. UNCHANGED <<present, gpio_timer, gpio_work, bHwRadioOff, want, eRFPowerState>>
      /\ radio' = "on"
  BY DEF rtl8180_up
<1>3. pc'["worker"] = pc["worker"] /\ UserKept
  BY <1>1 DEF rtl8180_up, Goto, Process, UserKept, Unplugging
<1>4. /\ urb' = "flight" \/ submit_failed'
      /\ urb' = "killed" => urb = "killed"
  BY DEF rtl8180_up, rx_urbsubmit
<1> QED
  BY <1>2, <1>3, <1>4 DEF DeviceInv, GoneIsQuiet, UnplugKept, ReceiveKept, WorkerKnows,
     RadioKept, UserKept

\* The switch.
LEMMA DeviceSwitch ==
    ASSUME IInv, DeviceInv, present, Worker \/ gpio_change_polling
    PROVE  DeviceInv'
<1>1. /\ pc \in [Process -> Label] /\ task \in [Process -> Task]
      /\ bHwRadioOff \in BOOLEAN /\ switch \in Power /\ want \in Power
      /\ eRFPowerState \in Power /\ radio \in Power /\ RfOffReason \subseteq {"HW"}
  BY DEF IInv, TypeOK
<1>2. /\ UNCHANGED <<present, up, gpio_timer, rxVars>>
      /\ gpio_work' => gpio_work \/ gpio_timer
  <2>1. CASE GPIOChangeRFWorkItemCallBack
    <3>1. UNCHANGED <<present, up, gpio_timer, rxVars>> /\ gpio_work' = FALSE
      BY <2>1 DEF GPIOChangeRFWorkItemCallBack, ifVars
    <3> QED
      BY <3>1
  <2>2. CASE MgntActSet_RF_State
    <3>1. UNCHANGED <<present, up, gpio_timer, rxVars, gpio_work>>
      BY <2>2 DEF MgntActSet_RF_State, ifVars, timerVars
    <3> QED
      BY <3>1
  <2>3. CASE SetZebra_registers("worker") \/ SetZebra_state("worker")
    <3>1. UNCHANGED <<present, up, gpio_timer, rxVars, gpio_work>>
      BY <2>3 DEF SetZebra_registers, SetZebra_state, ifVars, timerVars
    <3> QED
      BY <3>1
  <2>4. CASE gpio_change_polling
    <3>1. UNCHANGED <<present, up, gpio_timer, rxVars>> /\ gpio_timer
      BY <2>4 DEF gpio_change_polling, ifVars
    <3> QED
      BY <3>1
  <2> QED
    BY <2>1, <2>2, <2>3, <2>4 DEF Worker
<1>3. pc'["user"] = pc["user"] /\ task'["user"] = task["user"]
  <2>1. CASE GPIOChangeRFWorkItemCallBack
    BY <1>1, <2>1 DEF GPIOChangeRFWorkItemCallBack, Start, Process
  <2>2. CASE MgntActSet_RF_State
    BY <1>1, <2>2 DEF MgntActSet_RF_State, Goto, Idle, Process
  <2>3. CASE SetZebra_registers("worker") \/ SetZebra_state("worker")
    BY <1>1, <2>3 DEF SetZebra_registers, SetZebra_state, Goto, Idle, Process
  <2>4. CASE gpio_change_polling
    BY <2>4 DEF gpio_change_polling, procVars
  <2> QED
    BY <2>1, <2>2, <2>3, <2>4 DEF Worker
<1>4. GoneIsQuiet' /\ UnplugKept' /\ ReceiveKept'
  BY <1>2, <1>3 DEF DeviceInv, GoneIsQuiet, UnplugKept, ReceiveKept, rxVars
<1>5. WorkerKnows' /\ RadioKept'
  <2> USE DEF DeviceInv, WorkerKnows, RadioKept
  <2>1. CASE GPIOChangeRFWorkItemCallBack
    <3>1. /\ pc["worker"] = "idle" /\ want' = switch /\ bHwRadioOff' = (switch = "off")
          /\ UNCHANGED <<radio, eRFPowerState>>
          /\ \/ pc'["worker"] = "mgnt"
             \/ pc'["worker"] = "idle" /\ bHwRadioOff' = bHwRadioOff
      BY <1>1, <2>1 DEF GPIOChangeRFWorkItemCallBack, Start, Process
    <3> QED
      BY <1>2, <3>1
  <2>2. CASE MgntActSet_RF_State
    <3>1. /\ pc["worker"] = "mgnt" /\ UNCHANGED <<bHwRadioOff, want, radio, eRFPowerState>>
          /\ want = eRFPowerState => pc'["worker"] = "idle"
          /\ want # eRFPowerState => pc'["worker"] = "rf_hw"
      BY <1>1, <2>2 DEF MgntActSet_RF_State, Goto, Idle, Process
    <3> QED
      BY <1>2, <3>1
  <2>3. CASE SetZebra_registers("worker")
    <3>1. /\ pc["worker"] = "rf_hw" /\ pc'["worker"] = "rf_state" /\ radio' = want
          /\ UNCHANGED <<bHwRadioOff, want, eRFPowerState>>
      BY <1>1, <2>3 DEF SetZebra_registers, Goto, Process, Target
    <3> QED
      BY <1>2, <3>1
  <2>4. CASE SetZebra_state("worker")
    <3>1. /\ pc["worker"] = "rf_state" /\ pc'["worker"] = "idle" /\ eRFPowerState' = want
          /\ UNCHANGED <<bHwRadioOff, want, radio>>
      BY <1>1, <2>4 DEF SetZebra_state, Idle, Process, Target
    <3> QED
      BY <1>2, <3>1
  <2>5. CASE gpio_change_polling
    BY <1>2, <2>5 DEF gpio_change_polling, rfVars, procVars
  <2> QED
    BY <2>1, <2>2, <2>3, <2>4, <2>5 DEF Worker
<1> QED
  BY <1>4, <1>5 DEF DeviceInv

\* The URB ends, and is sent out again unless it was killed, which is after the end of up.
LEMMA DeviceReceives ==
    ASSUME IInv, DeviceInv, present, rx_isr \/ irq_rx_tasklet \/ irq_rx_resubmit
    PROVE  DeviceInv'
<1>1. UNCHANGED <<ifVars, rfVars, timerVars, procVars>>
  BY DEF rx_isr, irq_rx_tasklet, irq_rx_resubmit
<1>2. GoneIsQuiet' /\ UnplugKept' /\ WorkerKnows' /\ RadioKept'
  BY <1>1 DEF DeviceInv, GoneIsQuiet, UnplugKept, WorkerKnows, RadioKept, ifVars, rfVars,
     timerVars, procVars
<1>3. urb = "killed" => ~up
  BY DEF DeviceInv, ReceiveKept, IInv, Places, UserPlaces, UpIsRunning
<1>4. /\ up => urb' = "flight" \/ tasklet' # {} \/ submit_failed'
      /\ urb' = "killed" => urb = "killed"
  BY <1>3 DEF rx_isr, irq_rx_tasklet, irq_rx_resubmit, rx_urbsubmit
<1>5. ReceiveKept'
  BY <1>1, <1>4 DEF DeviceInv, ReceiveKept, ifVars, procVars
<1> QED
  BY <1>2, <1>5 DEF DeviceInv

\* The end of the device: its works are waited for, and the timers are off since it is down.
LEMMA DeviceGoes ==
    ASSUME IInv, DeviceInv, present, del_gpio_timer \/ deleteendpoints \/ free_ieee80211
    PROVE  DeviceInv'
<1>1. /\ pc \in [Process -> Label] /\ task \in [Process -> Task] /\ up \in BOOLEAN
  BY DEF IInv, TypeOK
<1>2. task["user"] = "disconnect" /\ ~up
  BY DEF del_gpio_timer, deleteendpoints, free_ieee80211, IInv, Places, UserPlaces, UpIsRunning
<1>3. ~up' /\ pc'["worker"] = pc["worker"] /\ UNCHANGED <<bHwRadioOff, want>>
  <2>1. CASE del_gpio_timer
    <3>1. UNCHANGED <<up, bHwRadioOff, want>> /\ pc' = [pc EXCEPT !["user"] = "down"]
      BY <2>1 DEF del_gpio_timer, Goto, ifVars, rfVars
    <3> QED
      BY <1>1, <1>2, <3>1 DEF Process
  <2>2. CASE deleteendpoints
    <3>1. UNCHANGED <<up, bHwRadioOff, want>> /\ pc' = [pc EXCEPT !["user"] = "free"]
      BY <2>2 DEF deleteendpoints, Goto, ifVars
    <3> QED
      BY <1>1, <1>2, <3>1 DEF Process
  <2>3. CASE free_ieee80211
    <3>1. UNCHANGED <<up, bHwRadioOff, want>> /\ pc' = [pc EXCEPT !["user"] = "idle"]
      BY <2>3 DEF free_ieee80211, Idle, rfVars
    <3> QED
      BY <1>1, <1>2, <3>1 DEF Process
  <2> QED
    BY <2>1, <2>2, <2>3
<1>4. WorkerKnows' /\ RadioKept'
  BY <1>3 DEF DeviceInv, WorkerKnows, RadioKept
<1>5. CASE del_gpio_timer
  <2>1. /\ ~gpio_timer' /\ present' /\ urb' = urb
        /\ pc["user"] = "del_gpio"
    BY <1>5 DEF del_gpio_timer, ifVars, rxVars
  <2> QED
    BY <1>3, <1>4, <2>1 DEF DeviceInv, GoneIsQuiet, UnplugKept, ReceiveKept
<1>6. CASE deleteendpoints
  <2>1. /\ UNCHANGED <<gpio_timer, gpio_work>> /\ present'
        /\ pc["user"] = "kill" /\ pc'["user"] = "free"
    BY <1>1, <1>6 DEF deleteendpoints, ifVars, timerVars, Goto, Process
  <2> QED
    BY <1>2, <1>3, <1>4, <2>1 DEF DeviceInv, GoneIsQuiet, UnplugKept, ReceiveKept, Unplugging
<1>7. CASE free_ieee80211
  <2>1. /\ UNCHANGED <<timerVars, rxVars>> /\ ~present' /\ task'["user"] = "none"
        /\ pc["user"] = "free" /\ pc["worker"] = "idle" /\ ~gpio_work /\ works = {}
    BY <1>1, <1>7 DEF free_ieee80211, Idle, Process
  <2>2. ~gpio_timer
    BY <1>2, <2>1 DEF DeviceInv, UnplugKept, Unplugging
  <2>3. \A t \in Timers : timer[t] = "off"
    <3>1. ~Between
      BY <1>2, <2>1 DEF IInv, TimersInv, Between, Progress, Places, EventsPlaces
    <3> QED
      BY <1>2, <3>1 DEF IInv, TimersInv, TimersMatchUp, TimersOff
  <2> QED
    BY <1>3, <1>4, <2>1, <2>2, <2>3
       DEF DeviceInv, GoneIsQuiet, UnplugKept, ReceiveKept, Unplugging, timerVars, rxVars
<1> QED
  BY <1>5, <1>6, <1>7

LEMMA DeviceStep ==
    ASSUME IInv, DeviceInv, [Next]_vars PROVE DeviceInv'
<1>1. CASE UNCHANGED vars
  BY <1>1 DEF vars, ifVars, rfVars, timerVars, rxVars, procVars, DeviceInv, GoneIsQuiet,
     UnplugKept, ReceiveKept, WorkerKnows, RadioKept
<1>2. CASE present /\ User
  BY <1>2, DeviceUserBegins
<1>3. CASE present /\ UserGoesOn
  BY <1>3, DeviceStaysQuiet, DeviceGoesDown, DeviceComesUp, DeviceGoes DEF UserGoesOn
<1>4. CASE present /\ (rtl8180_restart \/ RestartGoesOn)
  BY <1>4, DeviceStaysQuiet, DeviceComesUp DEF RestartGoesOn
<1>5. CASE present /\ (Worker \/ gpio_change_polling)
  BY <1>5, DeviceSwitch
<1>6. CASE present /\ (rx_isr \/ irq_rx_tasklet \/ irq_rx_resubmit)
  BY <1>6, DeviceReceives
<1>7. CASE present /\ \E t \in Timers : timer_fires(t) \/ timer_rearms(t) \/ timer_work(t)
  BY <1>7, DeviceStaysQuiet
<1> QED
  BY <1>1, <1>2, <1>3, <1>4, <1>5, <1>6, <1>7 DEF Next, Unplugged

LEMMA DeviceHolds == Spec => []DeviceInv
<1>1. Init => DeviceInv
  BY DEF Init, rtl8180_init, DeviceInv, GoneIsQuiet, UnplugKept, Unplugging, ReceiveKept,
     WorkerKnows, RadioKept, Process
<1>2. IInv /\ DeviceInv /\ [Next]_vars => DeviceInv'
  BY DeviceStep
<1> QED
  BY <1>1, <1>2, Invariant, PTL DEF Spec

\* An interface in use has its radio on unless the switch was read as off: whatever the order of the
\* work of the switch and of a close and an open, which do not exclude each other.
THEOREM RadioOnWhileUsed == Spec => []RadioOnInUse
<1>1. TypeOK /\ DeviceInv => RadioOnInUse
  BY DEF TypeOK, Power, DeviceInv, RadioKept, RadioOnInUse
<1> QED
  BY <1>1, TypeCorrect, DeviceHolds, PTL

\* An interface that is up receives: rtl8187_rx_initiate, rtl8180_irq_rx_tasklet.
THEOREM ReceivesWhileUp == Spec => []ReceiveArmed
<1>1. DeviceInv => ReceiveArmed
  BY DEF DeviceInv, ReceiveKept, ReceiveArmed
<1> QED
  BY <1>1, DeviceHolds, PTL

\* Nothing that works on the device outlives it: rtl8187_usb_disconnect.
THEOREM NothingOutlivesDevice == Spec => []GoneIsQuiet
<1>1. DeviceInv => GoneIsQuiet
  BY DEF DeviceInv
<1> QED
  BY <1>1, DeviceHolds, PTL
=============================================================================
