--------------------------- MODULE Softmac_proofs ---------------------------
(***************************************************************************)
(* wx_sem is released as often as it is taken, the handshake is timed and  *)
(* undisturbed, and a linked station gets its carrier: for every set of    *)
(* modes and requests, and every number of channels.                       *)
(***************************************************************************)
EXTENDS Softmac, FiniteSetTheorems, TLAPS

\* The queue of works, and the rest of the types.
QueueOK ==
    /\ wq \in Seq(Work) /\ IsInjective(wq)
    /\ delayed \subseteq DelayedWork
    /\ delayed \cap ToSet(wq) = {}

Queued(w) == w \in ToSet(wq)

\* The two works whose being queued matters to the rest are queued as before.
SameQueued ==
    (Queued("sync")' <=> Queued("sync")) /\ (Queued("complete")' <=> Queued("complete"))

FlagTypes ==
    /\ state \in State /\ iw_mode \in Modes
    /\ proto_started \in BOOLEAN /\ wanted \in BOOLEAN /\ scanning \in BOOLEAN
    /\ hurryup \in BOOLEAN /\ carrier \in BOOLEAN /\ assoc_timer \in BOOLEAN
    /\ up \in BOOLEAN /\ joined \in BOOLEAN
CountTypes == wx_sem \in 0 .. 1 /\ scan_sem \in 0 .. 1 /\ ch \in 0 .. Channels
ProcTypes ==
    /\ pc \in [Process -> Label]
    /\ task \in [Process -> Work \cup UserOps \cup {"none", "up", "restop", "gpio"}]
Types == FlagTypes /\ CountTypes /\ ProcTypes

\* Where the two processes can be, and in what.
WorkerPlaces ==
    /\ pc["worker"] \in {"idle", "wx", "stop_scan", "step1", "arm", "start", "syncro",
                         "tune", "linked", "disassoc", "forget"}
    /\ task["worker"] # "scan" /\ task["worker"] # "mlme"
    /\ task["worker"] = "gpio" <=> pc["worker"] \in {"disassoc", "forget"}
UserPlaces ==
    /\ pc["user"] \in Label \ {"step1", "arm", "linked"} /\ task["user"] # "gpio"
    /\ pc["user"] \in {"syncro", "tune", "queue_sync"} => task["user"] = "scan"
    /\ task["user"] = "scan" => pc["user"] \in {"wx", "syncro", "tune", "queue_sync"}
    /\ task["user"] = "mlme" => pc["user"] \in {"disassoc", "forget"}

\* Who is between down and up of ieee->wx_sem: at most one of the worker, the user and
\* the queued scan, and then the semaphore is taken.
WorkerHolds ==
    pc["worker"] \in {"stop_scan", "step1", "arm", "start", "syncro", "tune", "linked"}
UserHolds ==
    \/ pc["user"] \in {"stop_scan", "start", "apply", "start_protocol", "queue_sync"}
    \/ pc["user"] \in {"disassoc", "forget"} /\ task["user"] # "mlme"
Exclusion ==
    /\ ~(WorkerHolds /\ UserHolds) /\ ~(Queued("sync") /\ (WorkerHolds \/ UserHolds))
    /\ wx_sem = IF WorkerHolds \/ UserHolds \/ Queued("sync") THEN 0 ELSE 1

\* The scan stays off between stop_scan and the state that keeps it off.
ScanOff == pc["worker"] = "step1" => ~scanning

\* Only a station that runs the protocol of infrastructure mode, or is leaving it, is joined.
JoinedRuns ==
    /\ iw_mode # "INFRA" => ~joined
    /\ ~proto_started => ~joined \/ pc["user"] \in {"stop_scan", "disassoc"}
    /\ pc["user"] \in {"stop_scan", "apply", "start_protocol"} => ~proto_started
    /\ pc["user"] \in {"disassoc", "forget"} /\ task["user"] # "mlme" => ~proto_started

CarrierComes ==
    state = "LINKED" /\ iw_mode = "INFRA" /\ joined => carrier \/ Queued("complete")

Order == WorkerPlaces /\ UserPlaces /\ Exclusion
Link == ScanOff /\ NoAsyncScanInHandshake /\ HandshakeIsTimed /\ JoinedRuns /\ CarrierComes
IInv == QueueOK /\ Types /\ Order /\ Link

-----------------------------------------------------------------------------
\* What the operations on the queue do.
LEMMA AppendWork ==
    ASSUME NEW q \in Seq(Work), IsInjective(q), NEW w \in Work, w \notin ToSet(q)
    PROVE  /\ Append(q, w) \in Seq(Work) /\ IsInjective(Append(q, w))
           /\ ToSet(Append(q, w)) = ToSet(q) \cup {w}
<1> DEFINE r == Append(q, w)
<1>1. /\ r \in Seq(Work) /\ Len(r) = Len(q) + 1 /\ r[Len(q) + 1] = w
      /\ \A i \in 1 .. Len(q) : r[i] = q[i]
  OBVIOUS
<1>2. DOMAIN r = 1 .. Len(q) + 1 /\ DOMAIN q = 1 .. Len(q) /\ Len(q) \in Nat
  OBVIOUS
<1> HIDE DEF r
<1>3. IsInjective(r)
  BY <1>1, <1>2 DEF IsInjective, ToSet
<1>4. ToSet(r) = ToSet(q) \cup {w}
  BY <1>1, <1>2 DEF ToSet
<1> QED
  BY <1>1, <1>3, <1>4 DEF r

LEMMA TailWork ==
    ASSUME NEW q \in Seq(Work), IsInjective(q), q # <<>>
    PROVE  /\ Tail(q) \in Seq(Work) /\ IsInjective(Tail(q))
           /\ ToSet(Tail(q)) = ToSet(q) \ {Head(q)} /\ Head(q) \in ToSet(q)
<1> DEFINE r == Tail(q)
<1>1. /\ r \in Seq(Work) /\ Len(r) = Len(q) - 1 /\ Head(q) = q[1]
      /\ \A i \in 1 .. Len(q) - 1 : r[i] = q[i + 1]
  OBVIOUS
<1>2. /\ DOMAIN r = 1 .. Len(q) - 1 /\ DOMAIN q = 1 .. Len(q)
      /\ Len(q) \in Nat /\ Len(q) > 0
  BY <1>1
<1> HIDE DEF r
<1>3. IsInjective(r)
  <2> SUFFICES ASSUME NEW i \in 1 .. Len(q) - 1, NEW j \in 1 .. Len(q) - 1, r[i] = r[j]
               PROVE  i = j
    BY <1>2 DEF IsInjective
  <2>1. q[i + 1] = q[j + 1] /\ i + 1 \in DOMAIN q /\ j + 1 \in DOMAIN q
    BY <1>1, <1>2
  <2> QED
    BY <2>1, <1>2 DEF IsInjective
<1>4. \A i \in 2 .. Len(q) : q[i] # q[1]
  BY <1>2 DEF IsInjective
<1>5. \A x \in ToSet(r) : x \in ToSet(q) /\ x # q[1]
  BY <1>1, <1>2, <1>4 DEF ToSet
<1>6. \A x \in ToSet(q) : x # q[1] => x \in ToSet(r)
  <2> SUFFICES ASSUME NEW i \in 1 .. Len(q), q[i] # q[1] PROVE q[i] \in ToSet(r)
    BY <1>2 DEF ToSet
  <2>1. i - 1 \in 1 .. Len(q) - 1 /\ r[i - 1] = q[i]
    BY <1>1, <1>2
  <2> QED
    BY <2>1, <1>2 DEF ToSet
<1>7. q[1] \in ToSet(q)
  BY <1>2 DEF ToSet
<1> QED
  BY <1>1, <1>3, <1>5, <1>6, <1>7 DEF r

LEMMA KeepQueue ==
    ASSUME QueueOK, wq' = wq, delayed' \subseteq delayed
    PROVE  QueueOK' /\ SameQueued
  BY DEF QueueOK, SameQueued, Queued

LEMMA QueueWork ==
    ASSUME QueueOK, NEW w \in Work, wq' = queue_work(w), delayed' = delayed
    PROVE  /\ QueueOK'
           /\ Queued("sync")' <=> (Queued("sync") \/ w = "sync")
           /\ Queued("complete")' <=> (Queued("complete") \/ w = "complete")
<1>1. CASE w \in delayed \cup ToSet(wq)
  <2>1. wq' = wq
    BY <1>1 DEF queue_work
  <2>2. w \in {"sync", "complete"} => w \in ToSet(wq)
    BY <1>1 DEF QueueOK, DelayedWork
  <2> QED
    BY <2>1, <2>2 DEF QueueOK, Queued
<1>2. CASE w \notin delayed \cup ToSet(wq)
  <2>1. wq' = Append(wq, w)
    BY <1>2 DEF queue_work
  <2>2. wq' \in Seq(Work) /\ IsInjective(wq') /\ ToSet(wq') = ToSet(wq) \cup {w}
    BY <1>2, <2>1, AppendWork DEF QueueOK
  <2> QED
    BY <1>2, <2>2 DEF QueueOK, Queued
<1> QED
  BY <1>1, <1>2

LEMMA DelayWork ==
    ASSUME QueueOK, NEW w \in DelayedWork, delayed' = queue_delayed_work(w), wq' = wq
    PROVE  QueueOK' /\ SameQueued
  BY DEF QueueOK, SameQueued, Queued, queue_delayed_work

LEMMA TimerWork ==
    ASSUME QueueOK, delayed_work_timer_fn
    PROVE  QueueOK' /\ SameQueued
<1> PICK w \in delayed : delayed' = delayed \ {w} /\ wq' = Append(wq, w)
  BY DEF delayed_work_timer_fn
<1>1. w \in DelayedWork /\ w \in Work /\ w \notin ToSet(wq)
  BY DEF QueueOK, Work
<1>2. wq' \in Seq(Work) /\ IsInjective(wq') /\ ToSet(wq') = ToSet(wq) \cup {w}
  BY <1>1, AppendWork DEF QueueOK
<1> QED
  BY <1>1, <1>2 DEF QueueOK, SameQueued, Queued, DelayedWork

LEMMA TakeWork ==
    ASSUME QueueOK, NEW w \in Work, NEW label, Take(w, label),
           delayed' \subseteq delayed \cup {w}, delayed' \subseteq DelayedWork
    PROVE  /\ QueueOK' /\ Queued(w)
           /\ Queued("sync")' <=> (Queued("sync") /\ w # "sync")
           /\ Queued("complete")' <=> (Queued("complete") /\ w # "complete")
<1>1. wq \in Seq(Work) /\ IsInjective(wq) /\ wq # <<>> /\ Head(wq) = w /\ wq' = Tail(wq)
  BY DEF QueueOK, Take
<1>2. /\ wq' \in Seq(Work) /\ IsInjective(wq')
      /\ ToSet(wq') = ToSet(wq) \ {w} /\ w \in ToSet(wq)
  BY <1>1, TailWork
<1> QED
  BY <1>2 DEF QueueOK, Queued

LEMMA AbortWork ==
    ASSUME QueueOK, wq' = wq, delayed' = delayed \/ delayed' = queue_delayed_work("retry")
    PROVE  QueueOK' /\ SameQueued
  BY KeepQueue, DelayWork DEF DelayedWork

\* The works that are queued, or found queued.
LEMMA ProcedureWork ==
    ASSUME QueueOK, wq' = wq \/ wq' = queue_work("procedure"), delayed' = delayed
    PROVE  QueueOK' /\ SameQueued
<1>1. CASE wq' = wq
  BY <1>1, KeepQueue
<1>2. CASE wq' = queue_work("procedure")
  <2>1. "procedure" \in Work
    BY DEF Work
  <2> QED
    BY <1>2, <2>1, QueueWork DEF SameQueued
<1> QED
  BY <1>1, <1>2

LEMMA ScanWork ==
    ASSUME QueueOK, wq' = wq \/ wq' = queue_work("scan"), delayed' = delayed
    PROVE  QueueOK' /\ SameQueued
<1>1. CASE wq' = wq
  BY <1>1, KeepQueue
<1>2. CASE wq' = queue_work("scan")
  <2>1. "scan" \in Work
    BY DEF Work, DelayedWork
  <2> QED
    BY <1>2, <2>1, QueueWork DEF SameQueued
<1> QED
  BY <1>1, <1>2

LEMMA CompleteWork ==
    ASSUME QueueOK, wq' = queue_work("complete"), delayed' = delayed
    PROVE  QueueOK' /\ (Queued("sync")' <=> Queued("sync")) /\ Queued("complete")'
<1>1. "complete" \in Work
  BY DEF Work
<1> QED
  BY <1>1, QueueWork

LEMMA SyncWork ==
    ASSUME QueueOK, wq' = queue_work("sync"), delayed' = delayed
    PROVE  QueueOK' /\ Queued("sync")' /\ (Queued("complete")' <=> Queued("complete"))
<1>1. "sync" \in Work
  BY DEF Work
<1> QED
  BY <1>1, QueueWork

\* A network is seen, from the state st.
LEMMA NewNet ==
    ASSUME QueueOK, NEW st, NEW match, new_net(st, match), delayed' = delayed
    PROVE  /\ QueueOK' /\ SameQueued
           /\ \/ state' = st
              \/ state' = "ASSOCIATING" /\ iw_mode = "INFRA" /\ st = "NOLINK"
              \/ state' = "LINKED" /\ iw_mode # "INFRA" /\ st = "NOLINK"
<1>1. wq' = wq \/ wq' = queue_work("procedure")
  BY DEF new_net
<1>2. QueueOK' /\ SameQueued
  BY <1>1, ProcedureWork
<1>3. \/ state' = st
      \/ state' = "ASSOCIATING" /\ iw_mode = "INFRA" /\ st = "NOLINK"
      \/ state' = "LINKED" /\ iw_mode # "INFRA" /\ st = "NOLINK"
  BY DEF new_net
<1> QED
  BY <1>2, <1>3

\* A frame arrives.
LEMMA ReceptionKeeps ==
    ASSUME IInv, Reception PROVE IInv'
<1> USE DEF IInv, linkVars, confVars, scanVars, workVars, procVars, Goto, Types, ProcTypes,
       Process, Order, WorkerPlaces, UserPlaces, Exclusion, WorkerHolds, UserHolds,
       SameQueued
<1>1. CASE rx_new_net
  <2>1. QueueOK' /\ SameQueued
        /\ \/ state' = state
           \/ state' = "ASSOCIATING" /\ iw_mode = "INFRA"
           \/ state' = "LINKED" /\ iw_mode # "INFRA"
    BY <1>1, NewNet DEF rx_new_net
  <2>2. FlagTypes'
    BY <1>1, <2>1 DEF FlagTypes, State, rx_new_net
  <2>3. CountTypes'
    BY <1>1, <2>1 DEF CountTypes, rx_new_net
  <2>4. ProcTypes'
    BY <1>1, <2>1 DEF Label, rx_new_net
  <2>5. Order'
    BY <1>1, <2>1 DEF Label, rx_new_net
  <2>6. Link'
    BY <1>1, <2>1 DEF Link, ScanOff, NoAsyncScanInHandshake, HandshakeIsTimed,
       JoinedRuns, CarrierComes, FlagTypes, rx_new_net
  <2> QED
    BY <2>1, <2>2, <2>3, <2>4, <2>5, <2>6
<1>2. CASE rx_auth
  <2>1. QueueOK' /\ SameQueued
    <3>1. wq' = wq /\ (delayed' = delayed \/ delayed' = queue_delayed_work("retry"))
      BY <1>2 DEF rx_auth, associate_step2, auth_challenge, associate_abort
    <3> QED
      BY <3>1, AbortWork
  <2>2. FlagTypes'
    BY <1>2, <2>1 DEF FlagTypes, State, rx_auth, associate_step2, auth_challenge,
       associate_abort, Receives
  <2>3. CountTypes'
    BY <1>2, <2>1 DEF CountTypes, rx_auth, associate_step2, auth_challenge,
       associate_abort, Receives
  <2>4. ProcTypes'
    BY <1>2, <2>1 DEF Label, rx_auth, associate_step2, auth_challenge, associate_abort,
       Receives
  <2>5. Order'
    BY <1>2, <2>1 DEF Label, rx_auth, associate_step2, auth_challenge, associate_abort,
       Receives
  <2>6. Link'
    BY <1>2, <2>1 DEF Link, ScanOff, NoAsyncScanInHandshake, HandshakeIsTimed,
       JoinedRuns, CarrierComes, FlagTypes, rx_auth, associate_step2, auth_challenge,
       associate_abort, Receives
  <2> QED
    BY <2>1, <2>2, <2>3, <2>4, <2>5, <2>6
<1>3. CASE rx_assoc_resp
  <2>1. /\ QueueOK' /\ (Queued("sync")' <=> Queued("sync"))
        /\ Queued("complete")' \/ state' = "RETRY"
    <3>1. \/ wq' = queue_work("complete") /\ delayed' = delayed
          \/ wq' = wq /\ delayed' = queue_delayed_work("retry") /\ state' = "RETRY"
      BY <1>3 DEF rx_assoc_resp, associate_complete, associate_abort
    <3> QED
      BY <3>1, AbortWork, CompleteWork DEF SameQueued
  <2>2. FlagTypes'
    BY <1>3, <2>1 DEF FlagTypes, State, rx_assoc_resp, associate_complete,
       associate_abort, Receives
  <2>3. CountTypes'
    BY <1>3, <2>1 DEF CountTypes, rx_assoc_resp, associate_complete, associate_abort,
       Receives
  <2>4. ProcTypes'
    BY <1>3, <2>1 DEF Label, rx_assoc_resp, associate_complete, associate_abort, Receives
  <2>5. Order'
    BY <1>3, <2>1 DEF Label, rx_assoc_resp, associate_complete, associate_abort, Receives
  <2>6. Link'
    BY <1>3, <2>1 DEF Link, ScanOff, NoAsyncScanInHandshake, HandshakeIsTimed,
       JoinedRuns, CarrierComes, FlagTypes, rx_assoc_resp, associate_complete,
       associate_abort, Receives
  <2> QED
    BY <2>1, <2>2, <2>3, <2>4, <2>5, <2>6
<1>4. CASE rx_disassoc
  <2>1. QueueOK' /\ SameQueued
    <3>1. (wq' = wq \/ wq' = queue_work("procedure")) /\ delayed' = delayed
      BY <1>4 DEF rx_disassoc
    <3> QED
      BY <3>1, ProcedureWork
  <2>2. FlagTypes'
    BY <1>4, <2>1 DEF FlagTypes, State, rx_disassoc, Receives
  <2>3. CountTypes'
    BY <1>4, <2>1 DEF CountTypes, rx_disassoc, Receives
  <2>4. ProcTypes'
    BY <1>4, <2>1 DEF Label, rx_disassoc, Receives
  <2>5. Order'
    BY <1>4, <2>1 DEF Label, rx_disassoc, Receives
  <2>6. Link'
    BY <1>4, <2>1 DEF Link, ScanOff, NoAsyncScanInHandshake, HandshakeIsTimed,
       JoinedRuns, CarrierComes, FlagTypes, rx_disassoc, Receives
  <2> QED
    BY <2>1, <2>2, <2>3, <2>4, <2>5, <2>6
<1> QED
  BY <1>1, <1>2, <1>3, <1>4 DEF Reception

\* A timer runs out.
LEMMA TimersKeeps ==
    ASSUME IInv, Timers PROVE IInv'
<1> USE DEF IInv, linkVars, confVars, scanVars, workVars, procVars, Goto, Types, ProcTypes,
       Process, Order, WorkerPlaces, UserPlaces, Exclusion, WorkerHolds, UserHolds,
       SameQueued
<1>1. CASE associate_abort_cb
  <2>1. QueueOK' /\ SameQueued
    BY <1>1, AbortWork DEF associate_abort_cb, associate_abort
  <2>2. FlagTypes'
    BY <1>1, <2>1 DEF FlagTypes, State, associate_abort_cb, associate_abort
  <2>3. CountTypes'
    BY <1>1, <2>1 DEF CountTypes, associate_abort_cb, associate_abort
  <2>4. ProcTypes'
    BY <1>1, <2>1 DEF Label, associate_abort_cb, associate_abort
  <2>5. Order'
    BY <1>1, <2>1 DEF Label, associate_abort_cb, associate_abort
  <2>6. Link'
    BY <1>1, <2>1 DEF Link, ScanOff, NoAsyncScanInHandshake, HandshakeIsTimed,
       JoinedRuns, CarrierComes, FlagTypes, associate_abort_cb, associate_abort
  <2> QED
    BY <2>1, <2>2, <2>3, <2>4, <2>5, <2>6
<1>2. CASE delayed_work_timer_fn
  <2>1. QueueOK' /\ SameQueued
    BY <1>2, TimerWork
  <2>2. FlagTypes'
    BY <1>2, <2>1 DEF FlagTypes, State, delayed_work_timer_fn
  <2>3. CountTypes'
    BY <1>2, <2>1 DEF CountTypes, delayed_work_timer_fn
  <2>4. ProcTypes'
    BY <1>2, <2>1 DEF Label, delayed_work_timer_fn
  <2>5. Order'
    BY <1>2, <2>1 DEF Label, delayed_work_timer_fn
  <2>6. Link'
    BY <1>2, <2>1 DEF Link, ScanOff, NoAsyncScanInHandshake, HandshakeIsTimed,
       JoinedRuns, CarrierComes, FlagTypes, delayed_work_timer_fn
  <2> QED
    BY <2>1, <2>2, <2>3, <2>4, <2>5, <2>6
<1> QED
  BY <1>1, <1>2 DEF Timers

\* A step of the worker.
LEMMA WorkerKeeps ==
    ASSUME IInv, Worker PROVE IInv'
<1> USE DEF IInv, linkVars, confVars, scanVars, workVars, procVars, Goto, Types, ProcTypes,
       Process, Order, WorkerPlaces, UserPlaces, Exclusion, WorkerHolds, UserHolds,
       SameQueued
<1>1. CASE associate_procedure_wq
  <2>1. /\ QueueOK' /\ Queued("procedure")
        /\ Queued("sync")' <=> Queued("sync")
        /\ Queued("complete")' <=> Queued("complete")
    <3>1. /\ Take("procedure", "wx") /\ "procedure" \in Work
          /\ delayed' \subseteq delayed \cup {"procedure"} /\ delayed' \subseteq DelayedWork
      BY <1>1 DEF associate_procedure_wq, QueueOK, Work, DelayedWork
    <3> QED
      BY <3>1, TakeWork
  <2>2. FlagTypes'
    BY <1>1, <2>1 DEF FlagTypes, State, associate_procedure_wq, Take
  <2>3. CountTypes'
    BY <1>1, <2>1 DEF CountTypes, associate_procedure_wq, Take
  <2>4. ProcTypes'
    BY <1>1, <2>1 DEF Label, associate_procedure_wq, Take, Work, DelayedWork
  <2>5. Order'
    BY <1>1, <2>1 DEF Label, associate_procedure_wq, Take
  <2>6. Link'
    BY <1>1, <2>1 DEF Link, ScanOff, NoAsyncScanInHandshake, HandshakeIsTimed,
       JoinedRuns, CarrierComes, FlagTypes, associate_procedure_wq, Take
  <2> QED
    BY <2>1, <2>2, <2>3, <2>4, <2>5, <2>6
<1>2. CASE associate_procedure
  <2>1. QueueOK' /\ SameQueued
    BY <1>2, KeepQueue DEF associate_procedure
  <2>2. FlagTypes'
    BY <1>2, <2>1 DEF FlagTypes, State, associate_procedure, Hold, Up, Down
  <2>3. CountTypes'
    BY <1>2, <2>1 DEF CountTypes, associate_procedure, Hold, Up, Down
  <2>4. ProcTypes'
    BY <1>2, <2>1 DEF Label, associate_procedure, Hold, Up, Down
  <2>5. Order'
    BY <1>2, <2>1 DEF Label, associate_procedure, Hold, Up, Down
  <2>6. Link'
    BY <1>2, <2>1 DEF Link, ScanOff, NoAsyncScanInHandshake, HandshakeIsTimed,
       JoinedRuns, CarrierComes, FlagTypes, associate_procedure, Hold, Up, Down
  <2> QED
    BY <2>1, <2>2, <2>3, <2>4, <2>5, <2>6
<1>3. CASE associate_step1
  <2>1. QueueOK' /\ SameQueued
    <3>1. wq' = wq /\ (delayed' = delayed \/ delayed' = queue_delayed_work("retry"))
      BY <1>3 DEF associate_step1, associate_abort
    <3> QED
      BY <3>1, AbortWork
  <2>2. FlagTypes'
    BY <1>3, <2>1 DEF FlagTypes, State, associate_step1, associate_abort, Hold, Up
  <2>3. CountTypes'
    BY <1>3, <2>1 DEF CountTypes, associate_step1, associate_abort, Hold, Up
  <2>4. ProcTypes'
    BY <1>3, <2>1 DEF Label, associate_step1, associate_abort, Hold, Up
  <2>5. Order'
    BY <1>3, <2>1 DEF Label, associate_step1, associate_abort, Hold, Up
  <2>6. Link'
    BY <1>3, <2>1 DEF Link, ScanOff, NoAsyncScanInHandshake, HandshakeIsTimed,
       JoinedRuns, CarrierComes, FlagTypes, associate_step1, associate_abort, Hold, Up
  <2> QED
    BY <2>1, <2>2, <2>3, <2>4, <2>5, <2>6
<1>4. CASE associate_step1_arm
  <2>1. QueueOK' /\ SameQueued
    BY <1>4, KeepQueue DEF associate_step1_arm
  <2>2. FlagTypes'
    BY <1>4, <2>1 DEF FlagTypes, State, associate_step1_arm, Hold, Up, Down
  <2>3. CountTypes'
    BY <1>4, <2>1 DEF CountTypes, associate_step1_arm, Hold, Up, Down
  <2>4. ProcTypes'
    BY <1>4, <2>1 DEF Label, associate_step1_arm, Hold, Up, Down
  <2>5. Order'
    BY <1>4, <2>1 DEF Label, associate_step1_arm, Hold, Up, Down
  <2>6. Link'
    BY <1>4, <2>1 DEF Link, ScanOff, NoAsyncScanInHandshake, HandshakeIsTimed,
       JoinedRuns, CarrierComes, FlagTypes, associate_step1_arm, Hold, Up, Down
  <2> QED
    BY <2>1, <2>2, <2>3, <2>4, <2>5, <2>6
<1>5. CASE associate_complete_wq
  <2>1. /\ QueueOK' /\ Queued("complete")
        /\ Queued("sync")' <=> Queued("sync")
        /\ Queued("complete")' <=> FALSE
    <3>1. /\ Take("complete", "idle") /\ "complete" \in Work
          /\ delayed' \subseteq delayed \cup {"complete"} /\ delayed' \subseteq DelayedWork
      BY <1>5 DEF associate_complete_wq, QueueOK, Work, DelayedWork
    <3> QED
      BY <3>1, TakeWork
  <2>2. FlagTypes'
    BY <1>5, <2>1 DEF FlagTypes, State, associate_complete_wq, Take
  <2>3. CountTypes'
    BY <1>5, <2>1 DEF CountTypes, associate_complete_wq, Take
  <2>4. ProcTypes'
    BY <1>5, <2>1 DEF Label, associate_complete_wq, Take, Work, DelayedWork
  <2>5. Order'
    BY <1>5, <2>1 DEF Label, associate_complete_wq, Take
  <2>6. Link'
    BY <1>5, <2>1 DEF Link, ScanOff, NoAsyncScanInHandshake, HandshakeIsTimed,
       JoinedRuns, CarrierComes, FlagTypes, associate_complete_wq, Take
  <2> QED
    BY <2>1, <2>2, <2>3, <2>4, <2>5, <2>6
<1>6. CASE associate_retry_wq
  <2>1. /\ QueueOK' /\ Queued("retry")
        /\ Queued("sync")' <=> Queued("sync")
        /\ Queued("complete")' <=> Queued("complete")
    <3>1. /\ Take("retry", "wx") /\ "retry" \in Work
          /\ delayed' \subseteq delayed \cup {"retry"} /\ delayed' \subseteq DelayedWork
      BY <1>6 DEF associate_retry_wq, QueueOK, Work, DelayedWork
    <3> QED
      BY <3>1, TakeWork
  <2>2. FlagTypes'
    BY <1>6, <2>1 DEF FlagTypes, State, associate_retry_wq, Take
  <2>3. CountTypes'
    BY <1>6, <2>1 DEF CountTypes, associate_retry_wq, Take
  <2>4. ProcTypes'
    BY <1>6, <2>1 DEF Label, associate_retry_wq, Take, Work, DelayedWork
  <2>5. Order'
    BY <1>6, <2>1 DEF Label, associate_retry_wq, Take
  <2>6. Link'
    BY <1>6, <2>1 DEF Link, ScanOff, NoAsyncScanInHandshake, HandshakeIsTimed,
       JoinedRuns, CarrierComes, FlagTypes, associate_retry_wq, Take
  <2> QED
    BY <2>1, <2>2, <2>3, <2>4, <2>5, <2>6
<1>7. CASE associate_retry
  <2>1. /\ QueueOK' /\ SameQueued
        /\ \/ state' = "NOLINK" \/ UNCHANGED state
           \/ state' = "ASSOCIATING" /\ iw_mode = "INFRA"
           \/ state' = "LINKED" /\ iw_mode # "INFRA"
    BY <1>7, NewNet, KeepQueue DEF associate_retry
  <2>2. FlagTypes'
    BY <1>7, <2>1 DEF FlagTypes, State, associate_retry, Hold, Up, Down
  <2>3. CountTypes'
    BY <1>7, <2>1 DEF CountTypes, associate_retry, Hold, Up, Down
  <2>4. ProcTypes'
    BY <1>7, <2>1 DEF Label, associate_retry, Hold, Up, Down
  <2>5. Order'
    BY <1>7, <2>1 DEF Label, associate_retry, Hold, Up, Down
  <2>6. Link'
    BY <1>7, <2>1 DEF Link, ScanOff, NoAsyncScanInHandshake, HandshakeIsTimed,
       JoinedRuns, CarrierComes, FlagTypes, associate_retry, Hold, Up, Down
  <2> QED
    BY <2>1, <2>2, <2>3, <2>4, <2>5, <2>6
<1>8. CASE softmac_scan_wq
  <2>1. /\ QueueOK' /\ Queued("scan")
        /\ Queued("sync")' <=> Queued("sync")
        /\ Queued("complete")' <=> Queued("complete")
    <3>1. /\ Take("scan", "idle") /\ "scan" \in Work
          /\ delayed' \subseteq delayed \cup {"scan"} /\ delayed' \subseteq DelayedWork
      BY <1>8 DEF softmac_scan_wq, QueueOK, Work, DelayedWork
    <3> QED
      BY <3>1, TakeWork
  <2>2. FlagTypes'
    BY <1>8, <2>1 DEF FlagTypes, State, softmac_scan_wq, Take
  <2>3. CountTypes'
    BY <1>8, <2>1 DEF CountTypes, softmac_scan_wq, Take
  <2>4. ProcTypes'
    BY <1>8, <2>1 DEF Label, softmac_scan_wq, Take, Work, DelayedWork
  <2>5. Order'
    BY <1>8, <2>1 DEF Label, softmac_scan_wq, Take
  <2>6. Link'
    BY <1>8, <2>1 DEF Link, ScanOff, NoAsyncScanInHandshake, HandshakeIsTimed,
       JoinedRuns, CarrierComes, FlagTypes, softmac_scan_wq, Take
  <2> QED
    BY <2>1, <2>2, <2>3, <2>4, <2>5, <2>6
<1>9. CASE wx_sync_scan_wq
  <2>1. /\ QueueOK' /\ Queued("sync")
        /\ Queued("sync")' <=> FALSE
        /\ Queued("complete")' <=> Queued("complete")
    <3>1. /\ Take("sync", "syncro") /\ "sync" \in Work
          /\ delayed' \subseteq delayed \cup {"sync"} /\ delayed' \subseteq DelayedWork
      BY <1>9 DEF wx_sync_scan_wq, QueueOK, Work, DelayedWork
    <3> QED
      BY <3>1, TakeWork
  <2>2. FlagTypes'
    BY <1>9, <2>1 DEF FlagTypes, State, wx_sync_scan_wq, Take
  <2>3. CountTypes'
    BY <1>9, <2>1 DEF CountTypes, wx_sync_scan_wq, Take
  <2>4. ProcTypes'
    BY <1>9, <2>1 DEF Label, wx_sync_scan_wq, Take, Work, DelayedWork
  <2>5. Order'
    BY <1>9, <2>1 DEF Label, wx_sync_scan_wq, Take
  <2>6. Link'
    BY <1>9, <2>1 DEF Link, ScanOff, NoAsyncScanInHandshake, HandshakeIsTimed,
       JoinedRuns, CarrierComes, FlagTypes, wx_sync_scan_wq, Take
  <2> QED
    BY <2>1, <2>2, <2>3, <2>4, <2>5, <2>6
<1>10. CASE start_ibss_wq
  <2>1. /\ QueueOK' /\ Queued("ibss")
        /\ Queued("sync")' <=> Queued("sync")
        /\ Queued("complete")' <=> Queued("complete")
    <3>1. /\ Take("ibss", "wx") /\ "ibss" \in Work
          /\ delayed' \subseteq delayed \cup {"ibss"} /\ delayed' \subseteq DelayedWork
      BY <1>10 DEF start_ibss_wq, QueueOK, Work, DelayedWork
    <3> QED
      BY <3>1, TakeWork
  <2>2. FlagTypes'
    BY <1>10, <2>1 DEF FlagTypes, State, start_ibss_wq, Take
  <2>3. CountTypes'
    BY <1>10, <2>1 DEF CountTypes, start_ibss_wq, Take
  <2>4. ProcTypes'
    BY <1>10, <2>1 DEF Label, start_ibss_wq, Take, Work, DelayedWork
  <2>5. Order'
    BY <1>10, <2>1 DEF Label, start_ibss_wq, Take
  <2>6. Link'
    BY <1>10, <2>1 DEF Link, ScanOff, NoAsyncScanInHandshake, HandshakeIsTimed,
       JoinedRuns, CarrierComes, FlagTypes, start_ibss_wq, Take
  <2> QED
    BY <2>1, <2>2, <2>3, <2>4, <2>5, <2>6
<1>11. CASE start_ibss
  <2>1. /\ QueueOK' /\ SameQueued
        /\ \/ state' = state
           \/ state' = "ASSOCIATING" /\ iw_mode = "INFRA"
           \/ state' = "LINKED" /\ iw_mode # "INFRA"
    <3> PICK found \in BOOLEAN : new_net(state, found /\ wanted')
      BY <1>11 DEF start_ibss
    <3>1. delayed' = delayed
      BY <1>11 DEF start_ibss
    <3> QED
      BY <3>1, NewNet
  <2>2. FlagTypes'
    BY <1>11, <2>1, ZenonT(60) DEF FlagTypes, State, start_ibss, Hold, Up, Down
  <2>3. CountTypes'
    BY <1>11, <2>1 DEF CountTypes, start_ibss, Hold, Up, Down
  <2>4. ProcTypes'
    BY <1>11, <2>1 DEF Label, start_ibss, Hold, Up, Down
  <2>5. Order'
    BY <1>11, <2>1 DEF Label, start_ibss, Hold, Up, Down
  <2>6. Link'
    BY <1>11, <2>1 DEF Link, ScanOff, NoAsyncScanInHandshake, HandshakeIsTimed,
       JoinedRuns, CarrierComes, FlagTypes, start_ibss, Hold, Up, Down
  <2> QED
    BY <2>1, <2>2, <2>3, <2>4, <2>5, <2>6
<1>12. CASE linked
  <2>1. QueueOK' /\ SameQueued
    BY <1>12, KeepQueue DEF linked
  <2>2. FlagTypes'
    BY <1>12, <2>1 DEF FlagTypes, State, linked, Hold, Up, Down
  <2>3. CountTypes'
    BY <1>12, <2>1 DEF CountTypes, linked, Hold, Up, Down
  <2>4. ProcTypes'
    BY <1>12, <2>1 DEF Label, linked, Hold, Up, Down
  <2>5. Order'
    BY <1>12, <2>1 DEF Label, linked, Hold, Up, Down
  <2>6. Link'
    BY <1>12, <2>1 DEF Link, ScanOff, NoAsyncScanInHandshake, HandshakeIsTimed,
       JoinedRuns, CarrierComes, FlagTypes, linked, Hold, Up, Down
  <2> QED
    BY <2>1, <2>2, <2>3, <2>4, <2>5, <2>6
<1>13. CASE stop_scan("worker")
  <2>1. QueueOK' /\ SameQueued
    BY <1>13, KeepQueue DEF stop_scan
  <2>2. FlagTypes'
    BY <1>13, <2>1 DEF FlagTypes, State, stop_scan, Hold, Up, Down
  <2>3. CountTypes'
    BY <1>13, <2>1 DEF CountTypes, stop_scan, Hold, Up, Down
  <2>4. ProcTypes'
    BY <1>13, <2>1 DEF Label, stop_scan, Hold, Up, Down
  <2>5. Order'
    BY <1>13, <2>1 DEF Label, stop_scan, Hold, Up, Down
  <2>6. Link'
    BY <1>13, <2>1 DEF Link, ScanOff, NoAsyncScanInHandshake, HandshakeIsTimed,
       JoinedRuns, CarrierComes, FlagTypes, stop_scan, Hold, Up, Down
  <2> QED
    BY <2>1, <2>2, <2>3, <2>4, <2>5, <2>6
<1>14. CASE start_scan("worker")
  <2>1. QueueOK' /\ SameQueued
    <3>1. (wq' = wq \/ wq' = queue_work("scan")) /\ delayed' = delayed
      BY <1>14 DEF start_scan
    <3> QED
      BY <3>1, ScanWork
  <2>2. FlagTypes'
    BY <1>14, <2>1, ZenonT(60) DEF FlagTypes, State, start_scan, Hold, Up, Down
  <2>3. CountTypes'
    BY <1>14, <2>1 DEF CountTypes, start_scan, Hold, Up, Down
  <2>4. ProcTypes'
    BY <1>14, <2>1 DEF Label, start_scan, Hold, Up, Down
  <2>5. Order'
    BY <1>14, <2>1 DEF Label, start_scan, Hold, Up, Down
  <2>6. Link'
    BY <1>14, <2>1 DEF Link, ScanOff, NoAsyncScanInHandshake, HandshakeIsTimed,
       JoinedRuns, CarrierComes, FlagTypes, start_scan, Hold, Up, Down
  <2> QED
    BY <2>1, <2>2, <2>3, <2>4, <2>5, <2>6
<1>15. CASE scan_syncro_enter("worker")
  <2>1. QueueOK' /\ SameQueued
    BY <1>15, KeepQueue DEF scan_syncro_enter
  <2>2. FlagTypes'
    BY <1>15, <2>1 DEF FlagTypes, State, scan_syncro_enter, Hold, Up, Down
  <2>3. CountTypes'
    BY <1>15, <2>1, SoftmacAssumption DEF CountTypes, scan_syncro_enter, Hold, Up,
       Down, SoftmacAssumption
  <2>4. ProcTypes'
    BY <1>15, <2>1 DEF Label, scan_syncro_enter, Hold, Up, Down
  <2>5. Order'
    BY <1>15, <2>1 DEF Label, scan_syncro_enter, Hold, Up, Down
  <2>6. Link'
    BY <1>15, <2>1 DEF Link, ScanOff, NoAsyncScanInHandshake, HandshakeIsTimed,
       JoinedRuns, CarrierComes, FlagTypes, scan_syncro_enter, Hold, Up, Down
  <2> QED
    BY <2>1, <2>2, <2>3, <2>4, <2>5, <2>6
<1>16. CASE scan_syncro("worker")
  <2>1. QueueOK' /\ SameQueued
    BY <1>16, KeepQueue DEF scan_syncro
  <2>2. FlagTypes'
    BY <1>16, <2>1, ZenonT(60) DEF FlagTypes, State, scan_syncro, scan_syncro_out
  <2>3. CountTypes'
    BY <1>16, <2>1, SoftmacAssumption DEF CountTypes, scan_syncro, scan_syncro_out,
       SoftmacAssumption
  <2>4. ProcTypes'
    BY <1>16, <2>1 DEF Label, scan_syncro, scan_syncro_out
  <2>5. Order'
    BY <1>16, <2>1 DEF Label, scan_syncro, scan_syncro_out
  <2>6. Link'
    BY <1>16, <2>1 DEF Link, ScanOff, NoAsyncScanInHandshake, HandshakeIsTimed,
       JoinedRuns, CarrierComes, FlagTypes, scan_syncro, scan_syncro_out
  <2> QED
    BY <2>1, <2>2, <2>3, <2>4, <2>5, <2>6
<1>17. CASE disassociate("worker")
  <2>1. QueueOK' /\ SameQueued
    BY <1>17, KeepQueue DEF disassociate
  <2>2. FlagTypes'
    BY <1>17, <2>1 DEF FlagTypes, State, disassociate, Hold, Up, Down
  <2>3. CountTypes'
    BY <1>17, <2>1 DEF CountTypes, disassociate, Hold, Up, Down
  <2>4. ProcTypes'
    BY <1>17, <2>1 DEF Label, disassociate, Hold, Up, Down
  <2>5. Order'
    BY <1>17, <2>1 DEF Label, disassociate, Hold, Up, Down
  <2>6. Link'
    BY <1>17, <2>1 DEF Link, ScanOff, NoAsyncScanInHandshake, HandshakeIsTimed,
       JoinedRuns, CarrierComes, FlagTypes, disassociate, Hold, Up, Down
  <2> QED
    BY <2>1, <2>2, <2>3, <2>4, <2>5, <2>6
<1>18. CASE disassociate_forget("worker")
  <2>1. QueueOK' /\ SameQueued
    BY <1>18, KeepQueue DEF disassociate_forget
  <2>2. FlagTypes'
    BY <1>18, <2>1, ZenonT(60) DEF FlagTypes, State, disassociate_forget, Hold, Up, Down
  <2>3. CountTypes'
    BY <1>18, <2>1 DEF CountTypes, disassociate_forget, Hold, Up, Down
  <2>4. ProcTypes'
    BY <1>18, <2>1 DEF Label, disassociate_forget, Hold, Up, Down
  <2>5. Order'
    BY <1>18, <2>1 DEF Label, disassociate_forget, Hold, Up, Down
  <2>6. Link'
    BY <1>18, <2>1 DEF Link, ScanOff, NoAsyncScanInHandshake, HandshakeIsTimed,
       JoinedRuns, CarrierComes, FlagTypes, disassociate_forget, Hold, Up, Down
  <2> QED
    BY <2>1, <2>2, <2>3, <2>4, <2>5, <2>6
<1>19. CASE GPIOChangeRFWorkItemCallBack
  <2>1. QueueOK' /\ SameQueued
    BY <1>19, KeepQueue DEF GPIOChangeRFWorkItemCallBack
  <2>2. FlagTypes'
    BY <1>19, <2>1 DEF FlagTypes, State, GPIOChangeRFWorkItemCallBack
  <2>3. CountTypes'
    BY <1>19, <2>1 DEF CountTypes, GPIOChangeRFWorkItemCallBack
  <2>4. ProcTypes'
    BY <1>19, <2>1 DEF Label, GPIOChangeRFWorkItemCallBack
  <2>5. Order'
    BY <1>19, <2>1 DEF Label, GPIOChangeRFWorkItemCallBack
  <2>6. Link'
    BY <1>19, <2>1 DEF Link, ScanOff, NoAsyncScanInHandshake, HandshakeIsTimed,
       JoinedRuns, CarrierComes, FlagTypes, GPIOChangeRFWorkItemCallBack
  <2> QED
    BY <2>1, <2>2, <2>3, <2>4, <2>5, <2>6
<1> QED
  BY <1>1, <1>2, <1>3, <1>4, <1>5, <1>6, <1>7, <1>8, <1>9, <1>10, <1>11, <1>12, <1>13,
     <1>14, <1>15, <1>16, <1>17, <1>18, <1>19 DEF Worker, WorkerGoesOn

\* A request begins.
LEMMA RequestKeeps ==
    ASSUME IInv, Request PROVE IInv'
<1> USE DEF IInv, linkVars, confVars, scanVars, workVars, procVars, Goto, Types, ProcTypes,
       Process, Order, WorkerPlaces, UserPlaces, Exclusion, WorkerHolds, UserHolds,
       SameQueued
<1>1. CASE rtl8180_open
  <2>1. QueueOK' /\ SameQueued
    BY <1>1, KeepQueue DEF rtl8180_open
  <2>2. FlagTypes'
    BY <1>1, <2>1 DEF FlagTypes, State, rtl8180_open, Begin
  <2>3. CountTypes'
    BY <1>1, <2>1 DEF CountTypes, rtl8180_open, Begin
  <2>4. ProcTypes'
    BY <1>1, <2>1 DEF Label, rtl8180_open, Begin
  <2>5. Order'
    BY <1>1, <2>1 DEF Label, rtl8180_open, Begin
  <2>6. Link'
    BY <1>1, <2>1 DEF Link, ScanOff, NoAsyncScanInHandshake, HandshakeIsTimed,
       JoinedRuns, CarrierComes, FlagTypes, rtl8180_open, Begin
  <2> QED
    BY <2>1, <2>2, <2>3, <2>4, <2>5, <2>6
<1>2. CASE stop_request
  <2>1. QueueOK' /\ SameQueued
    BY <1>2, KeepQueue DEF stop_request
  <2>2. FlagTypes'
    BY <1>2, <2>1 DEF FlagTypes, State, stop_request, Begin
  <2>3. CountTypes'
    BY <1>2, <2>1 DEF CountTypes, stop_request, Begin
  <2>4. ProcTypes'
    BY <1>2, <2>1 DEF Label, stop_request, Begin
  <2>5. Order'
    BY <1>2, <2>1 DEF Label, stop_request, Begin
  <2>6. Link'
    BY <1>2, <2>1 DEF Link, ScanOff, NoAsyncScanInHandshake, HandshakeIsTimed,
       JoinedRuns, CarrierComes, FlagTypes, stop_request, Begin
  <2> QED
    BY <2>1, <2>2, <2>3, <2>4, <2>5, <2>6
<1>3. CASE wx_set_scan
  <2>1. QueueOK' /\ SameQueued
    BY <1>3, KeepQueue DEF wx_set_scan
  <2>2. FlagTypes'
    BY <1>3, <2>1 DEF FlagTypes, State, wx_set_scan, Begin
  <2>3. CountTypes'
    BY <1>3, <2>1 DEF CountTypes, wx_set_scan, Begin
  <2>4. ProcTypes'
    BY <1>3, <2>1 DEF Label, wx_set_scan, Begin
  <2>5. Order'
    BY <1>3, <2>1 DEF Label, wx_set_scan, Begin
  <2>6. Link'
    BY <1>3, <2>1 DEF Link, ScanOff, NoAsyncScanInHandshake, HandshakeIsTimed,
       JoinedRuns, CarrierComes, FlagTypes, wx_set_scan, Begin
  <2> QED
    BY <2>1, <2>2, <2>3, <2>4, <2>5, <2>6
<1>4. CASE wx_set_mlme
  <2>1. QueueOK' /\ SameQueued
    BY <1>4, KeepQueue DEF wx_set_mlme
  <2>2. FlagTypes'
    BY <1>4, <2>1 DEF FlagTypes, State, wx_set_mlme, Begin
  <2>3. CountTypes'
    BY <1>4, <2>1 DEF CountTypes, wx_set_mlme, Begin
  <2>4. ProcTypes'
    BY <1>4, <2>1 DEF Label, wx_set_mlme, Begin
  <2>5. Order'
    BY <1>4, <2>1 DEF Label, wx_set_mlme, Begin
  <2>6. Link'
    BY <1>4, <2>1 DEF Link, ScanOff, NoAsyncScanInHandshake, HandshakeIsTimed,
       JoinedRuns, CarrierComes, FlagTypes, wx_set_mlme, Begin
  <2> QED
    BY <2>1, <2>2, <2>3, <2>4, <2>5, <2>6
<1> QED
  BY <1>1, <1>2, <1>3, <1>4 DEF Request

\* A step of the user's process.
LEMMA UserGoesOnKeeps ==
    ASSUME IInv, UserGoesOn PROVE IInv'
<1> USE DEF IInv, linkVars, confVars, scanVars, workVars, procVars, Goto, Types, ProcTypes,
       Process, Order, WorkerPlaces, UserPlaces, Exclusion, WorkerHolds, UserHolds,
       SameQueued
<1>1. CASE stop_protocol
  <2>1. QueueOK' /\ SameQueued
    BY <1>1, KeepQueue DEF stop_protocol
  <2>2. FlagTypes'
    BY <1>1, <2>1 DEF FlagTypes, State, stop_protocol, Hold, Up, Down
  <2>3. CountTypes'
    BY <1>1, <2>1 DEF CountTypes, stop_protocol, Hold, Up, Down
  <2>4. ProcTypes'
    BY <1>1, <2>1 DEF Label, stop_protocol, Hold, Up, Down
  <2>5. Order'
    BY <1>1, <2>1 DEF Label, stop_protocol, Hold, Up, Down
  <2>6. Link'
    BY <1>1, <2>1 DEF Link, ScanOff, NoAsyncScanInHandshake, HandshakeIsTimed,
       JoinedRuns, CarrierComes, FlagTypes, stop_protocol, Hold, Up, Down
  <2> QED
    BY <2>1, <2>2, <2>3, <2>4, <2>5, <2>6
<1>2. CASE nothing_to_stop
  <2>1. QueueOK' /\ SameQueued
    BY <1>2, KeepQueue DEF nothing_to_stop
  <2>2. FlagTypes'
    BY <1>2, <2>1 DEF FlagTypes, State, nothing_to_stop, Hold, Up, Down
  <2>3. CountTypes'
    BY <1>2, <2>1 DEF CountTypes, nothing_to_stop, Hold, Up, Down
  <2>4. ProcTypes'
    BY <1>2, <2>1 DEF Label, nothing_to_stop, Hold, Up, Down
  <2>5. Order'
    BY <1>2, <2>1 DEF Label, nothing_to_stop, Hold, Up, Down
  <2>6. Link'
    BY <1>2, <2>1 DEF Link, ScanOff, NoAsyncScanInHandshake, HandshakeIsTimed,
       JoinedRuns, CarrierComes, FlagTypes, nothing_to_stop, Hold, Up, Down
  <2> QED
    BY <2>1, <2>2, <2>3, <2>4, <2>5, <2>6
<1>3. CASE disassociate("user")
  <2>1. QueueOK' /\ SameQueued
    BY <1>3, KeepQueue DEF disassociate
  <2>2. FlagTypes'
    BY <1>3, <2>1 DEF FlagTypes, State, disassociate, Hold, Up, Down
  <2>3. CountTypes'
    BY <1>3, <2>1 DEF CountTypes, disassociate, Hold, Up, Down
  <2>4. ProcTypes'
    BY <1>3, <2>1 DEF Label, disassociate, Hold, Up, Down
  <2>5. Order'
    BY <1>3, <2>1 DEF Label, disassociate, Hold, Up, Down
  <2>6. Link'
    BY <1>3, <2>1 DEF Link, ScanOff, NoAsyncScanInHandshake, HandshakeIsTimed,
       JoinedRuns, CarrierComes, FlagTypes, disassociate, Hold, Up, Down
  <2> QED
    BY <2>1, <2>2, <2>3, <2>4, <2>5, <2>6
<1>4. CASE disassociate_forget("user")
  <2>1. QueueOK' /\ SameQueued
    BY <1>4, KeepQueue DEF disassociate_forget
  <2>2. FlagTypes'
    BY <1>4, <2>1, ZenonT(60) DEF FlagTypes, State, disassociate_forget, Hold, Up, Down
  <2>3. CountTypes'
    BY <1>4, <2>1 DEF CountTypes, disassociate_forget, Hold, Up, Down
  <2>4. ProcTypes'
    BY <1>4, <2>1 DEF Label, disassociate_forget, Hold, Up, Down
  <2>5. Order'
    BY <1>4, <2>1 DEF Label, disassociate_forget, Hold, Up, Down
  <2>6. Link'
    BY <1>4, <2>1 DEF Link, ScanOff, NoAsyncScanInHandshake, HandshakeIsTimed,
       JoinedRuns, CarrierComes, FlagTypes, disassociate_forget, Hold, Up, Down
  <2> QED
    BY <2>1, <2>2, <2>3, <2>4, <2>5, <2>6
<1>5. CASE restop
  <2>1. QueueOK' /\ SameQueued
    BY <1>5, KeepQueue DEF restop
  <2>2. FlagTypes'
    BY <1>5, <2>1 DEF FlagTypes, State, restop, Hold, Up, Down
  <2>3. CountTypes'
    BY <1>5, <2>1 DEF CountTypes, restop, Hold, Up, Down
  <2>4. ProcTypes'
    BY <1>5, <2>1 DEF Label, restop, Hold, Up, Down
  <2>5. Order'
    BY <1>5, <2>1 DEF Label, restop, Hold, Up, Down
  <2>6. Link'
    BY <1>5, <2>1 DEF Link, ScanOff, NoAsyncScanInHandshake, HandshakeIsTimed,
       JoinedRuns, CarrierComes, FlagTypes, restop, Hold, Up, Down
  <2> QED
    BY <2>1, <2>2, <2>3, <2>4, <2>5, <2>6
<1>6. CASE rtl8180_down
  <2>1. QueueOK' /\ SameQueued
    BY <1>6, KeepQueue DEF rtl8180_down
  <2>2. FlagTypes'
    BY <1>6, <2>1 DEF FlagTypes, State, rtl8180_down, Hold, Up, Down
  <2>3. CountTypes'
    BY <1>6, <2>1 DEF CountTypes, rtl8180_down, Hold, Up, Down
  <2>4. ProcTypes'
    BY <1>6, <2>1 DEF Label, rtl8180_down, Hold, Up, Down
  <2>5. Order'
    BY <1>6, <2>1 DEF Label, rtl8180_down, Hold, Up, Down
  <2>6. Link'
    BY <1>6, <2>1 DEF Link, ScanOff, NoAsyncScanInHandshake, HandshakeIsTimed,
       JoinedRuns, CarrierComes, FlagTypes, rtl8180_down, Hold, Up, Down
  <2> QED
    BY <2>1, <2>2, <2>3, <2>4, <2>5, <2>6
<1>7. CASE set_network
  <2>1. QueueOK' /\ SameQueued
    BY <1>7, KeepQueue DEF set_network
  <2>2. FlagTypes'
    BY <1>7, <2>1 DEF FlagTypes, State, set_network, Hold, Up, Down
  <2>3. CountTypes'
    BY <1>7, <2>1 DEF CountTypes, set_network, Hold, Up, Down
  <2>4. ProcTypes'
    BY <1>7, <2>1 DEF Label, set_network, Hold, Up, Down
  <2>5. Order'
    BY <1>7, <2>1 DEF Label, set_network, Hold, Up, Down
  <2>6. Link'
    BY <1>7, <2>1 DEF Link, ScanOff, NoAsyncScanInHandshake, HandshakeIsTimed,
       JoinedRuns, CarrierComes, FlagTypes, set_network, Hold, Up, Down
  <2> QED
    BY <2>1, <2>2, <2>3, <2>4, <2>5, <2>6
<1>8. CASE set_mode
  <2>1. QueueOK' /\ SameQueued
    BY <1>8, KeepQueue DEF set_mode
  <2>2. FlagTypes'
    BY <1>8, <2>1 DEF FlagTypes, State, set_mode, Hold, Up, Down
  <2>3. CountTypes'
    BY <1>8, <2>1 DEF CountTypes, set_mode, Hold, Up, Down
  <2>4. ProcTypes'
    BY <1>8, <2>1 DEF Label, set_mode, Hold, Up, Down
  <2>5. Order'
    BY <1>8, <2>1 DEF Label, set_mode, Hold, Up, Down
  <2>6. Link'
    BY <1>8, <2>1 DEF Link, ScanOff, NoAsyncScanInHandshake, HandshakeIsTimed,
       JoinedRuns, CarrierComes, FlagTypes, set_mode, Hold, Up, Down
  <2> QED
    BY <2>1, <2>2, <2>3, <2>4, <2>5, <2>6
<1>9. CASE start_protocol
  <2>1. /\ QueueOK' /\ SameQueued
        /\ \/ state' = state
           \/ state' = "ASSOCIATING" /\ iw_mode = "INFRA"
           \/ state' = "LINKED" /\ iw_mode # "INFRA"
    <3>1. CASE start_bss
      BY <3>1, NewNet DEF start_bss
    <3>2. CASE queue_start_ibss
      BY <3>2, DelayWork DEF queue_start_ibss, DelayedWork
    <3> QED
      BY <1>9, <3>1, <3>2 DEF start_protocol
  <2>2. FlagTypes'
    BY <1>9, <2>1 DEF FlagTypes, State, start_protocol, start_bss, queue_start_ibss,
       Hold, Up, Down
  <2>3. CountTypes'
    BY <1>9, <2>1 DEF CountTypes, start_protocol, start_bss, queue_start_ibss, Hold,
       Up, Down
  <2>4. ProcTypes'
    BY <1>9, <2>1 DEF Label, start_protocol, start_bss, queue_start_ibss, Hold, Up, Down
  <2>5. Order'
    BY <1>9, <2>1 DEF Label, start_protocol, start_bss, queue_start_ibss, Hold, Up, Down
  <2>6. Link'
    BY <1>9, <2>1 DEF Link, ScanOff, NoAsyncScanInHandshake, HandshakeIsTimed,
       JoinedRuns, CarrierComes, FlagTypes, start_protocol, start_bss,
       queue_start_ibss, Hold, Up, Down
  <2> QED
    BY <2>1, <2>2, <2>3, <2>4, <2>5, <2>6
<1>10. CASE wx_set_scan_linked
  <2>1. QueueOK' /\ SameQueued
    BY <1>10, KeepQueue DEF wx_set_scan_linked
  <2>2. FlagTypes'
    BY <1>10, <2>1 DEF FlagTypes, State, wx_set_scan_linked, Hold, Up, Down
  <2>3. CountTypes'
    BY <1>10, <2>1 DEF CountTypes, wx_set_scan_linked, Hold, Up, Down
  <2>4. ProcTypes'
    BY <1>10, <2>1 DEF Label, wx_set_scan_linked, Hold, Up, Down
  <2>5. Order'
    BY <1>10, <2>1 DEF Label, wx_set_scan_linked, Hold, Up, Down
  <2>6. Link'
    BY <1>10, <2>1 DEF Link, ScanOff, NoAsyncScanInHandshake, HandshakeIsTimed,
       JoinedRuns, CarrierComes, FlagTypes, wx_set_scan_linked, Hold, Up, Down
  <2> QED
    BY <2>1, <2>2, <2>3, <2>4, <2>5, <2>6
<1>11. CASE wx_set_scan_queue
  <2>1. QueueOK' /\ Queued("sync")' /\ (Queued("complete")' <=> Queued("complete"))
    BY <1>11, SyncWork DEF wx_set_scan_queue
  <2>2. FlagTypes'
    BY <1>11, <2>1 DEF FlagTypes, State, wx_set_scan_queue, Hold, Up, Down
  <2>3. CountTypes'
    BY <1>11, <2>1 DEF CountTypes, wx_set_scan_queue, Hold, Up, Down
  <2>4. ProcTypes'
    BY <1>11, <2>1 DEF Label, wx_set_scan_queue, Hold, Up, Down
  <2>5. Order'
    BY <1>11, <2>1 DEF Label, wx_set_scan_queue, Hold, Up, Down
  <2>6. Link'
    BY <1>11, <2>1 DEF Link, ScanOff, NoAsyncScanInHandshake, HandshakeIsTimed,
       JoinedRuns, CarrierComes, FlagTypes, wx_set_scan_queue, Hold, Up, Down
  <2> QED
    BY <2>1, <2>2, <2>3, <2>4, <2>5, <2>6
<1>12. CASE stop_scan("user")
  <2>1. QueueOK' /\ SameQueued
    BY <1>12, KeepQueue DEF stop_scan
  <2>2. FlagTypes'
    BY <1>12, <2>1 DEF FlagTypes, State, stop_scan, Hold, Up, Down
  <2>3. CountTypes'
    BY <1>12, <2>1 DEF CountTypes, stop_scan, Hold, Up, Down
  <2>4. ProcTypes'
    BY <1>12, <2>1 DEF Label, stop_scan, Hold, Up, Down
  <2>5. Order'
    BY <1>12, <2>1 DEF Label, stop_scan, Hold, Up, Down
  <2>6. Link'
    BY <1>12, <2>1 DEF Link, ScanOff, NoAsyncScanInHandshake, HandshakeIsTimed,
       JoinedRuns, CarrierComes, FlagTypes, stop_scan, Hold, Up, Down
  <2> QED
    BY <2>1, <2>2, <2>3, <2>4, <2>5, <2>6
<1>13. CASE start_scan("user")
  <2>1. QueueOK' /\ SameQueued
    <3>1. (wq' = wq \/ wq' = queue_work("scan")) /\ delayed' = delayed
      BY <1>13 DEF start_scan
    <3> QED
      BY <3>1, ScanWork
  <2>2. FlagTypes'
    BY <1>13, <2>1, ZenonT(60) DEF FlagTypes, State, start_scan, Hold, Up, Down
  <2>3. CountTypes'
    BY <1>13, <2>1 DEF CountTypes, start_scan, Hold, Up, Down
  <2>4. ProcTypes'
    BY <1>13, <2>1 DEF Label, start_scan, Hold, Up, Down
  <2>5. Order'
    BY <1>13, <2>1 DEF Label, start_scan, Hold, Up, Down
  <2>6. Link'
    BY <1>13, <2>1 DEF Link, ScanOff, NoAsyncScanInHandshake, HandshakeIsTimed,
       JoinedRuns, CarrierComes, FlagTypes, start_scan, Hold, Up, Down
  <2> QED
    BY <2>1, <2>2, <2>3, <2>4, <2>5, <2>6
<1>14. CASE scan_syncro_enter("user")
  <2>1. QueueOK' /\ SameQueued
    BY <1>14, KeepQueue DEF scan_syncro_enter
  <2>2. FlagTypes'
    BY <1>14, <2>1 DEF FlagTypes, State, scan_syncro_enter, Hold, Up, Down
  <2>3. CountTypes'
    BY <1>14, <2>1, SoftmacAssumption DEF CountTypes, scan_syncro_enter, Hold, Up,
       Down, SoftmacAssumption
  <2>4. ProcTypes'
    BY <1>14, <2>1 DEF Label, scan_syncro_enter, Hold, Up, Down
  <2>5. Order'
    BY <1>14, <2>1 DEF Label, scan_syncro_enter, Hold, Up, Down
  <2>6. Link'
    BY <1>14, <2>1 DEF Link, ScanOff, NoAsyncScanInHandshake, HandshakeIsTimed,
       JoinedRuns, CarrierComes, FlagTypes, scan_syncro_enter, Hold, Up, Down
  <2> QED
    BY <2>1, <2>2, <2>3, <2>4, <2>5, <2>6
<1>15. CASE scan_syncro("user")
  <2>1. QueueOK' /\ SameQueued
    BY <1>15, KeepQueue DEF scan_syncro
  <2>2. FlagTypes'
    BY <1>15, <2>1, ZenonT(60) DEF FlagTypes, State, scan_syncro, scan_syncro_out
  <2>3. CountTypes'
    BY <1>15, <2>1, SoftmacAssumption DEF CountTypes, scan_syncro, scan_syncro_out,
       SoftmacAssumption
  <2>4. ProcTypes'
    BY <1>15, <2>1 DEF Label, scan_syncro, scan_syncro_out
  <2>5. Order'
    BY <1>15, <2>1 DEF Label, scan_syncro, scan_syncro_out
  <2>6. Link'
    BY <1>15, <2>1 DEF Link, ScanOff, NoAsyncScanInHandshake, HandshakeIsTimed,
       JoinedRuns, CarrierComes, FlagTypes, scan_syncro, scan_syncro_out
  <2> QED
    BY <2>1, <2>2, <2>3, <2>4, <2>5, <2>6
<1> QED
  BY <1>1, <1>2, <1>3, <1>4, <1>5, <1>6, <1>7, <1>8, <1>9, <1>10, <1>11, <1>12, <1>13,
     <1>14, <1>15 DEF UserGoesOn

LEMMA StutterKeeps ==
    ASSUME IInv, UNCHANGED vars PROVE IInv'
<1> USE DEF IInv, vars, linkVars, confVars, scanVars, workVars, procVars
<1>1. QueueOK' /\ SameQueued
  BY KeepQueue
<1>2. Types'
  BY DEF Types, FlagTypes, CountTypes, ProcTypes
<1>3. Order'
  BY <1>1 DEF SameQueued, Order, WorkerPlaces, UserPlaces, Exclusion, WorkerHolds,
     UserHolds
<1>4. Link'
  BY <1>1 DEF SameQueued, Link, ScanOff, NoAsyncScanInHandshake, HandshakeIsTimed,
     JoinedRuns, CarrierComes
<1> QED
  BY <1>1, <1>2, <1>3, <1>4

LEMMA InitIInv ==
    ASSUME Init PROVE IInv
<1>1. ToSet(wq) = {} /\ wq = <<>>
  BY DEF Init, ToSet
<1>2. QueueOK
  BY <1>1 DEF Init, QueueOK, IsInjective
<1>3. ~Queued("sync")
  BY <1>1 DEF Queued
<1>4. FlagTypes /\ CountTypes
  <2>1. 0 \in 0 .. Channels
    BY SoftmacAssumption DEF SoftmacAssumption
  <2>2. FlagTypes
    BY DEF Init, FlagTypes, State
  <2>3. CountTypes
    BY <2>1 DEF Init, CountTypes
  <2> QED
    BY <2>2, <2>3
<1>5. ProcTypes
  BY DEF Init, ProcTypes, Process, Label
<1>6. Order
  BY <1>3 DEF Init, Order, WorkerPlaces, UserPlaces, Exclusion, WorkerHolds, UserHolds,
     Process, Label
<1>7. Link
  BY DEF Init, Link, ScanOff, NoAsyncScanInHandshake, HandshakeIsTimed, JoinedRuns,
     CarrierComes, Process
<1> QED
  BY <1>2, <1>4, <1>5, <1>6, <1>7 DEF IInv, Types

LEMMA Invariant == Spec => []IInv
<1>1. IInv /\ [Next]_vars => IInv'
  BY ReceptionKeeps, TimersKeeps, WorkerKeeps, RequestKeeps, UserGoesOnKeeps, StutterKeeps
     DEF Next
<1> QED
  BY InitIInv, <1>1, PTL DEF Spec

-----------------------------------------------------------------------------
(***************************************************************************)
(* The theorems                                                            *)
(***************************************************************************)
\* The queue of works has each of them once, and none that is still delayed; the two
\* semaphores count to one.
THEOREM TypeCorrect == Spec => []TypeOK
<1>1. IInv => TypeOK
  BY DEF IInv, QueueOK, Types, FlagTypes, CountTypes, ProcTypes, TypeOK
<1> QED
  BY <1>1, Invariant, PTL

LEMMA OneHolder ==
    ASSUME Types, Order PROVE SemAccounting
<1> USE DEF Types, ProcTypes, Order, WorkerPlaces, UserPlaces
<1>1. "worker" \in WxHolders <=> WorkerHolds
  BY DEF WxHolders, WorkerHolds, Process
<1>2. "user" \in WxHolders <=> UserHolds
  BY DEF WxHolders, UserHolds, Process
<1>3. "sync" \in WxHolders <=> Queued("sync")
  BY DEF WxHolders, Queued, Process
<1>4. WxHolders \subseteq {"worker", "user", "sync"}
  BY DEF WxHolders, Process
<1>5. CASE WxHolders = {}
  BY <1>1, <1>2, <1>3, <1>5, FS_EmptySet DEF SemAccounting, Exclusion
<1>6. ASSUME NEW h \in WxHolders PROVE SemAccounting
  <2>1. WxHolders = {h} /\ wx_sem = 0
    BY <1>1, <1>2, <1>3, <1>4, <1>6 DEF Exclusion
  <2> QED
    BY <2>1, FS_Singleton DEF SemAccounting
<1> QED
  BY <1>5, <1>6

\* ieee->wx_sem is released once for every time it is taken (scan of a linked station).
THEOREM SemIsAccounted == Spec => []SemAccounting
<1>1. IInv => SemAccounting
  BY OneHolder DEF IInv
<1> QED
  BY <1>1, Invariant, PTL

\* The background scan is off while the station authenticates
\* (ieee80211_associate_procedure_wq stops it with the semaphore held).
THEOREM HandshakeUndisturbed == Spec => []NoAsyncScanInHandshake
<1>1. IInv => NoAsyncScanInHandshake
  BY DEF IInv, Link
<1> QED
  BY <1>1, Invariant, PTL

\* A station never waits for an answer without a timer (ieee80211_associate_step1,
\* ieee80211_associate_step2).
THEOREM HandshakeHasTimer == Spec => []HandshakeIsTimed
<1>1. IInv => HandshakeIsTimed
  BY DEF IInv, Link
<1> QED
  BY <1>1, Invariant, PTL

\* A station that is linked since its association was accepted has its carrier or will
\* get it (ieee80211_associate_complete, ieee80211_associate_complete_wq).
THEOREM CarrierFollowsLink == Spec => []LinkedGetsCarrier
<1>1. IInv => LinkedGetsCarrier
  BY DEF IInv, Link, CarrierComes, LinkedGetsCarrier, Queued
<1> QED
  BY <1>1, Invariant, PTL
=============================================================================
