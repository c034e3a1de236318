--------------------------- MODULE RateGain_proofs ---------------------------
(***************************************************************************)
(* Proofs about RateGain: the gain is where the driver believes, and comes *)
(* down after quiet only, and the rate follows what was lost, for every    *)
(* kind of traffic and every threshold.                                    *)
(***************************************************************************)
EXTENDS RateGain, TLAPS

\* The stages that are ever asked for, and the votes: every vote for a lower stage
\* was a quiet evaluation, since a noisy one clears them.
\* Stage 0 is what the driver believes before it has written one.
GainInRange == InitialGain \in 0 .. 7 /\ (tuned => InitialGain # 0)
VotesAreQuiet ==
    /\ UpgradeVote \in Nat /\ quiet \in Nat
    /\ UpgradeVote <= UpgradeVotes /\ UpgradeVote <= quiet
GInv == GainIsOnTheChip /\ GainInRange
IInv == GInv /\ VotesAreQuiet

LEMMA LadderGains ==
    \A r \in DOMAIN Ladder : Ladder[r].gdown \in 0 .. 7 /\ Ladder[r].gup \in 0 .. 7
<1>1. \A g \in Rungs : g.gdown \in 0 .. 7 /\ g.gup \in 0 .. 7
  BY DEF Rungs, Rung
<1>2. \A r \in DOMAIN Ladder : Ladder[r] \in Rungs
  <2> SUFFICES ASSUME NEW r \in {g.at : g \in Rungs} PROVE Ladder[r] \in Rungs
    BY DEF Ladder
  <2>1. \E g \in Rungs : g.at = r
    OBVIOUS
  <2> QED
    BY <2>1 DEF Ladder
<1> QED
  BY <1>1, <1>2

\* Whoever leaves the gain alone, or writes a stage that exists, keeps the two.
LEMMA GainStaysKeeps ==
    ASSUME GInv, GainStays PROVE GInv'
  BY DEF GInv, GainIsOnTheChip, GainInRange, GainStays, Stage

LEMMA UpdateKeeps ==
    ASSUME NEW g \in 1 .. 7, UpdateInitialGain(g) PROVE GInv'
  BY DEF GInv, GainIsOnTheChip, GainInRange, UpdateInitialGain, Stage

LEMMA RegainKeeps ==
    ASSUME GInv, NEW g \in 0 .. 7, Regain(g) PROVE GInv'
  BY GainStaysKeeps, UpdateKeeps DEF Regain, WantGain

\* A period of the rate, whatever was sent in it.
LEMMA RateKeeps ==
    ASSUME GInv, NEW strong, NEW t, sta_rateadaptive8187(strong, t) PROVE GInv'
<1> DEFINE r == IF strong THEN 108 ELSE OperaRate
           loss == Losses(t)
<1>1. CASE NoLosses(r)
  BY <1>1, GainStaysKeeps DEF NoLosses
<1>2. CASE FailedTrial(loss)
  BY <1>2, GainStaysKeeps DEF FailedTrial
<1>3. CASE Lower(r, loss)
  <2>1. r \in DOMAIN Ladder
    BY <1>3 DEF Lower, Worse
  <2>2. Regain(Ladder[r].gdown) \/ GainStays
    BY <1>3 DEF Lower
  <2> QED
    BY <2>1, <2>2, LadderGains, RegainKeeps, GainStaysKeeps
<1>4. CASE Raise(r, loss)
  <2>1. r \in DOMAIN Ladder
    BY <1>4 DEF Raise, Better
  <2>2. Regain(Ladder[r].gup)
    BY <1>4 DEF Raise
  <2> QED
    BY <2>1, <2>2, LadderGains, RegainKeeps
<1>5. CASE Try(r, loss)
  BY <1>5, GainStaysKeeps DEF Try
<1>6. CASE Stay(r, loss)
  BY <1>6, GainStaysKeeps DEF Stay
<1> QED
  BY <1>1, <1>2, <1>3, <1>4, <1>5, <1>6 DEF sta_rateadaptive8187

\* An evaluation of the false alarms.
LEMMA FirstGainRange ==
    ASSUME GainInRange PROVE FirstGain \in 1 .. 7
  BY DEF FirstGain, GainInRange

LEMMA KeepKeeps ==
    ASSUME GInv, Keep(FirstGain) PROVE GInv'
<1>1. FirstGain = InitialGain \/ InitialGain = 0
  BY DEF GInv, GainInRange, FirstGain
<1>2. FirstGain \in 1 .. 7
  BY FirstGainRange DEF GInv
<1> QED
  BY <1>1, <1>2 DEF Keep, GInv, GainIsOnTheChip, GainInRange

LEMMA DigKeepsGain ==
    ASSUME GInv, rtl8180_hw_dig_wq PROVE GInv'
<1>1. FirstGain \in 1 .. 7
  BY FirstGainRange DEF GInv
<1>2. CASE Loud
  <2>1. Keep(FirstGain) \/ (FirstGain < 7 /\ UpdateInitialGain(FirstGain + 1))
    BY <1>2 DEF Loud
  <2>2. FirstGain < 7 => FirstGain + 1 \in 1 .. 7
    BY <1>1
  <2> QED
    BY <2>1, <2>2, KeepKeeps, UpdateKeeps
<1>3. CASE Noisy
  BY <1>3, KeepKeeps DEF Noisy
<1>4. CASE Silent
  <2>1. Keep(FirstGain) \/ (FirstGain > 4 /\ UpdateInitialGain(FirstGain - 1))
    BY <1>4 DEF Silent
  <2>2. FirstGain > 4 => FirstGain - 1 \in 1 .. 7
    BY <1>1
  <2> QED
    BY <2>1, <2>2, KeepKeeps, UpdateKeeps
<1> QED
  BY <1>2, <1>3, <1>4 DEF rtl8180_hw_dig_wq

\* A vote for a lower stage is one more quiet evaluation, any other evaluation none.
LEMMA DigKeepsVotes ==
    ASSUME VotesAreQuiet, rtl8180_hw_dig_wq PROVE VotesAreQuiet'
<1> USE DEF VotesAreQuiet
<1>0. UpgradeVotes \in Nat
  BY RateGainAssumption DEF RateGainAssumption
<1>1. CASE (Loud \/ Noisy) /\ quiet' = 0
  <2>1. UpgradeVote' = 0
    BY <1>1 DEF Loud, Noisy
  <2> QED
    BY <1>0, <1>1, <2>1
<1>2. CASE Silent /\ quiet' = Smaller(quiet + 1, UpgradeVotes)
  <2>1. UpgradeVote' = 0 \/ (UpgradeVote < UpgradeVotes /\ UpgradeVote' = UpgradeVote + 1)
    BY <1>0, <1>2 DEF Silent
  <2>2. quiet' = IF quiet + 1 < UpgradeVotes THEN quiet + 1 ELSE UpgradeVotes
    BY <1>2 DEF Smaller
  <2> QED
    BY <1>0, <2>1, <2>2
<1> QED
  BY <1>1, <1>2 DEF rtl8180_hw_dig_wq

(***************************************************************************)
(* The invariant of the specification                                      *)
(***************************************************************************)
LEMMA InitIInv ==
    ASSUME Init PROVE IInv
  BY RateGainAssumption DEF RateGainAssumption, Init, IInv, GInv, GainIsOnTheChip,
     GainInRange, VotesAreQuiet

LEMMA StepIInv ==
    ASSUME IInv, [Next]_vars PROVE IInv'
<1> USE DEF IInv
<1>1. CASE rtl8180_rate_adapter
  <2>1. GInv'
    BY <1>1, RateKeeps DEF rtl8180_rate_adapter, rate_adapter
  <2>2. UNCHANGED voteVars
    BY <1>1 DEF rtl8180_rate_adapter, rate_adapter
  <2> QED
    BY <2>1, <2>2 DEF VotesAreQuiet, voteVars
<1>2. CASE rtl8180_hw_dig_wq
  BY <1>2, DigKeepsGain, DigKeepsVotes
<1>3. CASE rtl8180_up
  BY <1>3 DEF rtl8180_up, voteVars, GInv, GainIsOnTheChip, GainInRange, VotesAreQuiet
<1>4. CASE rf_set_chan
  BY <1>4 DEF rf_set_chan, voteVars, GInv, GainIsOnTheChip, GainInRange, VotesAreQuiet
<1>5. CASE UNCHANGED <<InitialGain, voteVars, chip, tuned>>
  BY <1>5, GainStaysKeeps DEF GainStays, voteVars, VotesAreQuiet
<1> QED
  <2>1. timer_rate_adaptive \/ watch_dog_adaptive \/ rtl8180_down
        \/ Associates \/ ieee80211_associate_complete_wq \/ ieee80211_disassociate
        \/ (\E r \in UserRate : wx_set_rate(r)) \/ UNCHANGED vars
          => UNCHANGED <<InitialGain, voteVars, chip, tuned>>
    BY DEF timer_rate_adaptive, watch_dog_adaptive, rtl8180_down, Associates,
       ieee80211_associate_complete_wq, ieee80211_disassociate, wx_set_rate, vars
  <2> QED
    BY <1>1, <1>2, <1>3, <1>4, <1>5, <2>1 DEF Next

LEMMA Invariant == FairSpec => []IInv
  BY InitIInv, StepIInv, PTL DEF FairSpec

\* The registers hold the stage that InitialGain says, whatever the traffic, the
\* thresholds and the order of the two works (UpdateInitialGain).
THEOREM GainTracked == FairSpec => []GainIsOnTheChip
<1>1. IInv => GainIsOnTheChip
  BY DEF IInv, GInv
<1> QED
  BY <1>1, Invariant, PTL

\* The stage comes down by one, after UpgradeVotes quiet evaluations (DIG_Zebra).
LEMMA StepLowers ==
    ASSUME IInv, rtl8180_hw_dig_wq, InitialGain # 0, InitialGain' < InitialGain
    PROVE  InitialGain' = InitialGain - 1 /\ quiet >= UpgradeVotes
<1>0. UpgradeVotes \in Nat /\ UpgradeVote \in Nat /\ quiet \in Nat /\ UpgradeVote <= quiet
  BY RateGainAssumption DEF RateGainAssumption, IInv, VotesAreQuiet
<1>1. FirstGain = InitialGain /\ InitialGain \in 1 .. 7
  BY DEF IInv, GInv, GainInRange, FirstGain
<1>2. CASE Loud
  BY <1>1, <1>2 DEF Loud, Keep, UpdateInitialGain
<1>3. CASE Noisy
  BY <1>1, <1>3 DEF Noisy, Keep
<1>4. CASE Silent
  BY <1>0, <1>1, <1>4 DEF Silent, Keep, UpdateInitialGain
<1> QED
  BY <1>2, <1>3, <1>4 DEF rtl8180_hw_dig_wq

THEOREM LowersOnlyAfterQuiet == FairSpec => LowersAfterQuiet
<1>1. IInv /\ [Next]_vars =>
        [(rtl8180_hw_dig_wq /\ InitialGain # 0 /\ InitialGain' < InitialGain)
           => InitialGain' = InitialGain - 1 /\ quiet >= UpgradeVotes]_vars
  BY StepLowers
<1> QED
  BY <1>1, Invariant, PTL DEF FairSpec, LowersAfterQuiet

(***************************************************************************)
(* The rate follows the losses                                             *)
(***************************************************************************)
\* What the last period left, and the rate a trial may go back to.
LossesKnown ==
    /\ rate \in Nat /\ LastRetryRate \in Nat /\ trial.rate \in Nat /\ trial.loss \in Nat
    /\ LastRetryRate > 40 => before

\* The rungs: down is down and up is up, and what each asks for.
LEMMA LadderSteps ==
    ASSUME NEW r \in DOMAIN Ladder
    PROVE  /\ r \in Nat /\ Ladder[r].down \in Nat /\ Ladder[r].up \in Nat
           /\ Ladder[r].down <= r /\ r <= Ladder[r].up
           /\ Ladder[r].worse \in Nat /\ Ladder[r].worse >= 40
           /\ Ladder[r].better \in Nat /\ Ladder[r].better <= 50
           /\ Ladder[r].how = "count" => r \in {11, 22}
<1>1. Ladder[r] \in Rungs /\ Ladder[r].at = r
  <2>1. r \in {g.at : g \in Rungs}
    BY DEF Ladder
  <2>2. \E g \in Rungs : g.at = r
    BY <2>1
  <2> QED
    BY <2>1, <2>2 DEF Ladder
<1>2. \A g \in Rungs :
        /\ g.at \in Nat /\ g.down \in Nat /\ g.up \in Nat
        /\ g.down <= g.at /\ g.at <= g.up
        /\ g.worse \in Nat /\ g.worse >= 40
        /\ g.better \in Nat /\ g.better <= 50
        /\ g.how = "count" => g.at \in {11, 22}
  BY DEF Rungs, Rung
<1> QED
  BY <1>1, <1>2

\* What the u8 and the u16 make of a period, and when they are right about it.
LEMMA LossesCounted ==
    ASSUME NEW t \in Traffic
    PROVE  /\ Losses(t) \in Nat
           /\ RealLosses(t) \in Nat
           /\ Countable(t) => Losses(t) = RealLosses(t)
<1>1. t[1] \in Nat /\ t[2] \in Nat
  BY RateGainAssumption DEF RateGainAssumption
<1>2. ASSUME NEW n \in Nat, NEW m \in Nat, n # 0
      PROVE  (m * 100) \div n \in Nat /\ (m * 100) \div n <= m * 100
  BY <1>2, SMT
<1>3. CurrTxokCnt(t) \in Nat /\ (t[1] < 256 => CurrTxokCnt(t) = t[1])
  BY <1>1 DEF CurrTxokCnt
<1>4. RealLosses(t) \in Nat /\ (t[1] # 0 => RealLosses(t) <= t[2] * 100)
  BY <1>1, <1>2 DEF RealLosses
<1>5. Losses(t) \in Nat
  BY <1>1, <1>2, <1>3 DEF Losses
<1>6. ASSUME Countable(t) PROVE Losses(t) = RealLosses(t)
  <2>1. CurrTxokCnt(t) = t[1] /\ t[2] * 100 < 65536
    BY <1>3, <1>6 DEF Countable
  <2>2. CASE t[1] = 0
    BY <2>1, <2>2 DEF Losses, RealLosses
  <2>3. CASE t[1] # 0
    <3>1. RealLosses(t) \in Nat /\ RealLosses(t) < 65536
      BY <1>1, <1>4, <2>1, <2>3
    <3>2. Losses(t) = RealLosses(t) % 65536
      BY <2>1, <2>3 DEF Losses, RealLosses
    <3> QED
      BY <3>1, <3>2
  <2> QED
    BY <2>2, <2>3
<1> QED
  BY <1>4, <1>5, <1>6

\* A period: the rate it leaves, the losses it leaves behind, and why.
LEMMA PeriodAdopts ==
    ASSUME LossesKnown, NEW strong \in BOOLEAN, NEW t \in Traffic,
           sta_rateadaptive8187(strong, t)
    PROVE  LET r == IF strong THEN 108 ELSE OperaRate
               loss == Losses(t)
               back == trial # NoTrial /\ trial' = NoTrial /\ rate' \div 5 = trial.rate
           IN  /\ rate' \in Nat /\ LastRetryRate' = loss
               /\ trial'.rate \in Nat /\ trial'.loss \in Nat
               /\ rate' \div 5 > r => loss < 50 \/ back
               /\ rate' \div 5 < r =>
                     \/ loss > 15 /\ back
                     \/ loss > 40 /\ (LastRetryRate > 40 \/ r \in {11, 22})
<1> DEFINE r == IF strong THEN 108 ELSE OperaRate
           loss == Losses(t)
           back == trial # NoTrial /\ trial' = NoTrial /\ rate' \div 5 = trial.rate
           Goal == /\ rate' \in Nat /\ LastRetryRate' = loss
                   /\ trial'.rate \in Nat /\ trial'.loss \in Nat
                   /\ rate' \div 5 > r => loss < 50 \/ back
                   /\ rate' \div 5 < r =>
                         \/ loss > 15 /\ back
                         \/ loss > 40 /\ (LastRetryRate > 40 \/ r \in {11, 22})
<1>1. r \in Nat /\ loss \in Nat
  BY LossesCounted DEF LossesKnown, OperaRate
<1>2. ASSUME NEW q \in Nat, Adopt(q, loss)
      PROVE  rate' \in Nat /\ rate' \div 5 = q /\ LastRetryRate' = loss
  BY <1>2 DEF Adopt
<1>3. NoTrial.rate \in Nat /\ NoTrial.loss \in Nat
  BY DEF NoTrial
<1> SUFFICES Goal
  OBVIOUS
<1> HIDE DEF r, loss
<1>4. CASE loss = 0 /\ NoLosses(r)
  <2>1. trial' = trial
    BY <1>4 DEF NoLosses
  <2>2. Adopt(r, loss) \/ Adopt(NoDataStep(r), loss)
    BY <1>4 DEF NoLosses
  <2>3. NoDataStep(r) \in Nat /\ r <= NoDataStep(r)
    BY <1>1, LadderSteps DEF NoDataStep
  <2>4. \E q \in Nat : r <= q /\ Adopt(q, loss)
    BY <1>1, <2>2, <2>3
  <2> QED
    BY <1>1, <1>2, <1>4, <2>1, <2>4 DEF LossesKnown
<1>5. CASE TrialFailed(loss) /\ FailedTrial(loss)
  <2>1. trial # NoTrial /\ loss > 15 /\ trial' = NoTrial /\ Adopt(trial.rate, loss)
    BY <1>5 DEF TrialFailed, FailedTrial
  <2>2. trial.rate \in Nat
    BY DEF LossesKnown
  <2> QED
    BY <1>1, <1>2, <1>3, <2>1, <2>2
<1>6. CASE Lower(r, loss)
  <2>1. /\ r \in DOMAIN Ladder /\ loss > Ladder[r].worse
        /\ Ladder[r].how # "count" => LastRetryRate > Ladder[r].worse
    BY <1>6 DEF Lower, Worse
  <2>2. Adopt(Ladder[r].down, loss) \/ Adopt(r, loss)
    BY <1>6 DEF Lower
  <2>3. trial' = NoTrial
    BY <1>6 DEF Lower, EndTrial
  <2>4. \E q \in Nat : q <= r /\ Adopt(q, loss)
    BY <1>1, <2>1, <2>2, LadderSteps
  <2>5. loss > 40 /\ (LastRetryRate > 40 \/ r \in {11, 22})
    BY <1>1, <2>1, LadderSteps DEF LossesKnown
  <2> QED
    BY <1>1, <1>2, <1>3, <2>3, <2>4, <2>5
<1>7. CASE Raise(r, loss)
  <2>1. r \in DOMAIN Ladder /\ loss < Ladder[r].better
    BY <1>7 DEF Raise, Better
  <2>2. Adopt(Ladder[r].up, loss) /\ trial' = NoTrial
    BY <1>7 DEF Raise, EndTrial
  <2>3. loss < 50 /\ Ladder[r].up \in Nat /\ r <= Ladder[r].up
    BY <1>1, <2>1, LadderSteps
  <2> QED
    BY <1>1, <1>2, <1>3, <2>2, <2>3
<1>8. CASE Try(r, loss)
  <2>1. r \in DOMAIN Ladder /\ loss < Ladder[r].better
    BY <1>8 DEF Try, Better
  <2>2. Adopt(Ladder[r].up, loss) \/ Adopt(r, loss)
    BY <1>8 DEF Try
  <2>3. trial' = [rate |-> r, loss |-> loss] \/ trial' = NoTrial
    BY <1>8 DEF Try
  <2>4. loss < 50
    BY <1>1, <2>1, LadderSteps
  <2>5. \E q \in Nat : r <= q /\ Adopt(q, loss)
    BY <1>1, <2>1, <2>2, LadderSteps
  <2>6. trial'.rate \in Nat /\ trial'.loss \in Nat
    BY <1>1, <1>3, <2>3
  <2> QED
    BY <1>1, <1>2, <2>4, <2>5, <2>6
<1>9. CASE Stay(r, loss)
  <2>1. Adopt(r, loss) /\ trial' = NoTrial
    BY <1>9 DEF Stay, EndTrial
  <2> QED
    BY <1>1, <1>2, <1>3, <2>1
<1> QED
  BY <1>4, <1>5, <1>6, <1>7, <1>8, <1>9 DEF sta_rateadaptive8187, r, loss

LEMMA LossesStep ==
    ASSUME LossesKnown, [Next]_vars PROVE LossesKnown'
<1>1. CASE rtl8180_rate_adapter
  <2>1. PICK strong \in BOOLEAN, t \in Traffic : rate_adapter(strong, t)
    BY <1>1 DEF rtl8180_rate_adapter
  <2>2. before' = (RealLosses(t) > 40 \/ ~Countable(t))
    BY <2>1 DEF rate_adapter
  <2>3. sta_rateadaptive8187(strong, t)
    BY <2>1 DEF rate_adapter
  <2>4. /\ rate' \in Nat /\ LastRetryRate' = Losses(t)
        /\ trial'.rate \in Nat /\ trial'.loss \in Nat
    BY <2>3, PeriodAdopts
  <2>5. Losses(t) \in Nat /\ (Losses(t) > 40 => RealLosses(t) > 40 \/ ~Countable(t))
    BY LossesCounted
  <2> QED
    BY <2>2, <2>4, <2>5 DEF LossesKnown
<1>2. CASE ieee80211_associate_complete_wq
  BY <1>2 DEF ieee80211_associate_complete_wq, rateVars, LossesKnown
<1>3. ASSUME NEW u \in UserRate, wx_set_rate(u) PROVE LossesKnown'
  BY <1>3, RateGainAssumption DEF RateGainAssumption, wx_set_rate, rateVars, LossesKnown
<1>4. CASE UNCHANGED <<rate, rateVars>>
  BY <1>4 DEF rateVars, LossesKnown
<1> QED
  <2>1. timer_rate_adaptive \/ rtl8180_hw_dig_wq \/ watch_dog_adaptive \/ rtl8180_up
        \/ rtl8180_down \/ rf_set_chan \/ Associates \/ ieee80211_disassociate
        \/ UNCHANGED vars => UNCHANGED <<rate, rateVars>>
    BY DEF timer_rate_adaptive, rtl8180_hw_dig_wq, watch_dog_adaptive, rtl8180_up,
       rtl8180_down, rf_set_chan, Associates, ieee80211_disassociate, vars
  <2> QED
    BY <1>1, <1>2, <1>3, <1>4, <2>1 DEF Next

LEMMA LossesHold == FairSpec => []LossesKnown
<1>1. Init => LossesKnown
  BY DEF Init, LossesKnown, NoTrial
<1> QED
  BY <1>1, LossesStep, PTL DEF FairSpec

\* The rate goes up, and down, for what was lost, whatever the user sets it to and
\* however many frames a period has (sta_rateadaptive8187).
THEOREM RateGoesByLosses == FairSpec => RateFollowsLosses
<1> DEFINE Follows ==
      \A t \in Traffic : (Countable(t) /\ rate_adapter(FALSE, t))
        => LET r == OperaRate  now == RealLosses(t)  next == rate' \div 5
               back == trial # NoTrial /\ trial' = NoTrial /\ next = trial.rate
           IN /\ next > r => now < 50 \/ back
              /\ next < r => (now > 15 /\ back)
                              \/ (now > 40 /\ (before \/ r \in {11, 22}))
<1>1. ASSUME LossesKnown PROVE Follows
  <2> SUFFICES ASSUME NEW t \in Traffic, Countable(t), rate_adapter(FALSE, t)
               PROVE  LET r == OperaRate  now == RealLosses(t)  next == rate' \div 5
                          back == trial # NoTrial /\ trial' = NoTrial /\ next = trial.rate
                      IN /\ next > r => now < 50 \/ back
                         /\ next < r => (now > 15 /\ back)
                                         \/ (now > 40 /\ (before \/ r \in {11, 22}))
    OBVIOUS
  <2>1. sta_rateadaptive8187(FALSE, t)
    BY DEF rate_adapter
  <2>2. Losses(t) = RealLosses(t)
    BY LossesCounted
  <2>3. LastRetryRate > 40 => before
    BY <1>1 DEF LossesKnown
  <2> QED
    BY <1>1, <2>1, <2>2, <2>3, PeriodAdopts
<1>2. LossesKnown => [Follows]_vars
  BY <1>1
<1> HIDE DEF Follows
<1>3. FairSpec => [][Follows]_vars
  BY <1>2, LossesHold, PTL
<1> QED
  BY <1>3 DEF RateFollowsLosses, Follows
=============================================================================
