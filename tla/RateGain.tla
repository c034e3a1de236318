------------------------------ MODULE RateGain ------------------------------
(***************************************************************************)
(* The two controllers that run beside a link: the rate of the frames sent *)
(* (r8187_core.c, sta_rateadaptive8187), from the retries of each period,  *)
(* and the initial gain of the receiver (r8180_dm.c, DIG_Zebra), from its  *)
(* false alarms.  Each is a work that a timer queues on ieee->wq; both set *)
(* the gain, and the rate is set by an association and by the user too.    *)
(*                                                                         *)
(* The works are those of one worker, one step each.  The chip is a 8187   *)
(* with the Zebra2 radio.  Rates are in units of 500 kb/s, as              *)
(* CurrentOperaRate; ieee->rate is five times that.                        *)
(***************************************************************************)
EXTENDS Integers

CONSTANTS
    Traffic,       \* periods: <<frames sent, retries>>
    UserRate,      \* what iwconfig may set ieee->rate to
    NoDataPeriods, TryUpPeriods, TryDownPeriods,  \* 10, 20, 3
    UpgradeVotes,  \* 9
    CountWrap      \* 2^8, the values of a u8 counter

ASSUME RateGainAssumption ==
    /\ Traffic \subseteq Nat \X Nat /\ UserRate \subseteq Nat
    /\ {NoDataPeriods, TryUpPeriods, TryDownPeriods, UpgradeVotes} \subseteq Nat
    /\ CountWrap > TryDownPeriods + 1

VARIABLES
    up, state,          \* priv->up, ieee->state
    queued,             \* works that wait on ieee->wq
    rate,               \* ieee->rate
    CurrentOperaRate, LastRetryRate,
    TryupingCount, TryupingCountNoData, TryDownCountLowData,
    trial,              \* bTryuping: none, or CurrTxRate and CurrRetryRate, to go back to
    InitialGain, FallbackVote, UpgradeVote,
    chip,               \* the chip's gain registers 0x17, 0x24, 0x05
    \* history
    tuned,              \* nothing but UpdateInitialGain wrote these registers last
    before,             \* more than 40 % were lost in the last period, or it had
                        \* more frames than the counters hold
    quiet               \* evaluations in a row without false alarms, up to UpgradeVotes

linkVars == <<up, state>>
countVars == <<TryupingCount, TryupingCountNoData, TryDownCountLowData>>
rateVars == <<CurrentOperaRate, LastRetryRate, trial, countVars, before>>
voteVars == <<FallbackVote, UpgradeVote, quiet>>
vars == <<linkVars, queued, rate, rateVars, InitialGain, voteVars, chip, tuned>>

(***************************************************************************)
(* The gain                                                                *)
(***************************************************************************)
\* What UpdateInitialGain writes for a stage.
Stage(g) == CASE g = 2 -> <<54, 134, 250>>
              [] g = 3 -> <<54, 134, 251>>
              [] g = 4 -> <<70, 134, 251>>
              [] g = 5 -> <<70, 150, 251>>
              [] g = 6 -> <<86, 150, 252>>
              [] g = 7 -> <<86, 166, 252>>
              [] g = 8 -> <<102, 182, 252>>
              [] OTHER -> <<38, 134, 250>>
\* What rtl8225z2_rf_init leaves.
Boot == <<64, 70, 0>>

UpdateInitialGain(g) == InitialGain' = g /\ chip' = Stage(g) /\ tuned' = TRUE
GainStays == UNCHANGED <<InitialGain, chip, tuned>>
\* Mutant of WantGain: the stage is noted and not written.
WantGain_noted(g) == InitialGain' = g /\ UNCHANGED <<chip, tuned>>
\* As it stands at each step of the rate that wants a gain of its own.
WantGain(g) == IF InitialGain # g THEN UpdateInitialGain(g) ELSE GainStays

NoTrial == [rate |-> 0, loss |-> 0]
Init ==
    /\ up = FALSE /\ state = "NOLINK"
    /\ queued = {}
    /\ rate = 110 /\ CurrentOperaRate = 22 /\ LastRetryRate = 0
    /\ TryupingCount = 0 /\ TryupingCountNoData = 0 /\ TryDownCountLowData = 0
    /\ trial = NoTrial
    /\ InitialGain = 0 /\ FallbackVote = 0 /\ UpgradeVote = 0 /\ chip = Boot
    /\ tuned = FALSE /\ before = FALSE /\ quiet = 0

(***************************************************************************)
(* The rate, once per period                                               *)
(***************************************************************************)
\* The steps between two rates.  "down": the losses that lower the rate, in two
\* periods one after the other ("both"), or in more than TryDownPeriods
\* ("count"), or in as many of which each follows a bad one ("count_both").
\* "up": the losses below which it is raised, in two periods or on trial.
Rung(at, down, worse, how, gdown, up_, better, try, gup) ==
    [at |-> at, down |-> down, worse |-> worse, how |-> how, gdown |-> gdown,
     up |-> up_, better |-> better, try |-> try, gup |-> gup]
Rungs ==
    { Rung(108, 96, 40, "both", 0,     108, 0, "both", 0),
      Rung( 96, 72, 40, "both", 0,     108, 15, "both", 0),
      Rung( 72, 48, 99, "both", 0,     96, 15, "trial", 0),
      Rung( 48, 36, 99, "both", 4,     72, 15, "both", 0),
      Rung( 36, 22, 99, "both", 4,     48, 15, "both", 5),
      Rung( 22, 11, 299, "count", 3,   36, 45, "trial", 0),
      Rung( 11, 4, 199, "count", 3,    22, 30, "both", 4),
      Rung(  4, 2, 99, "count_both", 3, 11, 50, "both", 0),
      Rung(  2, 2, 65536, "both", 0,   4, 50, "both", 0) }
Ladder == [r \in {g.at : g \in Rungs} |-> CHOOSE g \in Rungs : g.at = r]

\* Mutant of NoDataStep: from 11 Mb/s to 12 Mb/s, which is no rung.
NoDataStep_12(r) == IF r = 22 THEN 24 ELSE IF r \in DOMAIN Ladder THEN Ladder[r].up ELSE r
\* The climb of a link that sends nothing.
NoDataStep(r) == IF r \in DOMAIN Ladder THEN Ladder[r].up ELSE r

Adopt(r, loss) ==
    /\ CurrentOperaRate' = r /\ LastRetryRate' = loss /\ rate' = r * 5

\* Mutant of NoLosses: the losses before it are kept, a return instead of goto end.
NoLosses_return(r) ==
    /\ IF TryupingCountNoData >= NoDataPeriods
         THEN TryupingCountNoData' = 0 /\ Adopt(NoDataStep(r), LastRetryRate)
         ELSE TryupingCountNoData' = TryupingCountNoData + 1 /\ Adopt(r, LastRetryRate)
    /\ UNCHANGED <<TryupingCount, TryDownCountLowData, trial>> /\ GainStays
\* Nothing sent, or nothing sent twice.
NoLosses(r) ==
    /\ IF TryupingCountNoData >= NoDataPeriods
         THEN TryupingCountNoData' = 0 /\ Adopt(NoDataStep(r), 0)
         ELSE TryupingCountNoData' = TryupingCountNoData + 1 /\ Adopt(r, 0)
    /\ UNCHANGED <<TryupingCount, TryDownCountLowData, trial>> /\ GainStays

\* The trial is over; it failed if there are more losses than at the rate before it.
TrialFailed(loss) == trial # NoTrial /\ loss > 15 /\ trial.loss < loss
FailedTrial(loss) ==
    /\ Adopt(trial.rate, loss)
    /\ trial' = NoTrial /\ TryupingCount' = 0 /\ TryupingCountNoData' = 0
    /\ UNCHANGED TryDownCountLowData /\ GainStays

\* Losses that lower the rate, if there were enough of them; losses that raise it.
Worse(r, loss) ==
    /\ r \in DOMAIN Ladder /\ loss > Ladder[r].worse
    /\ Ladder[r].how # "count" => LastRetryRate > Ladder[r].worse
Better(r, loss) ==
    /\ r \in DOMAIN Ladder /\ loss < Ladder[r].better
    /\ Ladder[r].try = "both" => LastRetryRate < Ladder[r].better

EndTrial == trial' = NoTrial /\ TryupingCountNoData' = 0
TrialCount == IF trial # NoTrial THEN 0 ELSE TryupingCount
Regain(g) == IF g # 0 THEN WantGain(g) ELSE GainStays

\* u8: 255 and one is none, and at the lowest step the count goes on.
Lower(r, loss) ==
    LET n == (TryDownCountLowData + 1) % CountWrap
        counted == Ladder[r].how # "both"
        lowers == counted => n > TryDownPeriods
    IN
    /\ Worse(r, loss)
    /\ IF lowers THEN Adopt(Ladder[r].down, loss) /\ Regain(Ladder[r].gdown)
                 ELSE Adopt(r, loss) /\ GainStays
    /\ TryDownCountLowData' = IF lowers /\ Ladder[r].how = "count" THEN 0
                              ELSE IF counted THEN n ELSE TryDownCountLowData
    /\ EndTrial /\ TryupingCount' = TrialCount

Forgives(r) == r \in {22, 11, 4}
Raise(r, loss) ==
    /\ ~ Worse(r, loss) /\ Better(r, loss) /\ Ladder[r].try = "both"
    /\ Adopt(Ladder[r].up, loss) /\ Regain(Ladder[r].gup)
    /\ TryDownCountLowData' = IF Forgives(r) THEN 0 ELSE TryDownCountLowData
    /\ EndTrial /\ TryupingCount' = TrialCount

\* The steps that are tried first, when long enough nothing speaks against it.
Try(r, loss) ==
    LET tries == TrialCount >= TryUpPeriods
    IN
    /\ ~ Worse(r, loss) /\ Better(r, loss) /\ Ladder[r].try = "trial"
    /\ TryDownCountLowData' = IF Forgives(r) THEN 0 ELSE TryDownCountLowData
    /\ TryupingCountNoData' = 0
    /\ trial' = IF tries THEN [rate |-> r, loss |-> loss] ELSE NoTrial
    /\ TryupingCount' = IF tries THEN 0 ELSE TrialCount + 1
    /\ Adopt(IF tries THEN Ladder[r].up ELSE r, loss) /\ GainStays

Stay(r, loss) ==
    /\ ~ Worse(r, loss) /\ ~ Better(r, loss)
    /\ Adopt(r, loss) /\ GainStays
    /\ EndTrial /\ TryupingCount' = TrialCount
    /\ UNCHANGED TryDownCountLowData

\* u8 and u16: 256 frames look like none, and 65600 % of losses like 64 %.
CurrTxokCnt(t) == t[1] % 256
Losses(t) == IF CurrTxokCnt(t) = 0 THEN 0
             ELSE ((t[2] * 100) \div CurrTxokCnt(t)) % 65536

\* CurrentOperaRate is a u8 too, ieee->rate what the user asked for.
OperaRate == (rate \div 5) % 256

\* A beacon that is "strong" makes it 54 Mb/s at once.
sta_rateadaptive8187(strong, t) ==
    LET r == IF strong THEN 108 ELSE OperaRate
        loss == Losses(t)
    IN IF loss = 0 THEN NoLosses(r)
       ELSE IF TrialFailed(loss) THEN FailedTrial(loss)
       ELSE Lower(r, loss) \/ Raise(r, loss) \/ Try(r, loss) \/ Stay(r, loss)

\* What was really lost; the periods whose frames the counters hold.
RealLosses(t) == IF t[1] = 0 THEN 0 ELSE (t[2] * 100) \div t[1]
Countable(t) == t[1] < 256 /\ t[2] * 100 < 65536
rate_adapter(strong, t) ==
    /\ "rate" \in queued /\ queued' = queued \ {"rate"}
    /\ sta_rateadaptive8187(strong, t)
    /\ before' = (RealLosses(t) > 40 \/ ~Countable(t))
    /\ UNCHANGED <<linkVars, voteVars>>
rtl8180_rate_adapter == \E strong \in BOOLEAN, t \in Traffic : rate_adapter(strong, t)

timer_rate_adaptive ==
    /\ up
    /\ queued' = IF state = "LINKED" THEN queued \cup {"rate"} ELSE queued
    /\ UNCHANGED <<linkVars, rate, rateVars, InitialGain, voteVars, chip, tuned>>

(***************************************************************************)
(* The gain, from the false alarms                                         *)
(***************************************************************************)
CheckDig == state = "LINKED" /\ CurrentOperaRate >= 48
watch_dog_adaptive ==
    /\ up
    /\ queued' = IF CheckDig THEN queued \cup {"dig"} ELSE queued
    /\ UNCHANGED <<linkVars, rate, rateVars, InitialGain, voteVars, chip, tuned>>

\* The first evaluation takes stage 4 as what the chip has.
FirstGain == IF InitialGain = 0 THEN 4 ELSE IF InitialGain > 7 THEN 5 ELSE InitialGain
FewerVotes == IF FallbackVote > 0 THEN FallbackVote - 1 ELSE 0
Keep(g) == InitialGain' = g /\ UNCHANGED <<chip, tuned>>

Loud ==
    /\ IF FallbackVote >= 1
         THEN /\ FallbackVote' = 0
              /\ IF FirstGain < 7 THEN UpdateInitialGain(FirstGain + 1) ELSE Keep(FirstGain)
         ELSE FallbackVote' = 1 /\ Keep(FirstGain)
    /\ UpgradeVote' = 0
\* Mutant of Noisy: the votes for a lower stage are kept.
Noisy_kept == FallbackVote' = FewerVotes /\ UNCHANGED UpgradeVote /\ Keep(FirstGain)
Noisy == FallbackVote' = FewerVotes /\ UpgradeVote' = 0 /\ Keep(FirstGain)
Silent ==
    IF UpgradeVote >= UpgradeVotes
      THEN /\ FallbackVote' = 0 /\ UpgradeVote' = 0
           /\ IF FirstGain > 4 THEN UpdateInitialGain(FirstGain - 1) ELSE Keep(FirstGain)
      ELSE /\ FallbackVote' = FewerVotes /\ UpgradeVote' = UpgradeVote + 1
           /\ Keep(FirstGain)

Smaller(m, n) == IF m < n THEN m ELSE n
rtl8180_hw_dig_wq ==
    /\ "dig" \in queued /\ queued' = queued \ {"dig"}
    /\ \/ (Loud \/ Noisy) /\ quiet' = 0
       \/ Silent /\ quiet' = Smaller(quiet + 1, UpgradeVotes)
    /\ UNCHANGED <<linkVars, rate, rateVars>>

(***************************************************************************)
(* What else touches rate and registers                                    *)
(***************************************************************************)
\* _rtl8180_up, first or in a reset: rf_init, and no link.
rtl8180_up ==
    /\ up' = TRUE /\ state' = "NOLINK" /\ chip' = Boot /\ tuned' = FALSE
    /\ UNCHANGED <<queued, rate, rateVars, InitialGain, voteVars>>
\* Works that are queued stay so.
rtl8180_down ==
    /\ up /\ up' = FALSE /\ state' = "NOLINK"
    /\ UNCHANGED <<queued, rate, rateVars, InitialGain, voteVars, chip, tuned>>
\* Every change of channel sets the transmit power, which clears register 0x05.
rf_set_chan ==
    /\ up /\ chip' = [chip EXCEPT ![3] = 0] /\ tuned' = FALSE
    /\ UNCHANGED <<linkVars, queued, rate, rateVars, InitialGain, voteVars>>

\* ieee80211_rx_frame_softmac: an accepted association; the rate is for the work.
Associates ==
    /\ up /\ state = "NOLINK"
    /\ state' = "LINKED" /\ queued' = queued \cup {"complete"}
    /\ UNCHANGED <<up, rate, rateVars, InitialGain, voteVars, chip, tuned>>
\* Whether current_network is 54g is not followed.
ieee80211_associate_complete_wq ==
    /\ "complete" \in queued /\ queued' = queued \ {"complete"}
    /\ rate' \in {540, 110}
    /\ UNCHANGED <<linkVars, rateVars, InitialGain, voteVars, chip, tuned>>
ieee80211_disassociate ==
    /\ up /\ state' = "NOLINK"
    /\ UNCHANGED <<up, queued, rate, rateVars, InitialGain, voteVars, chip, tuned>>
wx_set_rate(r) ==
    /\ rate' = r
    /\ UNCHANGED <<linkVars, queued, rateVars, InitialGain, voteVars, chip, tuned>>

Next ==
    \/ rtl8180_rate_adapter \/ timer_rate_adaptive
    \/ rtl8180_hw_dig_wq \/ watch_dog_adaptive
    \/ rtl8180_up \/ rtl8180_down \/ rf_set_chan
    \/ Associates \/ ieee80211_associate_complete_wq \/ ieee80211_disassociate
    \/ \E r \in UserRate : wx_set_rate(r)

\* The timer sets itself again, the worker takes what is queued.
FairSpec ==
    /\ Init /\ [][Next]_vars
    /\ WF_vars(timer_rate_adaptive) /\ WF_vars(rtl8180_rate_adapter)

(***************************************************************************)
(* Properties                                                              *)
(***************************************************************************)
\* The registers UpdateInitialGain writes hold the stage that InitialGain says, as
\* long as no other code writes them (rf_init and the change of channel do): the
\* two controllers, each of which changes the stage, never leave one unwritten.
GainIsOnTheChip == tuned => chip = Stage(InitialGain)

\* A link that loses nothing, and whose rate nobody else sets any more, climbs to
\* 54 Mb/s (sta_rateadaptive8187, the case of no data), unless the user chose one of
\* the rates that are no steps of it, which stays (cut to a u8).
Linked == up /\ state = "LINKED"
OffLadder == {r \in UserRate \cup {((u \div 5) % 256) * 5 : u \in UserRate} :
                 (r \div 5) % 256 \notin DOMAIN Ladder}
NothingLost ==
    IF "rate" \in queued \ queued'
      THEN \E strong \in BOOLEAN, t \in Traffic :
              Losses(t) = 0 /\ rate_adapter(strong, t)
      ELSE rate' = rate
QuietClimbs ==
    (<>[]Linked /\ <>[][NothingLost]_vars)
        => []<>(rate = 540) \/ <>[](rate \in OffLadder)

\* The rate follows what is really lost, of frames few enough to be counted: it is
\* raised if less than half of them was repeated, or back from a trial; it is
\* lowered back from a trial, or when more than 40 % were repeated in this period
\* and, but for the rates of 5.5 and 11 Mb/s, in the one before, unless that one had
\* too many to be counted (sta_rateadaptive8187; a strong beacon overrides it).
RateFollowsLosses ==
    [][\A t \in Traffic : (Countable(t) /\ rate_adapter(FALSE, t))
        => LET r == OperaRate  now == RealLosses(t)  next == rate' \div 5
               back == trial # NoTrial /\ trial' = NoTrial /\ next = trial.rate
           IN /\ next > r => now < 50 \/ back
              /\ next < r => (now > 15 /\ back)
                              \/ (now > 40 /\ (before \/ r \in {11, 22}))]_vars

\* The gain is lowered one stage at a time by the false alarms, and only after
\* UpgradeVotes + 1 evaluations in a row without any (DIG_Zebra).
LowersAfterQuiet ==
    [][(rtl8180_hw_dig_wq /\ InitialGain # 0 /\ InitialGain' < InitialGain)
        => InitialGain' = InitialGain - 1 /\ quiet >= UpgradeVotes]_vars
=============================================================================
