---------------------------- MODULE SenderModels ----------------------------
(***************************************************************************)
(* What the scheduler keeps of each sender beside DutyScheduler's          *)
(* controller: the learned cadence (Cadence), the wake windows it yields   *)
(* and the cached answer about them (WakeWindows), and the watchdogs on    *)
(* the sender's arrivals (DutyWatchdog), the latter for two senders that   *)
(* share the time of the next check and, over more blocks, for the one     *)
(* that learns its watchdog while the other is silent.                     *)
(*                                                                         *)
(* The three share no state: the controller hands fits and arrivals over   *)
(* by value, and each module takes them as inputs.  A behaviour therefore  *)
(* follows one of them, chosen at the start.                               *)
(***************************************************************************)
EXTENDS Integers, Sequences

CONSTANTS
  Intervals, HistoryLimit, MinHistoryLimit, WarmupIntervals, HistoryGrowAfter, Ladder, Floor,
  JitterQuantile, JitterMargin, ChangePointScale, Step, MaxWakeScale, MaxArrivals, MaxEvents, Unit,
  Fits, MaxTime,
  Seed, Block, History, MinIntervals, Window, Quantile, Margin,
  LongRun, ShortRun, MaxFaults

VARIABLES
  part,
  \* Cadence
  seen, history, learned, period, wake, effectiveHistory, stableIntervals, wakeScale, reanchor,
  down, real, arrivals, events,
  \* WakeWindows
  fit, now, cache, eligibility, eligible, awake, advanced,
  \* DutyWatchdog
  sender, lastEnd, dirty, nextCheck, reanchorPending, checked, observed, dropped, faults

cadenceVars == <<seen, history, learned, period, wake, effectiveHistory, stableIntervals, wakeScale,
                 reanchor, down, real, arrivals, events>>
windowVars == <<fit, now, cache, eligibility, eligible, awake, advanced>>
watchdogVars == <<sender, lastEnd, dirty, nextCheck, reanchorPending, checked, observed, dropped, faults>>
vars == <<part, cadenceVars, windowVars, watchdogVars>>

Pair == {"learns", "seeded"}

Model == INSTANCE Cadence

Windows == INSTANCE WakeWindows WITH Senders <- Pair

Watchdog == INSTANCE DutyWatchdog WITH
  Senders <- Pair, MaxBlocks <- LongRun,
  reanchor <- reanchorPending, advanced <- checked, arrivals <- observed

ASSUME ModelsAssumption ==
  Model!CadenceAssumption /\ Windows!WindowAssumption /\ Watchdog!WatchdogAssumption

Init ==
  /\ part \in {"cadence", "windows", "one", "two"}
  /\ Model!Init /\ Windows!Init /\ Watchdog!Init

Next ==
  \/ part = "cadence" /\ Model!Next /\ UNCHANGED <<part, windowVars, watchdogVars>>
  \/ part = "windows" /\ Windows!Next /\ UNCHANGED <<part, cadenceVars, watchdogVars>>
  \/ /\ part \in {"one", "two"} /\ Watchdog!Next /\ UNCHANGED <<part, cadenceVars, windowVars>>
     /\ IF part = "one" THEN ~sender["seeded"].seen' ELSE lastEnd' <= ShortRun * Block

Spec == Init /\ [][Next]_vars

-----------------------------------------------------------------------------
\* The intervals learned from are those the sample clock measured between two
\* arrivals of one run of the process, none over a restart and none missing,
\* through any order of arrivals, restarts and clock discontinuities.
HistoryReal == Model!HistoryReal

\* A learned model finds the period through missed arrivals, covers the share
\* of the intervals it was fitted to that its quantile names, and is accepted
\* by the next start, through change points, widening, tightening and
\* restarts.
CadenceSound == Model!CadenceSound

\* The cached wake answer agrees with the windows of the moment whenever
\* fits change, and no window can pass between two computations.
WindowsExact == Windows!WindowsExact

\* Watchdogs checked only when dirty or due find every silence and count
\* every deficit as a check at each block would, also for senders that share
\* the next check, no obligation is lost from the ledger, and the next start
\* accepts the state exported at any moment.
WatchdogExact == Watchdog!WatchdogExact
=============================================================================
