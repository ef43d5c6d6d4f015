---------------------------- MODULE DutyWatchdog ----------------------------
(***************************************************************************)
(* The watchdogs of internal/dutyscheduler: for every sender the overdue   *)
(* horizon and the rolling count it is held to, learned from its gaps or   *)
(* configured, the obligation each arrival opens, and the check that finds *)
(* a deficit.  Advance runs the check only when an arrival has made it     *)
(* dirty or when the time the last check asked for is reached.             *)
(*                                                                         *)
(* What follows a deficit (recovery, new epochs) is DutyScheduler's; there *)
(* a deficit is an input.  Times are multiples of Block, as are the ends   *)
(* of blocks; the unit is the nanosecond of the code's "+ 1".              *)
(***************************************************************************)
EXTENDS Integers, Sequences, FiniteSets, FiniteSetsExt, SequencesExt

CONSTANTS
  Senders,
  Seed,        \* sender -> [overdue, window, minimum], 0 when not configured
  Block,       \* length of a block
  History,     \* WatchdogHistory
  MinIntervals,\* WatchdogMinIntervals
  Window,      \* WatchdogWindow
  Quantile,    \* WatchdogQuantile in percent
  Margin,      \* WatchdogMargin in percent
  MaxBlocks, MaxFaults   \* bounds (model only)

WatchdogAssumption ==
  /\ Block \in Nat \ {0} /\ History \in Nat /\ MinIntervals \in 2 .. History
  /\ Window \in Nat \ {0} /\ Quantile \in 1 .. 100 /\ Margin \in Nat
  /\ MaxBlocks \in Nat /\ MaxFaults \in Nat
  /\ Seed \in [Senders -> [overdue : Nat, window : Nat, minimum : Nat]]
  /\ \A s \in Senders : Seed[s].minimum > 0 => Seed[s].window > 0

VARIABLES
  sender,     \* senderRuntime of each sender
  lastEnd,
  dirty,      \* watchdogDirty
  nextCheck,  \* nextWatchdogCheck
  reanchor,   \* reanchorPending
  advanced,   \* the last step was Advance
  arrivals,   \* times of the arrivals since the last discontinuity (history)
  dropped,    \* obligations a discontinuity dropped (history)
  faults      \* discontinuities and restarts

vars == <<sender, lastEnd, dirty, nextCheck, reanchor, advanced, arrivals, dropped, faults>>

Fresh ==
  [seen |-> FALSE, lastSeen |-> 0, observations |-> <<>>, countStart |-> 0, gaps |-> <<>>,
   learned |-> FALSE, learnedOverdue |-> 0, learnedMinimum |-> 0,
   obligationDue |-> 0, obligationOpen |-> FALSE, overdueOpen |-> FALSE, countOpen |-> FALSE,
   total |-> 0, opened |-> 0, closed |-> 0, deficits |-> 0]

Init ==
  /\ sender = [s \in Senders |-> Fresh]
  /\ lastEnd = 0 /\ dirty = TRUE /\ nextCheck = 0 /\ reanchor = {} /\ advanced = FALSE
  /\ arrivals = [s \in Senders |-> {}] /\ dropped = [s \in Senders |-> 0] /\ faults = 0

-----------------------------------------------------------------------------
(* Learning                                                                *)

\* The value at the configured quantile: in ascending order, the one at the
\* rank, rounded up.
DurationQuantile(values) ==
  LET rank       == Max({1, (Quantile * Len(values) + 99) \div 100})
      through(v) == Cardinality({i \in DOMAIN values : values[i] <= v})
  IN  Min({v \in Range(values) : through(v) >= rank})

\* The last n elements.
Newest(seq, n) == IF Len(seq) > n THEN SubSeq(seq, Len(seq) - n + 1, Len(seq)) ELSE seq

LearnWatchdog(r) ==
  IF Len(r.gaps) < MinIntervals THEN r
  ELSE LET learned == (DurationQuantile(r.gaps) * (100 + Margin)) \div 100
       IN  [r EXCEPT !.learned = TRUE, !.learnedOverdue = learned,
                     !.learnedMinimum = Max({1, Window \div learned})]

EffectiveOverdue(s, r) == Max({Seed[s].overdue, r.learnedOverdue})

EffectiveCountWindow(s, r) ==
  IF Seed[s].window > 0 THEN Seed[s].window ELSE IF r.learned THEN Window ELSE 0

EffectiveMinimumCount(s, r) ==
  IF r.learned /\ (Seed[s].minimum = 0 \/ r.learnedMinimum < Seed[s].minimum)
  THEN r.learnedMinimum ELSE Seed[s].minimum

\* Observations older than two windows go.
Trim(s, r, at) ==
  LET window == EffectiveCountWindow(s, r)
      first  == Cardinality({i \in DOMAIN r.observations : r.observations[i] < at - 2 * window})
  IN  IF window = 0 THEN r
      ELSE [r EXCEPT !.observations = SubSeq(@, first + 1, Len(@)),
                     !.countStart = Max({0, @ - first})]

OpenObligation(s, r, at) ==
  LET overdue == EffectiveOverdue(s, r)
  IN  IF overdue = 0 THEN r
      ELSE [r EXCEPT !.obligationDue = at + overdue, !.obligationOpen = TRUE, !.opened = @ + 1]

-----------------------------------------------------------------------------
(* Operations                                                              *)

Meet(r, at) ==
  [r EXCEPT !.lastSeen = at, !.seen = TRUE, !.total = @ + 1, !.overdueOpen = FALSE,
            !.closed = IF r.obligationOpen THEN @ + 1 ELSE @, !.obligationOpen = FALSE,
            !.observations = Append(@, at)]

\* observe, for an accepted arrival.  An escape comes from an earlier block.
Observe(s, at) ==
  LET r    == sender[s]
      met  == Meet(r, at)
      fit  == IF r.seen /\ s \notin reanchor
              THEN LearnWatchdog([met EXCEPT !.gaps = Newest(Append(@, at - r.lastSeen), History)])
              ELSE met
  IN  /\ lastEnd > 0 /\ at \in {lastEnd, lastEnd - Block} /\ at >= 0
      /\ r.seen => at > r.lastSeen
      /\ sender' = [sender EXCEPT ![s] = OpenObligation(s, Trim(s, fit, at), at)]
      /\ reanchor' = reanchor \ {s}
      /\ dirty' = TRUE /\ advanced' = FALSE
      /\ arrivals' = [arrivals EXCEPT ![s] = @ \cup {at}]
      /\ UNCHANGED <<lastEnd, nextCheck, dropped, faults>>

\* A deadline passes when its time is reached.
Overdue(s, r, now) == r.seen /\ r.obligationOpen /\ EffectiveOverdue(s, r) > 0 /\ now >= r.obligationDue

Counts(s, r) == r.seen /\ EffectiveMinimumCount(s, r) > 0 /\ EffectiveCountWindow(s, r) > 0

\* countStart moved past the observations that have left the window.
CountFrom(s, r, now) ==
  LET lower == now - EffectiveCountWindow(s, r)
      gone  == {i \in DOMAIN r.observations : i <= r.countStart \/ r.observations[i] < lower}
  IN  Cardinality(gone)

\* One sender's part of checkWatchdogs.
Check(s, r, now) ==
  LET late    == Overdue(s, r, now)
      counted == Counts(s, r) /\ now >= EffectiveCountWindow(s, r)
      from    == CountFrom(s, r, now)
      few     == Len(r.observations) - from < EffectiveMinimumCount(s, r)
  IN  [r EXCEPT !.overdueOpen = @ \/ late, !.obligationOpen = @ /\ ~late,
                !.deficits = IF late THEN @ + 1 ELSE @,
                !.countStart = IF counted THEN from ELSE @,
                !.countOpen = IF counted THEN few ELSE @]

\* The times at which a sender asks to be checked again: its obligation
\* expires, the first window is full, the observation that leaves exactly
\* the minimum falls out of the window.
CheckTimes(s, r, now) ==
  LET window  == EffectiveCountWindow(s, r)
      minimum == EffectiveMinimumCount(s, r)
  IN  {t \in (IF r.seen /\ r.obligationOpen /\ EffectiveOverdue(s, r) > 0 THEN {r.obligationDue} ELSE {})
           \cup (IF Counts(s, r) /\ now < window THEN {window} ELSE {})
           \cup (IF Counts(s, r) /\ now >= window /\ ~r.countOpen
                 THEN {r.observations[Len(r.observations) - minimum + 1] + window + 1} ELSE {}) : t > now}

\* A bug: the latest of the times wins.
CheckAtLatest(now) ==
  LET checked == [s \in Senders |-> Check(s, sender[s], now)]
      times   == UNION {CheckTimes(s, checked[s], now) : s \in Senders}
  IN  /\ sender' = checked /\ dirty' = FALSE
      /\ nextCheck' = IF times = {} THEN 0 ELSE Max(times)

CheckWatchdogs(now) ==
  LET checked == [s \in Senders |-> Check(s, sender[s], now)]
      times   == UNION {CheckTimes(s, checked[s], now) : s \in Senders}
  IN  /\ sender' = checked /\ dirty' = FALSE
      /\ nextCheck' = IF times = {} THEN 0 ELSE Min(times)

\* Advance over the next block.
Advance ==
  LET end == lastEnd + Block
  IN  /\ end <= MaxBlocks * Block
      /\ lastEnd' = end /\ advanced' = TRUE
      /\ IF dirty \/ (nextCheck > 0 /\ end >= nextCheck)
         THEN CheckWatchdogs(end)
         ELSE UNCHANGED <<sender, dirty, nextCheck>>
      /\ UNCHANGED <<reanchor, arrivals, dropped, faults>>

\* Advance over an interval that does not continue the clock: resetLearning.
\* The totals stay, the windows and what was learned go.
Discontinuity ==
  /\ faults < MaxFaults /\ lastEnd + 2 * Block <= MaxBlocks * Block
  /\ lastEnd' = lastEnd + 2 * Block
  /\ sender' = [s \in Senders |-> [Fresh EXCEPT !.total = sender[s].total, !.opened = sender[s].opened,
                                                !.closed = sender[s].closed, !.deficits = sender[s].deficits]]
  /\ dropped' = [s \in Senders |-> IF sender[s].obligationOpen THEN dropped[s] + 1 ELSE dropped[s]]
  /\ dirty' = TRUE /\ nextCheck' = 0 /\ advanced' = TRUE
  /\ arrivals' = [s \in Senders |-> {}]
  /\ faults' = faults + 1
  /\ UNCHANGED reanchor

\* A restart: New, applyState of the exported state, PrepareResume.
Resume ==
  /\ faults < MaxFaults /\ faults' = faults + 1
  /\ sender' = [s \in Senders |-> [sender[s] EXCEPT !.countStart = 0]]
  /\ dirty' = TRUE /\ nextCheck' = 0 /\ advanced' = FALSE
  /\ reanchor' = {s \in Senders : sender[s].seen}
  /\ UNCHANGED <<lastEnd, arrivals, dropped>>

Next ==
  \/ \E s \in Senders, at \in {lastEnd, lastEnd - Block} : Observe(s, at)
  \/ Advance \/ Discontinuity \/ Resume

Spec == Init /\ [][Next]_vars

-----------------------------------------------------------------------------
(* Properties                                                              *)

Increasing(seq) == \A i \in 1 .. Len(seq) - 1 : seq[i] < seq[i + 1]

TypeOK ==
  /\ lastEnd \in Nat /\ nextCheck \in Nat /\ {dirty, advanced} \subseteq BOOLEAN /\ reanchor \subseteq Senders
  /\ \A s \in Senders : /\ DOMAIN sender[s] = DOMAIN Fresh
                        /\ sender[s].countStart \in 0 .. Len(sender[s].observations)
                        /\ sender[s].learned => sender[s].learnedOverdue > 0 /\ sender[s].learnedMinimum > 0

\* A sender that has been silent for its overdue horizon is found out by the
\* very block that reaches it: scheduling the checks (checkWatchdogs,
\* nextWatchdogCheck) never loses one that checking at every block would make.
SilenceFound ==
  advanced =>
    \A s \in Senders :
      LET r == sender[s] horizon == EffectiveOverdue(s, r)
      IN  r.seen /\ horizon > 0 /\ lastEnd >= r.lastSeen + horizon => r.overdueOpen

\* The count deficit is open exactly while the rolling window holds too few
\* arrivals, although old arrivals are trimmed, the window's start is kept
\* from check to check and most blocks are not checked.
CountExact ==
  advanced =>
    \A s \in Senders :
      LET r == sender[s] window == EffectiveCountWindow(s, r)
      IN  Counts(s, r) /\ lastEnd >= window =>
            r.countOpen = (Cardinality({t \in arrivals[s] : t >= lastEnd - window})
                             < EffectiveMinimumCount(s, r))

\* Every obligation that was opened is closed by an arrival, became a
\* deficit, was dropped by a discontinuity or is the one still open, over
\* restarts, escapes and learned horizons.
Ledger ==
  \A s \in Senders :
    LET r == sender[s]
    IN  r.opened = r.closed + r.deficits + dropped[s] + (IF r.obligationOpen THEN 1 ELSE 0)

\* The next start accepts the state this one can export at any moment: the
\* sender checks of applyState hold.
ExportAccepted ==
  \A s \in Senders :
    LET r == sender[s]
    IN  /\ Increasing(r.observations) /\ \A i \in DOMAIN r.observations : r.observations[i] \in 0 .. lastEnd
        /\ r.seen => r.lastSeen <= lastEnd
        /\ ~r.seen => r.lastSeen = 0
        /\ r.total >= Len(r.observations)
        /\ \A i \in DOMAIN r.gaps : r.gaps[i] > 0
        /\ Len(r.gaps) <= History
        /\ r.closed <= r.opened /\ r.deficits <= r.opened

\* The watchdogs find what checks at every block would find, account for it
\* and can hand their state to the next start.
WatchdogExact == TypeOK /\ SilenceFound /\ CountExact /\ Ledger /\ ExportAccepted
=============================================================================
