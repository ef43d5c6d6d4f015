------------------------------- MODULE Cadence -------------------------------
(***************************************************************************)
(* How a candidate of internal/dutyscheduler fits one sender's cadence:    *)
(* the history of intervals, how much of it is used, the robust period and *)
(* the wake envelope, over change points, epochs, refreshes, clock         *)
(* discontinuities and restarts.                                           *)
(*                                                                         *)
(* Only intervals matter, so the clock is left out: an arrival is the      *)
(* interval since the one before.  The sample clock stands still while the *)
(* process is down, so the first interval after a restart is not real.     *)
(* The widths before and after an arrival differ by a constant factor      *)
(* (PreScale, PostScale); one of them is modelled.  The scale of the       *)
(* envelope and its step are whole numbers.                                *)
(*                                                                         *)
(* Fractions: periods inside RobustPeriod are in units of 1 / Unit.        *)
(***************************************************************************)
EXTENDS Integers, Sequences, FiniteSets, FiniteSetsExt, SequencesExt

CONSTANTS
  Intervals,         \* intervals between two arrivals
  HistoryLimit, MinHistoryLimit, WarmupIntervals, HistoryGrowAfter,
  Ladder,            \* the sizes of nextHistoryLimit: 8, 16, 32, 64, 128
  Floor,             \* R900Floor or OtherFloor
  JitterQuantile,    \* in percent
  JitterMargin,
  ChangePointScale,
  Step,              \* WakeScaleStep
  MaxWakeScale,
  MaxArrivals, MaxEvents,  \* bounds (model only)
  Unit               \* parts of a unit of time that periods are rounded to

\* What New and validateCandidate enforce.
CadenceAssumption ==
  /\ Intervals \subseteq Nat \ {0} /\ Floor \in Nat \ {0} /\ JitterMargin \in Nat
  /\ WarmupIntervals \in Nat /\ MinHistoryLimit \in Nat /\ HistoryLimit \in Nat
  /\ 2 <= WarmupIntervals /\ WarmupIntervals <= MinHistoryLimit /\ MinHistoryLimit <= HistoryLimit
  /\ HistoryGrowAfter \in Nat \ {0} /\ Ladder \in Seq(Nat) /\ ChangePointScale \in Nat \ {0}
  /\ Step \in Nat /\ Step >= 2 /\ MaxWakeScale \in Nat /\ MaxWakeScale >= Step
  /\ JitterQuantile \in 1 .. 100
  /\ MaxArrivals \in Nat /\ MaxEvents \in Nat /\ Unit \in Nat \ {0}

VARIABLES
  seen, history, learned, period, wake,          \* senderModel
  effectiveHistory, stableIntervals,
  wakeScale,
  reanchor,   \* reanchorPending
  down,       \* the process was down since the last arrival (history)
  real,       \* the newest intervals sampled without a gap (history)
  arrivals, events

vars == <<seen, history, learned, period, wake, effectiveHistory, stableIntervals, wakeScale, reanchor,
          down, real, arrivals, events>>

Init ==
  /\ seen = FALSE /\ history = <<>> /\ learned = FALSE /\ period = 0 /\ wake = 0
  /\ effectiveHistory = 0 /\ stableIntervals = 0 /\ wakeScale = 1 /\ reanchor = FALSE
  /\ down = FALSE /\ real = <<>> /\ arrivals = 0 /\ events = 0

-----------------------------------------------------------------------------
(* Fitting                                                                 *)

Abs(x) == IF x < 0 THEN -x ELSE x

\* The last n elements.
Newest(seq, n) == IF Len(seq) > n THEN SubSeq(seq, Len(seq) - n + 1, Len(seq)) ELSE seq

\* math.Round(a / b), at least 1.
Multiple(a, b) == Max({1, (2 * a + b) \div (2 * b)})

\* A collection of durations is a set of pairs of an index and a duration.
\* Its n-th smallest duration, and the middle one.
Ranked(values, n) ==
  Min({x[2] : x \in {x \in values : Cardinality({y \in values : y[2] <= x[2]}) >= n}})

Median(values) ==
  LET middle == Cardinality(values) \div 2
  IN  IF Cardinality(values) % 2 = 0 THEN (Ranked(values, middle) + Ranked(values, middle + 1)) \div 2
      ELSE Ranked(values, middle + 1)

\* One iteration of robustPeriod: each interval divided by the number of
\* periods it spans, outliers removed, the median of the rest.
Refine(values, p) ==
  LET normalized == {<<x[1], x[2] \div Multiple(x[2], p)>> : x \in values}
      center     == Median(normalized)
      mad        == Median({<<x[1], Abs(x[2] - center)>> : x \in normalized})
  IN  Median({x \in normalized : mad = 0 \/ Abs(x[2] - center) <= 4 * mad})

\* Four iterations from a first estimate, and what they leave unexplained.
Fit(values, base) ==
  LET fit == Refine(values, Refine(values, Refine(values, Refine(values, base))))
  IN  [period |-> fit \div Unit,
       residuals |-> {<<x[1], Abs(x[2] - Multiple(x[2], fit) * fit) \div Unit>> : x \in values}]

InUnits(intervals) == {<<i, intervals[i] * Unit>> : i \in DOMAIN intervals}

\* A bug: the first interval is taken for one period.
PeriodFromFirst(intervals) == Fit(InUnits(intervals), intervals[1] * Unit)

\* robustPeriod starts from the shortest interval.
RobustPeriod(intervals) == Fit(InUnits(intervals), Min(Range(intervals)) * Unit)

DurationQuantile(values) == Ranked(values, Max({1, (JitterQuantile * Cardinality(values) + 99) \div 100}))

NextHistoryLimit(current, maximum) ==
  LET larger == {n \in Range(Ladder) : n > current}
  IN  IF larger = {} THEN maximum ELSE Min({Min(larger), maximum})

CompatibleHistory(h, recentCount, extendedCount, tolerance) ==
  /\ recentCount >= 2 /\ extendedCount > recentCount /\ extendedCount <= Len(h)
  /\ LET recent   == RobustPeriod(Newest(h, recentCount)).period
         extended == RobustPeriod(Newest(h, extendedCount)).period
     IN  recent > 0 /\ extended > 0 /\ Abs(recent - extended) <= Max({tolerance, recent \div 1000})

\* The interval does not fit the learned period.
ChangePoint(delta) ==
  /\ learned
  /\ Abs(delta - Multiple(delta, period) * period) > Max({wake * ChangePointScale, period \div 20})

Envelope(fit, scale) == Max({Floor, DurationQuantile(fit.residuals) + JitterMargin}) * scale

-----------------------------------------------------------------------------
(* Arrivals                                                                *)

\* How much history is used after a change point.
FallBack(h) == Min({MinHistoryLimit, Len(h) + 1})

\* senderModel.observe for an arrival delta after the last.  A change point
\* begins a new, wider epoch.
Learn(delta) ==
  LET changed == seen /\ ChangePoint(delta)
      h       == IF seen THEN Newest(Append(history, delta), HistoryLimit) ELSE history
      stable  == IF changed THEN 0 ELSE IF seen /\ learned THEN stableIntervals + 1 ELSE stableIntervals
      used    == IF changed THEN FallBack(history)
                 ELSE IF effectiveHistory = 0 THEN Min({Len(h), MinHistoryLimit}) ELSE effectiveHistory
      most    == Min({Len(h), HistoryLimit})
      next    == NextHistoryLimit(used, most)
      grows   == stable >= HistoryGrowAfter /\ used < most /\ CompatibleHistory(h, used, next, wake)
      size    == IF grows THEN next ELSE used
      fit     == RobustPeriod(Newest(h, size))
      width   == Envelope(fit, wakeScale)
  IN  /\ seen' = TRUE /\ history' = h
      /\ IF Len(h) < WarmupIntervals
         THEN /\ effectiveHistory' = (IF changed THEN used ELSE effectiveHistory)
              /\ stableIntervals' = stable
              /\ UNCHANGED <<learned, period, wake, wakeScale>>
         ELSE /\ effectiveHistory' = size
              /\ stableIntervals' = (IF grows THEN 0 ELSE stable)
              /\ period' = fit.period /\ learned' = (fit.period > 0)
              /\ wake' = (IF changed /\ fit.period > 0 THEN width * Step ELSE width)
              /\ wakeScale' = (IF changed THEN Min({wakeScale * Step, MaxWakeScale}) ELSE wakeScale)

\* senderModel.reanchor: the phase moves, nothing is learned.
Reanchor(delta) ==
  /\ seen' = TRUE
  /\ UNCHANGED <<history, learned, period, wake, effectiveHistory, stableIntervals, wakeScale>>

\* What the sample clock measured: an interval is real when the process ran
\* from one arrival to the next, whatever the code takes it for.
Measure(delta) ==
  /\ real' = IF seen /\ ~down THEN Newest(Append(real, delta), HistoryLimit) ELSE real
  /\ down' = FALSE

Observe(delta) ==
  /\ arrivals < MaxArrivals /\ arrivals' = arrivals + 1
  /\ IF reanchor THEN Reanchor(delta) ELSE Learn(delta)
  /\ reanchor' = FALSE /\ Measure(delta)
  /\ UNCHANGED events

-----------------------------------------------------------------------------
(* What else changes a model                                               *)

Event == events < MaxEvents /\ events' = events + 1 /\ UNCHANGED arrivals

\* beginNewEpoch for another sender's change point or a recovery: wider.
\* At the cap the widths grow although the scale does not.
Widen ==
  /\ Event /\ wakeScale' = Min({wakeScale * Step, MaxWakeScale})
  /\ wake' = IF learned THEN wake * Step ELSE wake
  /\ UNCHANGED <<seen, history, learned, period, effectiveHistory, stableIntervals, reanchor, down, real>>

\* tightenAfterRefresh.
Tighten ==
  /\ Event /\ wakeScale > 1 /\ wakeScale' = Max({1, wakeScale \div Step})
  /\ wake' = IF learned THEN (wake * wakeScale') \div wakeScale ELSE wake
  /\ UNCHANGED <<seen, history, learned, period, effectiveHistory, stableIntervals, reanchor, down, real>>

\* resetLearning; reanchorPending stays as it is.
Discontinuity ==
  /\ Event /\ seen' = FALSE /\ history' = <<>> /\ learned' = FALSE /\ period' = 0 /\ wake' = 0
  /\ effectiveHistory' = 0 /\ stableIntervals' = 0 /\ wakeScale' = 1 /\ real' = <<>>
  /\ UNCHANGED <<reanchor, down>>

\* A bug: a start that takes the state as it is.
ResumeAsIs ==
  /\ Event /\ down' = TRUE
  /\ UNCHANGED <<seen, history, learned, period, wake, effectiveHistory, stableIntervals, wakeScale,
                 reanchor, real>>

\* A restart from the complete state: PrepareResume.
Resume ==
  /\ Event /\ reanchor' = seen /\ down' = TRUE
  /\ UNCHANGED <<seen, history, learned, period, wake, effectiveHistory, stableIntervals, wakeScale, real>>

Next ==
  \/ \E delta \in Intervals : Observe(delta)
  \/ Widen \/ Tighten \/ Discontinuity \/ Resume

Spec == Init /\ [][Next]_vars

-----------------------------------------------------------------------------
(* Properties                                                              *)

TypeOK ==
  /\ {seen, learned, reanchor, down} \subseteq BOOLEAN /\ wakeScale \in 1 .. MaxWakeScale
  /\ period \in Nat /\ wake \in Nat /\ stableIntervals \in Nat
  /\ Len(history) <= HistoryLimit

\* The next start accepts the model exported at any moment (validateModelState):
\* what is learned rests on at least the warmup, and the history in use exists.
ModelAccepted ==
  /\ effectiveHistory \in 0 .. Len(history)
  /\ ~seen => ~learned
  /\ learned => period > 0 /\ Len(history) >= WarmupIntervals /\ effectiveHistory >= WarmupIntervals

\* The history is exactly the newest intervals that were sampled without a
\* gap: the interval over a restart never enters it, whatever restarts and
\* clock discontinuities come between two arrivals ("without treating process
\* downtime as RF drift", PrepareResume), and no other interval is left out.
HistoryReal == history = real

\* The envelope in force is never narrower than the floor under the current
\* scale, through any order of change points, recoveries, refreshes and
\* restarts.
EnvelopeScaled == learned => wake >= Floor * wakeScale

\* When arrivals were missed but the shortest interval in use is one period,
\* that period is found: intervals that span several periods never pull the
\* fit away (robustPeriod), and neither does a change of history size.
PeriodFound ==
  LET used == {history[i] : i \in Len(history) - effectiveHistory + 1 .. Len(history)}
  IN  learned /\ (\A v \in used : v % Min(used) = 0) => period = Min(used)

\* The fitted envelope reaches the share JitterQuantile of the intervals it
\* was fitted to: an arrival that repeats one of these, missed arrivals
\* included, falls into the window the period predicts.  The period is cut to
\* whole units of time, so that a prediction over n periods may be off by n
\* units: intervals that span more periods than the margin are not counted
\* against the envelope.
EnvelopeCovers ==
  LET used    == Len(history) - effectiveHistory + 1 .. Len(history)
      reached == {i \in used : \/ Multiple(history[i], period) > JitterMargin
                              \/ Abs(history[i] - Multiple(history[i], period) * period) <= wake}
  IN  learned => 100 * Cardinality(reached) >= JitterQuantile * effectiveHistory

\* What is learned and what it rests on.
CadenceSound == TypeOK /\ ModelAccepted /\ EnvelopeScaled /\ PeriodFound /\ EnvelopeCovers
=============================================================================
