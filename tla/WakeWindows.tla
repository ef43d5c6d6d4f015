----------------------------- MODULE WakeWindows -----------------------------
(***************************************************************************)
(* The wake windows of one candidate of internal/dutyscheduler: every      *)
(* sender has a fitted period, an anchor and a window around each expected *)
(* arrival; a block is awake when it meets a window of some sender.  The   *)
(* answer is computed for one block and reused for later ones until the    *)
(* cached window is over or the next one begins, or a fit changes.         *)
(*                                                                         *)
(* The fits themselves are inputs here; Cadence models how they are made.  *)
(***************************************************************************)
EXTENDS Integers, FiniteSets, FiniteSetsExt

CONSTANTS
  Senders,
  Fits,       \* [learned, period, pre, post] a sender may get
  Block,      \* length of a block
  MaxTime     \* bound on the clock (model only)

WindowAssumption ==
  /\ Block \in Nat \ {0} /\ MaxTime \in Nat
  /\ \A f \in Fits : /\ f.learned \in BOOLEAN /\ f.period \in Nat /\ f.pre \in Nat /\ f.post \in Nat
                     /\ f.learned => f.period > 0

VARIABLES
  fit,        \* sender -> its fit and anchor
  now,        \* end of the last block
  cache,      \* [valid, until, next]: wakeCacheValid, wakeUntil, nextWakeStart
  eligibility,\* [dirty, cached]
  eligible, awake,  \* lastEligible, lastAwake
  advanced    \* the last step was Advance

vars == <<fit, now, cache, eligibility, eligible, awake, advanced>>

Infinity == MaxTime * 1000

Invalid == [valid |-> FALSE, until |-> 0, next |-> 0]
Unlearned == [learned |-> FALSE, period |-> 0, pre |-> 0, post |-> 0, anchor |-> 0]

Init ==
  /\ fit = [s \in Senders |-> Unlearned]
  /\ now = 0 /\ cache = Invalid /\ eligibility = [dirty |-> TRUE, cached |-> FALSE]
  /\ eligible = FALSE /\ awake = FALSE /\ advanced = FALSE

-----------------------------------------------------------------------------

Ceil(a, b) == -((-a) \div b)

\* senderModel.awakeWindow: the first window that does not end before start.
AwakeWindow(f, start, end) ==
  LET first  == Ceil(start - f.post - f.anchor, f.period)
      center == f.anchor + first * f.period
      from   == center - f.pre
      until  == center + f.post
  IN  IF from < end /\ until > start
      THEN [awake |-> TRUE, until |-> until, next |-> Infinity]
      ELSE [awake |-> FALSE, until |-> 0, next |-> IF until <= start THEN from + f.period ELSE from]

\* candidate.allLearned.
AllLearned == IF eligibility.dirty THEN \A s \in Senders : fit[s].learned ELSE eligibility.cached

\* What the cache says of a block: awake, asleep or nothing.
Cached(start, end) ==
  CASE cache.valid /\ cache.until > start -> "awake"
    [] cache.valid /\ cache.until = 0 /\ cache.next >= end -> "asleep"
    [] OTHER -> "unknown"

\* candidate.awakeDuring, when the cache does not know.
Computed(start, end) ==
  LET windows == {AwakeWindow(fit[s], start, end) : s \in Senders}
      open    == {w \in windows : w.awake}
  IN  [valid |-> TRUE,
       until |-> Max({0} \cup {w.until : w \in open}),
       next  |-> Min({Infinity} \cup {w.next : w \in windows \ open})]

\* The candidate's part of Advance: one block.
Advance ==
  LET end   == now + Block
      known == Cached(now, end)
      fresh == Computed(now, end)
  IN  /\ end <= MaxTime
      /\ now' = end /\ advanced' = TRUE
      /\ eligible' = AllLearned /\ eligibility' = [dirty |-> FALSE, cached |-> AllLearned]
      /\ IF ~AllLearned
         THEN awake' = TRUE /\ UNCHANGED cache
         ELSE IF known # "unknown"
         THEN awake' = (known = "awake") /\ UNCHANGED cache
         ELSE awake' = (fresh.until > 0) /\ cache' = fresh
      /\ UNCHANGED fit

\* A bug: the cached answer survives a new fit.
RefitCached(s, f, at) ==
  /\ advanced /\ at <= now
  /\ fit' = [fit EXCEPT ![s] = [learned |-> f.learned, period |-> f.period, pre |-> f.pre,
                                post |-> f.post, anchor |-> at]]
  /\ eligibility' = [eligibility EXCEPT !.dirty = TRUE]
  /\ advanced' = FALSE
  /\ UNCHANGED <<now, cache, eligible, awake>>

\* An arrival, an epoch or a narrower scale changes a fit: invalidateSchedule.
Refit(s, f, at) ==
  /\ advanced /\ at <= now
  /\ fit' = [fit EXCEPT ![s] = [learned |-> f.learned, period |-> f.period, pre |-> f.pre,
                                post |-> f.post, anchor |-> at]]
  /\ cache' = Invalid /\ eligibility' = [eligibility EXCEPT !.dirty = TRUE]
  /\ advanced' = FALSE
  /\ UNCHANGED <<now, eligible, awake>>

\* Advance over an interval that does not continue the clock: resetLearning.
Discontinuity ==
  /\ \E t \in 0 .. MaxTime : now' = t
  /\ fit' = [s \in Senders |-> Unlearned]
  /\ cache' = Invalid /\ eligibility' = [eligibility EXCEPT !.dirty = TRUE]
  /\ eligible' = FALSE /\ awake' = TRUE /\ advanced' = FALSE

Next ==
  \/ Advance
  \/ \E s \in Senders, f \in Fits, at \in {now, now - Block} : at >= 0 /\ Refit(s, f, at)
  \/ Discontinuity

Spec == Init /\ [][Next]_vars

-----------------------------------------------------------------------------
(* Properties                                                              *)

TypeOK ==
  /\ now \in 0 .. MaxTime /\ {eligible, awake, advanced} \subseteq BOOLEAN
  /\ cache.until >= 0 /\ cache.valid \in BOOLEAN
  /\ \A s \in Senders : fit[s].learned => fit[s].period > 0

\* Some window of the fit meets the block, whichever period it is in.
Meets(f, start, end) ==
  \E k \in -(MaxTime + 1) .. MaxTime + 1 :
    f.anchor + k * f.period - f.pre < end /\ f.anchor + k * f.period + f.post > start

\* Between two windows of a sender there is room for a block.
Apart(f) == f.pre + f.post + Block <= f.period

\* The answer for a block, cached or not, is the one computed from the fits
\* of the moment: eligible when all senders are learned, and awake exactly
\* when the block meets a window (candidate.awakeDuring, allLearned).
ScheduleExact ==
  advanced =>
    /\ eligible = \A s \in Senders : fit[s].learned
    /\ eligible /\ (\A s \in Senders : Apart(fit[s]))
         => awake = \E s \in Senders : Meets(fit[s], now - Block, now)

\* While the candidate sleeps, the cached start of the next window is not
\* after it: no window can begin and pass between two computations.
NoWindowSkipped ==
  cache.valid /\ cache.until = 0 /\ (\A s \in Senders : Apart(fit[s])) =>
    \A s \in Senders, t \in now .. MaxTime :
      t + Block <= cache.next => ~Meets(fit[s], t, t + Block)

\* The cached schedule is the one the windows give.
WindowsExact == TypeOK /\ ScheduleExact /\ NoWindowSkipped
=============================================================================
