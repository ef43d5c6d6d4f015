---------------------------- MODULE DutyScheduler ----------------------------
(***************************************************************************)
(* internal/dutyscheduler in gated mode: the controller that scores every  *)
(* block for every candidate schedule, decides whether the block is        *)
(* decoded, and learns from the arrivals it is told about.  (In shadow     *)
(* mode chooseCandidate never selects, so every block is decoded.)         *)
(*                                                                         *)
(* Time is counted in blocks: Advance moves the clock from lastEnd to      *)
(* lastEnd + 1.  The block loop around it is DutyCollar's: a decoded block *)
(* reports its arrivals at its own end, and if blocks were skipped before  *)
(* it, their arrivals first, as escapes, at their own ends.                *)
(*                                                                         *)
(* Abstracted: the fitted cadence (whether a candidate's wake windows      *)
(* cover a block, and whether an interval is a change point, are inputs,   *)
(* the latter only once a period has been learned); which candidates have  *)
(* slept most so far (an input, too); the watchdogs' own bookkeeping       *)
(* (whether a check finds a new deficit is an input); the confidence bound *)
(* (a miss raises the number of events required by MissCost); the wake     *)
(* scale, which is a level 0 .. MaxScale.                                  *)
(***************************************************************************)
EXTENDS Integers

CONSTANTS
  Candidates,
  Senders,
  Seeded,             \* senders with a configured watchdog (Overdue, CountWindow, MinimumCount)
  None,
  Warmup,             \* WarmupIntervals
  WatchdogMin,        \* WatchdogMinIntervals
  CaptureNeed,        \* events a clean sender needs for CaptureTarget
  PromotionNeed,      \* ... for CaptureTarget + PromotionMargin
  MissCost,           \* further events needed per miss
  MaxScale,           \* level of MaxWakeScale
  AuditPercent,       \* auditFraction at each level
  RefreshInterval,    \* refreshInterval at each level
  RefreshDuration, RecoveryDuration, PromotionStability,
  MaxTime,            \* bound on the clock (model only)
  MaxFaults           \* bound on rejected arrivals, gaps and restarts (model only)

Levels == 0 .. MaxScale

\* What New, normalizeConfig and validateCandidate enforce.
ASSUME SchedulerAssumption ==
  /\ None \notin Candidates /\ Senders # {} /\ Seeded \subseteq Senders
  /\ Warmup \in Nat /\ Warmup >= 2 /\ WatchdogMin \in Nat /\ WatchdogMin >= 2
  /\ CaptureNeed \in Nat \ {0} /\ PromotionNeed \in Nat /\ PromotionNeed >= CaptureNeed
  /\ MissCost \in Nat /\ MaxScale \in Nat \ {0}
  /\ AuditPercent \in [Levels -> 0 .. 100]
  /\ RefreshInterval \in [Levels -> Nat \ {0}]
  /\ RefreshDuration \in Nat \ {0} /\ RefreshDuration < RefreshInterval[0]
  /\ RecoveryDuration \in Nat /\ PromotionStability \in Nat \ {0}
  /\ MaxTime \in Nat /\ MaxFaults \in Nat

VARIABLES
  cand,            \* the candidates
  selected,        \* s.selected
  lastEnd, recoveryUntil, refreshUntil, nextRefresh,
  quiet,           \* s.quietCandidate, None when not quietActive
  audit,           \* s.auditActive
  seen,            \* senders heard of
  lastSeen,        \* ... and when last, if in the blocks now reported, else 0
  gaps,            \* intervals known to each sender's watchdog, up to WatchdogMin
  reanchor,        \* s.reanchorPending
  decode,          \* the decision for the block that ends at lastEnd
  live,            \* that block is the one being processed (not so after a restart)
  asleepFrom,      \* end of the last block decoded before it
  quarantine,      \* blocks still to be decoded after an alarm (model only)
  sinceFull,       \* blocks since the last refreshed or unselected one (model only)
  faults           \* rejected arrivals, gaps and restarts so far (model only)

clockVars == <<lastEnd, recoveryUntil, refreshUntil, nextRefresh>>
auditVars == <<quiet, audit>>
senderVars == <<seen, lastSeen, gaps, reanchor>>
blockVars == <<decode, live, asleepFrom>>
ghostVars == <<quarantine, sinceFull, faults>>
vars == <<cand, selected, clockVars, auditVars, senderVars, blockVars, ghostVars>>

Larger(a, b) == IF a >= b THEN a ELSE b
Lesser(a, b) == IF a <= b THEN a ELSE b
-----------------------------------------------------------------------------
(* Candidates.                                                             *)

Fresh ==
  [history |-> [s \in Senders |-> 0],   \* intervals, up to Warmup
   events  |-> [s \in Senders |-> 0], misses |-> [s \in Senders |-> 0],
   scored |-> FALSE,                    \* eligibleDuration > 0
   lastEligible |-> FALSE, lastAwake |-> FALSE,
   invalid |-> FALSE, qualified |-> FALSE, scale |-> 0,
   promotionReady |-> 0, recoveryUntil |-> 0]

Learned(c, s) == c.history[s] = Warmup
AllLearned(c) == \A s \in Senders : Learned(c, s)

\* A bug: the scale may grow past its maximum.
BeginNewEpochUnclamped(c, now, widen) ==
  [c EXCEPT !.qualified = FALSE, !.promotionReady = 0, !.recoveryUntil = now,
            !.scale = IF widen THEN @ + 1 ELSE @,
            !.events = [s \in Senders |-> 0], !.misses = [s \in Senders |-> 0]]

\* A bug: the counts go on under the wider envelope.
BeginNewEpochCounting(c, now, widen) ==
  [c EXCEPT !.qualified = FALSE, !.promotionReady = 0, !.recoveryUntil = now,
            !.scale = IF widen THEN Lesser(@ + 1, MaxScale) ELSE @]

BeginNewEpoch(c, now, widen) ==
  [c EXCEPT !.qualified = FALSE, !.promotionReady = 0, !.recoveryUntil = now,
            !.scale = IF widen THEN Lesser(@ + 1, MaxScale) ELSE @,
            !.events = [s \in Senders |-> 0], !.misses = [s \in Senders |-> 0]]

TightenAfterRefresh(c, now) ==
  IF c.scale = 0 THEN c ELSE BeginNewEpoch([c EXCEPT !.scale = @ - 1], now, FALSE)

(* recoverAtLeast: the candidates that sleep at least as much as the       *)
(* selected one.                                                           *)
RecoverAtLeast(cs, most, now) ==
  [c \in Candidates |->
     IF c \in most
       THEN [BeginNewEpoch(cs[c], now, TRUE) EXCEPT
               !.invalid = TRUE, !.recoveryUntil = now + RecoveryDuration]
       ELSE cs[c]]

(* qualifiesAt: every sender has its own evidence.                         *)
Passes(c, s, need) == c.events[s] > 0 /\ c.events[s] >= need + MissCost * c.misses[s]

QualifiesAt(c, need) ==
  /\ ~c.invalid /\ AllLearned(c) /\ c.scored
  /\ \A s \in Senders : Passes(c, s, need)

\* A bug: a qualification is never withdrawn.
RequalifySticky(c, now) ==
  LET d == IF c.invalid /\ now >= c.recoveryUntil THEN [c EXCEPT !.invalid = FALSE] ELSE c
      ready == IF d.promotionReady = 0 THEN now + PromotionStability ELSE d.promotionReady
  IN IF d.qualified THEN d
     ELSE IF ~QualifiesAt(d, PromotionNeed) THEN [d EXCEPT !.promotionReady = 0]
     ELSE [d EXCEPT !.promotionReady = ready, !.qualified = (now >= ready)]

Requalify(c, now) ==
  LET d == IF c.invalid /\ now >= c.recoveryUntil THEN [c EXCEPT !.invalid = FALSE] ELSE c
      ready == IF d.promotionReady = 0 THEN now + PromotionStability ELSE d.promotionReady
  IN IF d.qualified
       THEN IF QualifiesAt(d, CaptureNeed) THEN d
            ELSE [d EXCEPT !.qualified = FALSE, !.promotionReady = 0]
     ELSE IF ~QualifiesAt(d, PromotionNeed) THEN [d EXCEPT !.promotionReady = 0]
     ELSE [d EXCEPT !.promotionReady = ready, !.qualified = (now >= ready)]

RefreshQualifications(cs, now) == [c \in Candidates |-> Requalify(cs[c], now)]

\* A bug: only promotions are looked for.
PromotionDueOnly(c, now) == ~c.qualified /\ c.promotionReady > 0 /\ now >= c.promotionReady

QualificationDue(c, now) ==
  \/ c.invalid /\ now >= c.recoveryUntil
  \/ ~c.qualified /\ c.promotionReady > 0 /\ now >= c.promotionReady

-----------------------------------------------------------------------------
(* The controller.                                                         *)

WatchdogsReady(known) == \A s \in Senders : s \in Seeded \/ known[s] = WatchdogMin

(* chooseCandidate selects the qualified candidate that sleeps most: one   *)
(* of these.                                                               *)
Choices(cs, now, until, pending, known) ==
  IF \/ now < until \/ pending # {} \/ ~WatchdogsReady(known)
     \/ \A c \in Candidates : ~cs[c].qualified
    THEN {None}
    ELSE {c \in Candidates : cs[c].qualified}

\* A bug: a recovery under way is not extended.
EnterRecoveryOnce(until, now) == IF until = 0 THEN now + RecoveryDuration ELSE until

EnterRecovery(until, now) == Larger(until, now + RecoveryDuration)

(* enterRecovery as a whole.                                               *)
FailOpen(now) ==
  /\ recoveryUntil' = EnterRecovery(recoveryUntil, now)
  /\ selected' = None /\ quiet' = None /\ audit' = FALSE
  /\ refreshUntil' = 0 /\ nextRefresh' = 0

Init ==
  /\ cand = [c \in Candidates |-> Fresh]
  /\ selected = None
  /\ lastEnd = 0 /\ recoveryUntil = 0 /\ refreshUntil = 0 /\ nextRefresh = 0
  /\ quiet = None /\ audit = FALSE
  /\ seen = {} /\ lastSeen = [s \in Senders |-> 0]
  /\ gaps = [s \in Senders |-> 0] /\ reanchor = {}
  /\ decode = TRUE /\ live = FALSE /\ asleepFrom = 0
  /\ quarantine = 0 /\ sinceFull = 0 /\ faults = 0

-----------------------------------------------------------------------------
(* Advance.                                                                *)

(* The loop over the candidates: durations and what an arrival would score. *)
Score(c, wakes) ==
  LET eligible == AllLearned(c)
      awake == eligible => wakes
  IN [c EXCEPT !.lastEligible = eligible, !.lastAwake = awake,
               !.scored = @ \/ eligible]

\* A bug: every block puts the refresh off.
RefreshPostponed(due, end, c) == end + RefreshInterval[c.scale]

\* A bug: the next refresh is due as soon as one is planned.
RefreshDueNow(due, end, c) == end

\* When the next refresh is due, given when it was due so far.
RefreshScheduled(due, end, c) == IF due = 0 THEN end + RefreshInterval[c.scale] ELSE due

(* wakes: candidates with a window over this block; trips: the watchdog    *)
(* check, if one is due, finds a new deficit; coin: randomUnit() <         *)
(* auditFraction; most: candidates that sleep at least as much as the      *)
(* selected one; sel: the candidate chosen.                                *)
Advance(wakes, trips, coin, most, sel) ==
  LET end == lastEnd + 1
      ended == refreshUntil > 0 /\ lastEnd >= refreshUntil
      sel0 == IF ended THEN None ELSE selected
      cs0 == IF ended /\ selected # None
               THEN [cand EXCEPT ![selected] = TightenAfterRefresh(@, lastEnd)]
               ELSE cand
      cs1 == [c \in Candidates |-> Score(cs0[c], c \in wakes)]
      recovers == trips /\ sel0 # None /\ end >= recoveryUntil
      cs2 == IF recovers THEN RecoverAtLeast(cs1, most, end) ELSE cs1
      until == IF recovers THEN EnterRecovery(recoveryUntil, end) ELSE recoveryUntil
      due == \/ \E c \in Candidates : ~cs0[c].scored /\ cs1[c].scored
             \/ \E c \in Candidates : QualificationDue(cs2[c], end)
      cs3 == IF due THEN RefreshQualifications(cs2, end) ELSE cs2
      refreshed == IF ended \/ recovers THEN 0 ELSE refreshUntil
      planned == IF ended \/ recovers THEN 0 ELSE nextRefresh
      gating == sel # None /\ end >= until
      nextDue == IF gating THEN RefreshScheduled(planned, end, cs3[sel]) ELSE planned
      begins == gating /\ end >= nextDue
      refreshEnd == IF begins THEN end + RefreshDuration ELSE refreshed
      refreshing == sel # None /\ end < refreshEnd
      sleeps == gating /\ ~refreshing /\ cs3[sel].lastEligible /\ ~cs3[sel].lastAwake
      wasQuiet == IF recovers THEN None ELSE quiet
      percent == AuditPercent[cs3[sel].scale]
      audits == IF sleeps THEN IF wasQuiet = sel THEN audit ELSE coin ELSE FALSE
  IN /\ lastEnd < MaxTime
     /\ wakes \subseteq {c \in Candidates : AllLearned(cand[c])}
     /\ trips => seen # {}
     /\ IF recovers THEN sel0 \in most ELSE most = {}
     /\ sel \in Choices(cs3, end, until, reanchor, gaps)
     /\ sleeps /\ wasQuiet # sel => (coin => percent > 0) /\ (~coin => percent < 100)
     /\ ~(sleeps /\ wasQuiet # sel) => ~coin
     /\ cand' = cs3 /\ selected' = sel
     /\ lastEnd' = end /\ recoveryUntil' = until
     /\ refreshUntil' = refreshEnd
     /\ nextRefresh' = IF begins THEN end + RefreshInterval[cs3[sel].scale] ELSE nextDue
     /\ quiet' = IF sleeps THEN sel ELSE None
     /\ audit' = audits
     /\ decode' = (~sleeps \/ audits)
     /\ live' = TRUE
     /\ asleepFrom' = IF decode THEN lastEnd ELSE asleepFrom
     /\ lastSeen' = [s \in Senders |-> 0]
     /\ quarantine' = IF quarantine = 0 THEN 0 ELSE quarantine - 1
     /\ sinceFull' = IF sel = None \/ refreshing THEN 0 ELSE sinceFull + 1
     /\ UNCHANGED <<seen, gaps, reanchor, faults>>

(* Advance with an interval that is empty or does not continue the clock:  *)
(* resetLearning, enterRecovery.                                           *)
Discontinuity(end) ==
  /\ end \in Nat /\ end <= MaxTime /\ faults < MaxFaults
  /\ cand' = [c \in Candidates |-> [Fresh EXCEPT !.lastAwake = TRUE]]
  /\ lastEnd' = end
  /\ seen' = {} /\ lastSeen' = [s \in Senders |-> 0] /\ gaps' = [s \in Senders |-> 0]
  /\ FailOpen(end)
  /\ decode' = TRUE /\ live' = TRUE
  /\ asleepFrom' = IF decode THEN lastEnd ELSE asleepFrom
  /\ quarantine' = RecoveryDuration /\ sinceFull' = 0 /\ faults' = faults + 1
  /\ UNCHANGED reanchor

-----------------------------------------------------------------------------
(* Observe and ObserveEscape, for an arrival the receiver can report now.  *)
Reportable(at, escaped) ==
  /\ live /\ decode
  /\ IF escaped THEN asleepFrom < at /\ at < lastEnd ELSE at = lastEnd

(* An arrival out of order, or in another protocol than the sender's, is   *)
(* not learned from.  One at the time of the last is ignored.              *)
ObserveRejected(s, at, escaped, foreign) ==
  /\ Reportable(at, escaped) /\ faults < MaxFaults
  /\ s \in seen
  /\ at < lastSeen[s] \/ (foreign /\ at > lastSeen[s])
  /\ FailOpen(lastEnd)
  /\ quarantine' = RecoveryDuration /\ faults' = faults + 1
  /\ UNCHANGED <<cand, lastEnd, senderVars, blockVars, sinceFull>>

(* One candidate's share of an arrival: evidence, then the interval.       *)
Learn(c, s, at, change) ==
  LET scored == [c EXCEPT !.events[s] = IF c.lastEligible THEN @ + 1 ELSE @,
                          !.misses[s] = IF c.lastEligible /\ ~c.lastAwake THEN @ + 1 ELSE @,
                          !.history[s] = IF s \in seen THEN Lesser(@ + 1, Warmup) ELSE @]
  IN IF change THEN BeginNewEpoch(scored, at, TRUE) ELSE scored

\* The arrival shows that the selected candidate slept when it should not.
EscapeDetected(escaped) ==
  /\ selected # None
  /\ escaped \/ (cand[selected].lastEligible /\ ~cand[selected].lastAwake)

ObserveAccepted(s, at, escaped, changed, most, sel) ==
  LET anchors == s \in reanchor
      cs0 == IF anchors THEN cand
             ELSE [c \in Candidates |-> Learn(cand[c], s, at, c \in changed)]
      known == IF s \in seen /\ ~anchors
                 THEN [gaps EXCEPT ![s] = Lesser(@ + 1, WatchdogMin)] ELSE gaps
      escape == EscapeDetected(escaped)
      cs1 == IF escape THEN RecoverAtLeast(cs0, most, at) ELSE cs0
      until == IF escape THEN EnterRecovery(recoveryUntil, lastEnd) ELSE recoveryUntil
      cs2 == RefreshQualifications(cs1, at)
  IN /\ Reportable(at, escaped)
     /\ s \in seen => at > lastSeen[s]
     /\ changed \subseteq {c \in Candidates : s \in seen /\ ~anchors /\ Learned(cand[c], s)}
     /\ cand' = cs2
     /\ IF escape THEN selected \in most ELSE most = {}
     /\ sel \in Choices(cs2, lastEnd, until, reanchor \ {s}, known)
     /\ selected' = sel
     /\ recoveryUntil' = until
     /\ refreshUntil' = IF escape THEN 0 ELSE refreshUntil
     /\ nextRefresh' = IF escape THEN 0 ELSE nextRefresh
     /\ quiet' = IF escape THEN None ELSE quiet
     /\ audit' = IF escape THEN FALSE ELSE audit
     /\ seen' = seen \cup {s} /\ lastSeen' = [lastSeen EXCEPT ![s] = at]
     /\ gaps' = known /\ reanchor' = reanchor \ {s}
     /\ quarantine' = IF audit \/ (escaped /\ selected # None) THEN RecoveryDuration ELSE quarantine
     /\ UNCHANGED <<lastEnd, blockVars, sinceFull, faults>>

(* The process restarts from the checkpoint it wrote when it closed:       *)
(* applyState, then PrepareResume.  The new receiver has skipped nothing.  *)
Resume ==
  /\ faults < MaxFaults
  /\ cand' = RefreshQualifications(cand, lastEnd)
  /\ FailOpen(lastEnd)
  /\ reanchor' = seen
  /\ decode' = TRUE /\ live' = FALSE /\ asleepFrom' = lastEnd
  /\ quarantine' = RecoveryDuration /\ sinceFull' = 0 /\ faults' = faults + 1
  /\ lastSeen' = [s \in Senders |-> 0]
  /\ UNCHANGED <<lastEnd, seen, gaps>>

\* What recoverAtLeast may be given: nobody recovers without a selected one.
Sleepiest == IF selected = None THEN {{}} ELSE SUBSET Candidates

\* A deficit found while none is selected changes nothing.
AdvanceStep ==
  \E wakes \in SUBSET {c \in Candidates : AllLearned(cand[c])}, most \in Sleepiest,
     trips \in {FALSE, selected # None}, coin \in BOOLEAN,
     sel \in Candidates \cup {None} : Advance(wakes, trips, coin, most, sel)

ObserveStep(s, at, escaped) ==
  \/ \E foreign \in BOOLEAN : ObserveRejected(s, at, escaped, foreign)
  \/ \E changed \in SUBSET Candidates, most \in Sleepiest, sel \in Candidates \cup {None} :
       ObserveAccepted(s, at, escaped, changed, most, sel)

Next ==
  \/ AdvanceStep
  \/ \E end \in {lastEnd, lastEnd + 2} : Discontinuity(end)
  \/ \E s \in Senders, at \in asleepFrom + 1 .. lastEnd, escaped \in BOOLEAN :
       ObserveStep(s, at, escaped)
  \/ Resume

Spec == Init /\ [][Next]_vars
-----------------------------------------------------------------------------
CandidateType ==
  [history : [Senders -> 0 .. Warmup], events : [Senders -> Nat], misses : [Senders -> Nat],
   scored : BOOLEAN, lastEligible : BOOLEAN, lastAwake : BOOLEAN,
   invalid : BOOLEAN, qualified : BOOLEAN, scale : Levels,
   promotionReady : Nat, recoveryUntil : Nat]

TypeOK ==
  /\ cand \in [Candidates -> CandidateType]
  /\ selected \in Candidates \cup {None} /\ quiet \in Candidates \cup {None}
  /\ lastEnd \in Nat /\ recoveryUntil \in Nat /\ refreshUntil \in Nat /\ nextRefresh \in Nat
  /\ audit \in BOOLEAN /\ decode \in BOOLEAN /\ live \in BOOLEAN
  /\ seen \subseteq Senders /\ reanchor \subseteq Senders
  /\ lastSeen \in [Senders -> Nat] /\ gaps \in [Senders -> 0 .. WatchdogMin]
  /\ asleepFrom \in Nat
  /\ quarantine \in Nat /\ sinceFull \in Nat /\ faults \in Nat

(* A block is skipped only on evidence: the selected candidate is not      *)
(* invalid, has learned every sender and holds each sender's own passing   *)
(* evidence ("a healthy sender ... can never satisfy another sender's      *)
(* gate"), every watchdog is ready, and no sender awaits its first arrival *)
(* after a restart.                                                        *)
SleepJustified ==
  ~decode =>
    /\ selected # None
    /\ QualifiesAt(cand[selected], CaptureNeed)
    /\ WatchdogsReady(gaps) /\ reanchor = {}

(* An escape reported while a candidate is selected, an audited arrival    *)
(* outside the windows, an arrival out of order or in another protocol, a  *)
(* discontinuity or a restart is followed by RecoveryDuration without a    *)
(* skipped block.                                                          *)
AlarmRecovers == ~decode => quarantine = 0

(* "Any configured-sender message recovered from a skipped block is        *)
(* explicitly reported as an escape ... and therefore triggers immediate   *)
(* fail-open recovery" (PERFORMANCE.md).                                   *)
EscapeRecovers ==
  [][\A s \in Senders :
       lastSeen'[s] # lastSeen[s] /\ lastSeen'[s] \in 1 .. lastEnd' - 1
         => lastEnd' < recoveryUntil']_vars

(* Sleep is interrupted by a refresh, or by a spell without a selected     *)
(* candidate, at least once per refresh interval (which starts with the    *)
(* block after the one that ends the refresh).                             *)
RefreshedInTime == ~decode => sinceFull <= RefreshInterval[0] + 1

(* "Clean full-DSP refreshes cautiously tighten a previously widened       *)
(* envelope" (PERFORMANCE.md), which needs a refresh that ends.  One that  *)
(* is under way ends when it was planned to, or at once by an alarm,       *)
(* whichever candidate is selected meanwhile.  It is begun again only      *)
(* after the interval of the envelope it began with, and so only if that,  *)
(* which New does not check, is no longer than the refresh.                *)
RefreshAsPlanned ==
  [][lastEnd < refreshUntil /\ refreshUntil' \notin {0, refreshUntil} =>
       /\ nextRefresh <= lastEnd'
       /\ \E k \in Levels : /\ nextRefresh = refreshUntil - RefreshDuration + RefreshInterval[k]
                            /\ RefreshInterval[k] <= RefreshDuration]_vars

(* Skipping refreshQualifications when qualificationDue says so changes    *)
(* nothing: after every Advance a full refresh would be a no-op            *)
(* (PERFORMANCE.md: forced-full-refresh oracle and optimized scheduler     *)
(* "produced identical decisions").                                        *)
QualificationCurrent ==
  [][lastEnd' = lastEnd + 1 /\ live' /\ seen' = seen
       => RefreshQualifications(cand', lastEnd') = cand']_vars

(* "again requiring a fresh evidence epoch": no evidence gathered under    *)
(* one wake envelope is used under another.                                *)
EnvelopeResetsEvidence ==
  [][\A c \in Candidates : cand'[c].scale # cand[c].scale =>
       ~cand'[c].qualified /\ \A s \in Senders : cand'[c].events[s] = 0]_vars
=============================================================================
