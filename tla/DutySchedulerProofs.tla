------------------------- MODULE DutySchedulerProofs -------------------------
(* Proofs about DutyScheduler: a candidate is qualified only on evidence,  *)
(* sleep follows qualification, and an alarm holds sleep off.              *)
EXTENDS DutyScheduler, TLAPS

Shape(c, d) ==
  /\ d.history = c.history /\ d.lastEligible = c.lastEligible
  /\ d.lastAwake = c.lastAwake /\ d.scored = c.scored

(* No evidence is left, as at the start of an epoch.                       *)
Blank(c) ==
  ~c.qualified /\ c.promotionReady = 0 /\ \A s \in Senders : c.events[s] = 0

(* Qualified candidates qualify.                                           *)
Sound(c) == c.qualified => QualifiesAt(c, CaptureNeed)

(* The wake envelope is the same, or nothing learned under the old one is  *)
(* left; Follows is the form that composes.                                *)
Kept(c, d) == d.scale = c.scale \/ Blank(d)
Follows(c, d) == Blank(d) \/ (d.scale = c.scale /\ (Blank(c) => Blank(d)))

Bank == [Candidates -> CandidateType]

(* The constants that occur in sums.                                       *)
LEMMA ConstantTypes ==
  /\ Warmup \in Nat /\ WatchdogMin \in Nat /\ CaptureNeed \in Nat
  /\ PromotionNeed \in Nat /\ PromotionNeed >= CaptureNeed /\ MissCost \in Nat
  /\ MaxScale \in Nat /\ RefreshDuration \in Nat /\ RecoveryDuration \in Nat
  /\ PromotionStability \in Nat
  /\ RefreshInterval \in [Levels -> Nat] /\ None \notin Candidates /\ Senders # {}
  BY SchedulerAssumption

(* Every state change of a candidate keeps its type.                       *)
LEMMA FreshType == Fresh \in CandidateType /\ Blank(Fresh) /\ Fresh.lastAwake = FALSE
  BY ConstantTypes DEF Fresh, CandidateType, Blank, Levels

(* beginNewEpoch disqualifies the candidate and forgets its evidence.      *)
LEMMA EpochFacts ==
  ASSUME NEW c \in CandidateType, NEW now \in Nat, NEW widen \in BOOLEAN
  PROVE  LET d == BeginNewEpoch(c, now, widen)
         IN  d \in CandidateType /\ Blank(d) /\ Shape(c, d) /\ d.invalid = c.invalid
             /\ (~widen => d.scale = c.scale)
<1> DEFINE d == BeginNewEpoch(c, now, widen)
           level == IF widen THEN Lesser(c.scale + 1, MaxScale) ELSE c.scale
           zero == [s \in Senders |-> 0]
<1>1. level \in Levels
  BY ConstantTypes DEF Lesser, Levels, CandidateType
<1>2. zero \in [Senders -> Nat]
  OBVIOUS
<1>3. d = [c EXCEPT !.qualified = FALSE, !.promotionReady = 0, !.recoveryUntil = now,
                    !.scale = level, !.events = zero, !.misses = zero]
  BY DEF BeginNewEpoch
<1> HIDE DEF level, zero, d
<1>4. d \in CandidateType
  BY <1>1, <1>2, <1>3 DEF CandidateType
<1>5. Blank(d)
  BY <1>3 DEF CandidateType, Blank, zero
<1>6. Shape(c, d) /\ d.invalid = c.invalid
  BY <1>3 DEF CandidateType, Shape
<1>7. ~widen => d.scale = c.scale
  BY <1>3 DEF CandidateType, level
<1>8. QED BY <1>4, <1>5, <1>6, <1>7 DEF d

(* A refresh that narrows the envelope starts a new epoch.                 *)
LEMMA TightenFacts ==
  ASSUME NEW c \in CandidateType, NEW now \in Nat
  PROVE  LET d == TightenAfterRefresh(c, now)
         IN  d \in CandidateType /\ Shape(c, d) /\ (d = c \/ Blank(d))
<1>1. CASE c.scale = 0
  BY <1>1 DEF TightenAfterRefresh, Shape
<1>2. CASE c.scale # 0
  <2> DEFINE e == [c EXCEPT !.scale = @ - 1]
  <2>0. c.scale - 1 \in Levels
    BY <1>2, ConstantTypes DEF CandidateType, Levels
  <2>1. e \in CandidateType /\ Shape(c, e)
    BY <2>0 DEF CandidateType, Shape
  <2>2. TightenAfterRefresh(c, now) = BeginNewEpoch(e, now, FALSE)
    BY <1>2 DEF TightenAfterRefresh
  <2> HIDE DEF e
  <2>3. BeginNewEpoch(e, now, FALSE) \in CandidateType /\ Blank(BeginNewEpoch(e, now, FALSE))
        /\ Shape(e, BeginNewEpoch(e, now, FALSE))
    BY <2>1, EpochFacts
  <2>4. QED BY <2>1, <2>2, <2>3 DEF Shape
<1>3. QED BY <1>1, <1>2

(* Scoring a block keeps evidence and qualification.                       *)
LEMMA ScoreFacts ==
  ASSUME NEW c \in CandidateType, NEW wakes \in BOOLEAN
  PROVE  LET d == Score(c, wakes)
         IN  d \in CandidateType /\ (Sound(c) => Sound(d)) /\ (Blank(c) => Blank(d))
             /\ d.scale = c.scale
<1>1. Score(c, wakes) \in CandidateType
  BY DEF Score, CandidateType, AllLearned, Learned
<1>2. Sound(c) => Sound(Score(c, wakes))
  BY DEF Sound, QualifiesAt, Score, CandidateType, AllLearned, Learned, Passes
<1>3. Blank(c) => Blank(Score(c, wakes))
  BY DEF Blank, Score, CandidateType
<1>4. Score(c, wakes).scale = c.scale
  BY DEF Score, CandidateType
<1>5. QED BY <1>1, <1>2, <1>3, <1>4

(* What a candidate qualifies for at the promotion target it qualifies for *)
(* at the capture target.                                                  *)
LEMMA QualifiesMonotone ==
  ASSUME NEW c \in CandidateType, QualifiesAt(c, PromotionNeed)
  PROVE  QualifiesAt(c, CaptureNeed)
<1>1. ASSUME NEW s \in Senders PROVE Passes(c, s, CaptureNeed)
  <2> DEFINE cost == MissCost * c.misses[s]
  <2>1. cost \in Nat /\ c.events[s] \in Nat
    BY ConstantTypes DEF CandidateType
  <2>2. c.events[s] > 0 /\ c.events[s] >= PromotionNeed + cost
    BY DEF QualifiesAt, Passes
  <2> HIDE DEF cost
  <2>3. c.events[s] >= CaptureNeed + cost
    BY <2>1, <2>2, ConstantTypes
  <2>4. QED BY <2>2, <2>3 DEF Passes, cost
<1>2. QED BY <1>1 DEF QualifiesAt

(* refreshQualifications leaves every qualified candidate qualifying, and  *)
(* qualifies none without evidence.                                        *)
LEMMA RequalifyFacts ==
  ASSUME NEW c \in CandidateType, NEW now \in Nat
  PROVE  LET d == Requalify(c, now)
         IN  d \in CandidateType /\ Sound(d) /\ Shape(c, d) /\ d.scale = c.scale
             /\ (Blank(c) => Blank(d))
<1> DEFINE d == IF c.invalid /\ now >= c.recoveryUntil THEN [c EXCEPT !.invalid = FALSE] ELSE c
           ready == IF d.promotionReady = 0 THEN now + PromotionStability ELSE d.promotionReady
           r == Requalify(c, now)
<1>1. d \in CandidateType /\ Shape(c, d) /\ d.scale = c.scale /\ d.events = c.events
      /\ d.qualified = c.qualified
  BY DEF CandidateType, Shape
<1>2. ready \in Nat
  BY <1>1, ConstantTypes DEF CandidateType
<1>3. r = IF d.qualified
            THEN IF QualifiesAt(d, CaptureNeed) THEN d
                 ELSE [d EXCEPT !.qualified = FALSE, !.promotionReady = 0]
          ELSE IF ~QualifiesAt(d, PromotionNeed) THEN [d EXCEPT !.promotionReady = 0]
          ELSE [d EXCEPT !.promotionReady = ready, !.qualified = (now >= ready)]
  BY DEF Requalify
<1>4. (now >= ready) \in BOOLEAN
  OBVIOUS
<1> HIDE DEF d, ready, r
<1>5. r \in CandidateType /\ Shape(d, r) /\ r.scale = d.scale /\ r.events = d.events
  <2>1. CASE d.qualified /\ QualifiesAt(d, CaptureNeed)
    BY <1>1, <1>3, <2>1 DEF Shape
  <2>2. CASE d.qualified /\ ~QualifiesAt(d, CaptureNeed)
    BY <1>1, <1>3, <2>2 DEF CandidateType, Shape
  <2>3. CASE ~d.qualified /\ ~QualifiesAt(d, PromotionNeed)
    BY <1>1, <1>3, <2>3 DEF CandidateType, Shape
  <2>4. CASE ~d.qualified /\ QualifiesAt(d, PromotionNeed)
    BY <1>1, <1>2, <1>3, <1>4, <2>4 DEF CandidateType, Shape
  <2>5. QED BY <2>1, <2>2, <2>3, <2>4
<1>6. r.qualified => QualifiesAt(d, CaptureNeed)
  <2>1. CASE d.qualified
    BY <1>1, <1>3, <2>1 DEF CandidateType
  <2>2. CASE ~d.qualified
    BY <1>1, <1>3, <2>2, QualifiesMonotone DEF CandidateType
  <2>3. QED BY <2>1, <2>2
<1>7. r.qualified => r.invalid = d.invalid /\ r.misses = d.misses
  <2>1. CASE d.qualified
    BY <1>1, <1>3, <2>1 DEF CandidateType
  <2>2. CASE ~d.qualified /\ ~QualifiesAt(d, PromotionNeed)
    BY <1>1, <1>3, <2>2 DEF CandidateType
  <2>3. CASE ~d.qualified /\ QualifiesAt(d, PromotionNeed)
    BY <1>1, <1>3, <2>3 DEF CandidateType
  <2>4. QED BY <2>1, <2>2, <2>3
<1>8. Sound(r)
  BY <1>5, <1>6, <1>7 DEF Sound, QualifiesAt, AllLearned, Learned, Passes, Shape
<1>9. Blank(c) => Blank(r)
  <2> SUFFICES ASSUME Blank(c) PROVE Blank(r)
    OBVIOUS
  <2>1. PICK s \in Senders : TRUE
    BY ConstantTypes
  <2>2. d.events[s] = 0
    BY <1>1 DEF Blank
  <2>3. ~QualifiesAt(d, CaptureNeed)
    BY <2>2 DEF QualifiesAt, Passes
  <2>4. ~d.qualified /\ ~QualifiesAt(d, PromotionNeed)
    BY <1>1, <2>3, QualifiesMonotone DEF Blank
  <2>5. r.promotionReady = 0
    BY <1>1, <1>3, <2>4 DEF CandidateType
  <2>6. QED BY <1>1, <1>5, <1>6, <2>3, <2>5 DEF Blank
<1>10. QED BY <1>1, <1>5, <1>8, <1>9 DEF Shape, r

(* recoverAtLeast gives the candidates it reaches a new epoch.             *)
LEMMA RecoverFacts ==
  ASSUME NEW cs \in Bank, NEW most, NEW now \in Nat
  PROVE  /\ RecoverAtLeast(cs, most, now) \in Bank
         /\ \A c \in Candidates :
              /\ Sound(cs[c]) => Sound(RecoverAtLeast(cs, most, now)[c])
              /\ Follows(cs[c], RecoverAtLeast(cs, most, now)[c])
              /\ \/ RecoverAtLeast(cs, most, now)[c] = cs[c]
                 \/ Blank(RecoverAtLeast(cs, most, now)[c])
<1> DEFINE e(c) == BeginNewEpoch(cs[c], now, TRUE)
           f(c) == [e(c) EXCEPT !.invalid = TRUE, !.recoveryUntil = now + RecoveryDuration]
           r == RecoverAtLeast(cs, most, now)
<1>0. r = [c \in Candidates |-> IF c \in most THEN f(c) ELSE cs[c]]
  BY DEF RecoverAtLeast
<1>1. now + RecoveryDuration \in Nat
  BY ConstantTypes
<1>2. ASSUME NEW c \in Candidates
      PROVE  /\ r[c] \in CandidateType
             /\ Sound(cs[c]) => Sound(r[c])
             /\ Follows(cs[c], r[c])
             /\ r[c] = cs[c] \/ Blank(r[c])
  <2>1. cs[c] \in CandidateType
    BY DEF Bank
  <2>2. e(c) \in CandidateType /\ Blank(e(c))
    BY <2>1, EpochFacts
  <2> HIDE DEF e
  <2>3. f(c) \in CandidateType /\ Blank(f(c))
    BY <1>1, <2>2 DEF CandidateType, Blank
  <2> HIDE DEF f, r
  <2>4. CASE c \in most
    BY <1>0, <2>3, <2>4 DEF Sound, Blank, Follows
  <2>5. CASE c \notin most
    BY <1>0, <2>1, <2>5 DEF Follows
  <2>6. QED BY <2>4, <2>5
<1>3. r \in Bank
  <2> HIDE DEF f
  <2>1. \A c \in Candidates : r[c] = IF c \in most THEN f(c) ELSE cs[c]
    BY <1>0
  <2>2. \A c \in Candidates : (IF c \in most THEN f(c) ELSE cs[c]) \in CandidateType
    BY <1>2, <2>1
  <2>3. QED BY <1>0, <2>2 DEF Bank
<1>4. QED BY <1>2, <1>3

(* refreshQualifications, for all candidates.                              *)
LEMMA RefreshFacts ==
  ASSUME NEW cs \in Bank, NEW now \in Nat
  PROVE  /\ RefreshQualifications(cs, now) \in Bank
         /\ \A c \in Candidates :
              /\ Sound(RefreshQualifications(cs, now)[c])
              /\ Shape(cs[c], RefreshQualifications(cs, now)[c])
              /\ Follows(cs[c], RefreshQualifications(cs, now)[c])
<1>1. \A c \in Candidates : RefreshQualifications(cs, now)[c] = Requalify(cs[c], now)
  BY DEF RefreshQualifications
<1>2. \A c \in Candidates :
        /\ Requalify(cs[c], now) \in CandidateType
        /\ Sound(Requalify(cs[c], now)) /\ Shape(cs[c], Requalify(cs[c], now))
        /\ Follows(cs[c], Requalify(cs[c], now))
  BY RequalifyFacts DEF Bank, Follows
<1>3. RefreshQualifications(cs, now) \in Bank
  BY <1>2 DEF RefreshQualifications, Bank
<1>4. QED BY <1>1, <1>2, <1>3

(* An arrival adds evidence, or starts a new epoch.                        *)
LEMMA LearnFacts ==
  ASSUME NEW c \in CandidateType, NEW s \in Senders, NEW at \in Nat, NEW change \in BOOLEAN
  PROVE  Learn(c, s, at, change) \in CandidateType /\ Kept(c, Learn(c, s, at, change))
<1> DEFINE events == [c.events EXCEPT ![s] = IF c.lastEligible THEN @ + 1 ELSE @]
           misses == [c.misses EXCEPT ![s] = IF c.lastEligible /\ ~c.lastAwake THEN @ + 1 ELSE @]
           history == [c.history EXCEPT ![s] = IF s \in seen THEN Lesser(@ + 1, Warmup) ELSE @]
           d == [c EXCEPT !.events = events, !.misses = misses, !.history = history]
<1>1. events \in [Senders -> Nat] /\ misses \in [Senders -> Nat]
  BY DEF CandidateType
<1>2. history \in [Senders -> 0 .. Warmup]
  <2>1. (IF s \in seen THEN Lesser(c.history[s] + 1, Warmup) ELSE c.history[s]) \in 0 .. Warmup
    BY ConstantTypes DEF CandidateType, Lesser
  <2>2. QED BY <2>1 DEF CandidateType
<1>3. Learn(c, s, at, change) = IF change THEN BeginNewEpoch(d, at, TRUE) ELSE d
  BY DEF Learn, CandidateType
<1> HIDE DEF events, misses, history
<1>4. d \in CandidateType /\ d.scale = c.scale
  BY <1>1, <1>2 DEF CandidateType
<1> HIDE DEF d
<1>5. BeginNewEpoch(d, at, TRUE) \in CandidateType /\ Blank(BeginNewEpoch(d, at, TRUE))
  BY <1>4, EpochFacts
<1>6. QED BY <1>3, <1>4, <1>5 DEF Kept

-----------------------------------------------------------------------------
(* The inductive invariant.  A skipped block was skipped on a qualified    *)
(* candidate, and nothing but Advance can follow it; an audited block is   *)
(* one the selected candidate sleeps through, so an arrival in it is an    *)
(* escape; an alarm's quarantine ends no later than the recovery.          *)
EvidenceInv == \A c \in Candidates : Sound(cand[c])

SleepInv ==
  ~decode => /\ selected \in Candidates /\ cand[selected].qualified
             /\ WatchdogsReady(gaps) /\ reanchor = {}

AuditInv ==
  audit => /\ selected \in Candidates
           /\ cand[selected].lastEligible /\ ~cand[selected].lastAwake

QuarantineInv == quarantine > 0 => lastEnd + quarantine <= recoveryUntil

SchedulerInv == EvidenceInv /\ SleepInv /\ AuditInv /\ QuarantineInv /\ AlarmRecovers

(* Advance.                                                                *)
LEMMA AdvanceKeeps ==
  ASSUME TypeOK, SchedulerInv,
         NEW wakes \in SUBSET Candidates, NEW most \in SUBSET Candidates,
         NEW trips \in BOOLEAN, NEW coin \in BOOLEAN, NEW sel \in Candidates \cup {None},
         Advance(wakes, trips, coin, most, sel)
  PROVE  TypeOK' /\ SchedulerInv' /\ \A c \in Candidates : Kept(cand[c], cand'[c])
<1> DEFINE
      end == lastEnd + 1
      ended == refreshUntil > 0 /\ lastEnd >= refreshUntil
      sel0 == IF ended THEN None ELSE selected
      cs0 == IF ended /\ selected # None
               THEN [cand EXCEPT ![selected] = TightenAfterRefresh(@, lastEnd)]
               ELSE cand
      cs1 == [c \in Candidates |-> Score(cs0[c], c \in wakes)]
      recovers == trips /\ sel0 # None /\ end >= recoveryUntil
      cs2 == IF recovers THEN RecoverAtLeast(cs1, most, end) ELSE cs1
      until == IF recovers THEN EnterRecovery(recoveryUntil, end) ELSE recoveryUntil
      due == \/ \E c \in Candidates : ~cs0[c].scored /\ cs1[c].scored
             \/ \E c \in Candidates : QualificationDue(cs2[c], end)
      cs3 == IF due THEN RefreshQualifications(cs2, end) ELSE cs2
      refreshed == IF ended \/ recovers THEN 0 ELSE refreshUntil
      planned == IF ended \/ recovers THEN 0 ELSE nextRefresh
      gating == sel # None /\ end >= until
      nextDue == IF gating THEN RefreshScheduled(planned, end, cs3[sel]) ELSE planned
      begins == gating /\ end >= nextDue
      refreshEnd == IF begins THEN end + RefreshDuration ELSE refreshed
      refreshing == sel # None /\ end < refreshEnd
      sleeps == gating /\ ~refreshing /\ cs3[sel].lastEligible /\ ~cs3[sel].lastAwake
      wasQuiet == IF recovers THEN None ELSE quiet
      audits == IF sleeps THEN IF wasQuiet = sel THEN audit ELSE coin ELSE FALSE
<1>1. /\ sel \in Choices(cs3, end, until, reanchor, gaps)
      /\ cand' = cs3 /\ selected' = sel /\ lastEnd' = end /\ recoveryUntil' = until
      /\ refreshUntil' = refreshEnd
      /\ nextRefresh' = IF begins THEN end + RefreshInterval[cs3[sel].scale] ELSE nextDue
      /\ quiet' = IF sleeps THEN sel ELSE None
      /\ audit' = audits /\ decode' = (~sleeps \/ audits) /\ live' = TRUE
  BY ZenonT(60) DEF Advance
<1>2. /\ asleepFrom' = IF decode THEN lastEnd ELSE asleepFrom
      /\ lastSeen' = [s \in Senders |-> 0]
      /\ quarantine' = IF quarantine = 0 THEN 0 ELSE quarantine - 1
      /\ sinceFull' = IF sel = None \/ refreshing THEN 0 ELSE sinceFull + 1
      /\ UNCHANGED <<seen, gaps, reanchor, faults>>
  BY DEF Advance
<1>3. end \in Nat /\ cand \in Bank
  BY DEF TypeOK, Bank
<1>4. /\ cs0 \in Bank
      /\ \A c \in Candidates : Sound(cs0[c]) /\ Kept(cand[c], cs0[c])
  <2>1. CASE ended /\ selected # None
    <3>1. selected \in Candidates /\ lastEnd \in Nat
      BY <2>1 DEF TypeOK
    <3> DEFINE d == TightenAfterRefresh(cand[selected], lastEnd)
    <3>2. d \in CandidateType /\ (d = cand[selected] \/ Blank(d))
      BY <1>3, <3>1, TightenFacts DEF Bank
    <3> HIDE DEF d
    <3>3. cs0 = [cand EXCEPT ![selected] = d]
      BY <2>1 DEF d
    <3> HIDE DEF cs0
    <3>4. cs0 \in Bank
      BY <1>3, <3>1, <3>2, <3>3 DEF Bank
    <3>5. ASSUME NEW c \in Candidates PROVE Sound(cs0[c]) /\ Kept(cand[c], cs0[c])
      <4>1. cs0[c] = cand[c] \/ Blank(cs0[c])
        BY <1>3, <3>1, <3>2, <3>3 DEF Bank
      <4>2. QED BY <4>1 DEF SchedulerInv, EvidenceInv, Sound, Blank, Kept
    <3>6. QED BY <3>4, <3>5
  <2>2. CASE ~(ended /\ selected # None)
    BY <1>3, <2>2 DEF SchedulerInv, EvidenceInv, Kept
  <2>3. QED BY <2>1, <2>2
<1> HIDE DEF cs0
<1>5. /\ cs1 \in Bank
      /\ \A c \in Candidates : Sound(cs1[c]) /\ Follows(cs0[c], cs1[c])
  <2>1. ASSUME NEW c \in Candidates
        PROVE  /\ Score(cs0[c], c \in wakes) \in CandidateType
               /\ Sound(Score(cs0[c], c \in wakes))
               /\ Follows(cs0[c], Score(cs0[c], c \in wakes))
    <3>1. cs0[c] \in CandidateType /\ (c \in wakes) \in BOOLEAN /\ Sound(cs0[c])
      BY <1>4 DEF Bank
    <3>2. QED BY <3>1, ScoreFacts DEF Follows
  <2>2. \A c \in Candidates : cs1[c] = Score(cs0[c], c \in wakes)
    OBVIOUS
  <2>3. cs1 \in Bank
    BY <2>1 DEF Bank
  <2>4. QED BY <2>1, <2>2, <2>3
<1> HIDE DEF cs1
<1>6. /\ cs2 \in Bank
      /\ \A c \in Candidates : Sound(cs2[c]) /\ Follows(cs1[c], cs2[c])
  <2>1. CASE recovers
    BY <1>3, <1>5, <2>1, RecoverFacts
  <2>2. CASE ~recovers
    BY <1>5, <2>2 DEF Follows
  <2>3. QED BY <2>1, <2>2
<1> HIDE DEF cs2
<1>7. /\ cs3 \in Bank
      /\ \A c \in Candidates : Sound(cs3[c]) /\ Follows(cs2[c], cs3[c])
  <2>1. CASE due
    BY <1>3, <1>6, <2>1, RefreshFacts
  <2>2. CASE ~due
    BY <1>6, <2>2 DEF Follows
  <2>3. QED BY <2>1, <2>2
<1> HIDE DEF cs3, due
<1>8. \A c \in Candidates : Kept(cand[c], cand'[c])
  BY <1>1, <1>4, <1>5, <1>6, <1>7 DEF Kept, Follows
<1>9. until \in Nat /\ until >= recoveryUntil /\ recoveryUntil \in Nat
  BY <1>3, ConstantTypes DEF TypeOK, EnterRecovery, Larger
<1>10. sel # None => RefreshInterval[cs3[sel].scale] \in Nat
  BY <1>7, ConstantTypes DEF Bank, CandidateType
<1> HIDE DEF until, ended, recovers
<1>11. nextDue \in Nat /\ refreshEnd \in Nat
  BY <1>3, <1>10, ConstantTypes DEF TypeOK, RefreshScheduled
<1>12. audits \in BOOLEAN /\ (audits => sleeps)
  BY DEF TypeOK
<1> HIDE DEF refreshing, nextDue, refreshEnd, planned, refreshed
<1>13. sleeps => gating /\ cs3[sel].lastEligible /\ ~cs3[sel].lastAwake
  OBVIOUS
<1> HIDE DEF sleeps, audits, wasQuiet
<1>14. TypeOK'
  <2>1. cand' \in [Candidates -> CandidateType]
    BY <1>1, <1>7 DEF Bank
  <2>2. lastEnd' \in Nat /\ recoveryUntil' \in Nat /\ refreshUntil' \in Nat
    BY <1>1, <1>3, <1>9, <1>11
  <2>3. nextRefresh' \in Nat
    BY <1>1, <1>3, <1>10, <1>11
  <2>4. selected' \in Candidates \cup {None} /\ quiet' \in Candidates \cup {None}
    BY <1>1
  <2>5. audit' \in BOOLEAN /\ decode' \in BOOLEAN /\ live' \in BOOLEAN
    BY <1>1, <1>12
  <2>6. asleepFrom' \in Nat /\ quarantine' \in Nat /\ sinceFull' \in Nat
    BY <1>2 DEF TypeOK
  <2>7. lastSeen' \in [Senders -> Nat]
    BY <1>2
  <2>8. QED BY <1>2, <2>1, <2>2, <2>3, <2>4, <2>5, <2>6, <2>7 DEF TypeOK
<1>15. EvidenceInv'
  BY <1>1, <1>7 DEF EvidenceInv
<1>16. SleepInv'
  <2> SUFFICES ASSUME ~decode' PROVE SleepInv'
    BY DEF SleepInv
  <2>1. sel # None
    BY <1>1, <1>13
  <2>2. WatchdogsReady(gaps) /\ reanchor = {} /\ cs3[sel].qualified
    BY <1>1, <2>1 DEF Choices
  <2>3. QED BY <1>1, <1>2, <2>1, <2>2 DEF SleepInv, WatchdogsReady
<1>17. AuditInv'
  BY <1>1, <1>12, <1>13 DEF AuditInv
<1>18. QuarantineInv'
  <2>1. quarantine \in Nat /\ lastEnd \in Nat
    BY DEF TypeOK
  <2>2. quarantine > 0 => lastEnd + quarantine <= recoveryUntil
    BY DEF SchedulerInv, QuarantineInv
  <2>3. QED BY <1>1, <1>2, <1>9, <2>1, <2>2 DEF QuarantineInv
<1>19. AlarmRecovers'
  <2> SUFFICES ASSUME ~decode' PROVE quarantine' = 0
    BY DEF AlarmRecovers
  <2>1. quarantine \in Nat /\ lastEnd \in Nat
    BY DEF TypeOK
  <2>2. quarantine > 0 => lastEnd + quarantine <= recoveryUntil
    BY DEF SchedulerInv, QuarantineInv
  <2>3. end >= until
    BY <1>1, <1>13
  <2>4. QED BY <1>2, <1>9, <2>1, <2>2, <2>3
<1>20. QED BY <1>8, <1>14, <1>15, <1>16, <1>17, <1>18, <1>19 DEF SchedulerInv

(* enterRecovery, whatever calls it.                                       *)
LEMMA FailOpenFacts ==
  ASSUME TypeOK, NEW now \in Nat, FailOpen(now)
  PROVE  /\ selected' = None /\ quiet' = None /\ audit' = FALSE
         /\ refreshUntil' = 0 /\ nextRefresh' = 0
         /\ recoveryUntil' \in Nat /\ recoveryUntil' >= now + RecoveryDuration
  BY ConstantTypes DEF FailOpen, EnterRecovery, Larger, TypeOK

(* A discontinuity.                                                        *)
LEMMA DiscontinuityKeeps ==
  ASSUME TypeOK, SchedulerInv, NEW end, Discontinuity(end)
  PROVE  TypeOK' /\ SchedulerInv' /\ \A c \in Candidates : Kept(cand[c], cand'[c])
<1> DEFINE f == [Fresh EXCEPT !.lastAwake = TRUE]
<1>1. f \in CandidateType /\ Blank(f)
  BY FreshType DEF CandidateType, Blank
<1>2. end \in Nat /\ FailOpen(end)
  BY DEF Discontinuity
<1>3. cand' = [c \in Candidates |-> f]
  BY DEF Discontinuity
<1> HIDE DEF f
<1>4. \A c \in Candidates : cand'[c] = f
  BY <1>3
<1>5. lastEnd' = end /\ decode' = TRUE /\ quarantine' = RecoveryDuration
  BY DEF Discontinuity
<1>6. /\ live' = TRUE /\ asleepFrom' \in Nat /\ sinceFull' = 0 /\ faults' \in Nat
      /\ seen' = {} /\ lastSeen' \in [Senders -> Nat]
      /\ reanchor' = reanchor
  BY DEF Discontinuity, TypeOK
<1>7. gaps' \in [Senders -> 0 .. WatchdogMin]
  BY ConstantTypes DEF Discontinuity
<1>8. TypeOK'
  <2>1. cand' \in [Candidates -> CandidateType]
    BY <1>1, <1>3
  <2>2. /\ selected' = None /\ quiet' = None /\ audit' = FALSE
        /\ refreshUntil' = 0 /\ nextRefresh' = 0 /\ recoveryUntil' \in Nat
    BY <1>2, FailOpenFacts
  <2>3. quarantine' \in Nat /\ lastEnd' \in Nat
    BY <1>2, <1>5, ConstantTypes
  <2>4. QED BY <1>5, <1>6, <1>7, <2>1, <2>2, <2>3 DEF TypeOK
<1>9. EvidenceInv' /\ \A c \in Candidates : Kept(cand[c], cand'[c])
  BY <1>1, <1>4 DEF EvidenceInv, Sound, Blank, Kept
<1>10. SleepInv' /\ AuditInv' /\ AlarmRecovers'
  BY <1>2, <1>5, FailOpenFacts DEF SleepInv, AuditInv, AlarmRecovers
<1>11. QuarantineInv'
  BY <1>2, <1>5, FailOpenFacts, ConstantTypes DEF QuarantineInv
<1>12. QED BY <1>8, <1>9, <1>10, <1>11 DEF SchedulerInv

(* An arrival that is not learned from.                                    *)
LEMMA ObserveRejectedKeeps ==
  ASSUME TypeOK, SchedulerInv, NEW s \in Senders, NEW at, NEW escaped \in BOOLEAN,
         NEW foreign \in BOOLEAN, ObserveRejected(s, at, escaped, foreign)
  PROVE  TypeOK' /\ SchedulerInv' /\ \A c \in Candidates : Kept(cand[c], cand'[c])
<1>1. /\ decode /\ FailOpen(lastEnd) /\ quarantine' = RecoveryDuration /\ faults' = faults + 1
      /\ UNCHANGED <<cand, lastEnd, senderVars, blockVars, sinceFull>>
  BY DEF ObserveRejected, Reportable
<1>2. lastEnd \in Nat
  BY DEF TypeOK
<1>3. UNCHANGED <<cand, lastEnd, seen, lastSeen, gaps, reanchor, decode, live, asleepFrom, sinceFull>>
  BY <1>1 DEF senderVars, blockVars
<1>4. TypeOK'
  <2>1. /\ selected' = None /\ quiet' = None /\ audit' = FALSE
        /\ refreshUntil' = 0 /\ nextRefresh' = 0 /\ recoveryUntil' \in Nat
    BY <1>1, <1>2, FailOpenFacts
  <2>2. quarantine' \in Nat /\ faults' \in Nat
    BY <1>1, ConstantTypes DEF TypeOK
  <2>3. QED BY <1>3, <2>1, <2>2 DEF TypeOK
<1>5. EvidenceInv' /\ \A c \in Candidates : Kept(cand[c], cand'[c])
  BY <1>3 DEF SchedulerInv, EvidenceInv, Kept
<1>6. SleepInv' /\ AuditInv' /\ AlarmRecovers'
  BY <1>1, <1>2, <1>3, FailOpenFacts DEF SleepInv, AuditInv, AlarmRecovers
<1>7. QuarantineInv'
  BY <1>1, <1>2, <1>3, FailOpenFacts, ConstantTypes DEF QuarantineInv
<1>8. QED BY <1>4, <1>5, <1>6, <1>7 DEF SchedulerInv

(* A restart.                                                              *)
LEMMA ResumeKeeps ==
  ASSUME TypeOK, SchedulerInv, Resume
  PROVE  TypeOK' /\ SchedulerInv' /\ \A c \in Candidates : Kept(cand[c], cand'[c])
<1>1. lastEnd \in Nat /\ cand \in Bank
  BY DEF TypeOK, Bank
<1>2. /\ cand' = RefreshQualifications(cand, lastEnd) /\ FailOpen(lastEnd)
      /\ reanchor' = seen /\ decode' = TRUE /\ live' = FALSE /\ asleepFrom' = lastEnd
      /\ quarantine' = RecoveryDuration /\ sinceFull' = 0 /\ faults' = faults + 1
      /\ lastSeen' = [r \in Senders |-> 0] /\ lastEnd' = lastEnd
      /\ seen' = seen /\ gaps' = gaps
  BY DEF Resume
<1>3. /\ cand' \in Bank
      /\ \A c \in Candidates : Sound(cand'[c]) /\ Follows(cand[c], cand'[c])
  BY <1>1, <1>2, RefreshFacts
<1>4. TypeOK'
  <2>1. lastSeen' \in [Senders -> Nat]
    BY <1>2
  <2>2. /\ selected' = None /\ quiet' = None /\ audit' = FALSE
        /\ refreshUntil' = 0 /\ nextRefresh' = 0 /\ recoveryUntil' \in Nat
    BY <1>1, <1>2, FailOpenFacts
  <2>3. quarantine' \in Nat /\ faults' \in Nat
    BY <1>2, ConstantTypes DEF TypeOK
  <2>4. QED BY <1>2, <1>3, <2>1, <2>2, <2>3 DEF TypeOK, Bank
<1>5. EvidenceInv' /\ \A c \in Candidates : Kept(cand[c], cand'[c])
  BY <1>3 DEF EvidenceInv, Follows, Kept
<1>6. SleepInv' /\ AuditInv' /\ AlarmRecovers'
  BY <1>1, <1>2, FailOpenFacts DEF SleepInv, AuditInv, AlarmRecovers
<1>7. QuarantineInv'
  BY <1>1, <1>2, FailOpenFacts, ConstantTypes DEF QuarantineInv
<1>8. QED BY <1>4, <1>5, <1>6, <1>7 DEF SchedulerInv

(* An arrival that is learned from.                                        *)
LEMMA ObserveAcceptedKeeps ==
  ASSUME TypeOK, SchedulerInv, NEW s \in Senders, NEW at \in Nat, NEW escaped \in BOOLEAN,
         NEW changed \in SUBSET Candidates, NEW most \in SUBSET Candidates,
         NEW sel \in Candidates \cup {None},
         ObserveAccepted(s, at, escaped, changed, most, sel)
  PROVE  TypeOK' /\ SchedulerInv' /\ \A c \in Candidates : Kept(cand[c], cand'[c])
<1> DEFINE
      anchors == s \in reanchor
      cs0 == IF anchors THEN cand
             ELSE [c \in Candidates |-> Learn(cand[c], s, at, c \in changed)]
      known == IF s \in seen /\ ~anchors
                 THEN [gaps EXCEPT ![s] = Lesser(@ + 1, WatchdogMin)] ELSE gaps
      escape == EscapeDetected(escaped)
      cs1 == IF escape THEN RecoverAtLeast(cs0, most, at) ELSE cs0
      until == IF escape THEN EnterRecovery(recoveryUntil, lastEnd) ELSE recoveryUntil
      cs2 == RefreshQualifications(cs1, at)
<1>1. /\ decode /\ cand' = cs2 /\ selected' = sel /\ recoveryUntil' = until
      /\ refreshUntil' = (IF escape THEN 0 ELSE refreshUntil)
      /\ nextRefresh' = (IF escape THEN 0 ELSE nextRefresh)
      /\ quiet' = (IF escape THEN None ELSE quiet)
      /\ audit' = (IF escape THEN FALSE ELSE audit)
  BY DEF ObserveAccepted, Reportable
<1>2. /\ seen' = seen \cup {s} /\ lastSeen' = [lastSeen EXCEPT ![s] = at]
      /\ gaps' = known /\ reanchor' = reanchor \ {s}
      /\ quarantine' = (IF audit \/ (escaped /\ selected # None) THEN RecoveryDuration ELSE quarantine)
      /\ UNCHANGED <<lastEnd, decode, live, asleepFrom, sinceFull, faults>>
  BY DEF ObserveAccepted, blockVars
<1>3. lastEnd \in Nat /\ cand \in Bank
  BY DEF TypeOK, Bank
<1>4. cs0 \in Bank /\ \A c \in Candidates : Kept(cand[c], cs0[c])
  <2>1. CASE anchors
    BY <1>3, <2>1 DEF Kept
  <2>2. CASE ~anchors
    <3>1. \A c \in Candidates :
             /\ Learn(cand[c], s, at, c \in changed) \in CandidateType
             /\ Kept(cand[c], Learn(cand[c], s, at, c \in changed))
      <4> TAKE c \in Candidates
      <4>1. cand[c] \in CandidateType /\ (c \in changed) \in BOOLEAN
        BY <1>3 DEF Bank
      <4>2. QED BY <4>1, LearnFacts
    <3>2. cs0 = [c \in Candidates |-> Learn(cand[c], s, at, c \in changed)]
      BY <2>2
    <3> HIDE DEF cs0
    <3>3. QED BY <3>1, <3>2 DEF Bank
  <2>3. QED BY <2>1, <2>2
<1> HIDE DEF cs0
<1>5. cs1 \in Bank /\ \A c \in Candidates : Follows(cs0[c], cs1[c])
  <2>1. CASE escape
    BY <1>4, <2>1, RecoverFacts
  <2>2. CASE ~escape
    BY <1>4, <2>2 DEF Follows
  <2>3. QED BY <2>1, <2>2
<1> HIDE DEF cs1
<1>6. /\ cs2 \in Bank
      /\ \A c \in Candidates : Sound(cs2[c]) /\ Follows(cs1[c], cs2[c])
  BY <1>5, RefreshFacts
<1> HIDE DEF cs2
<1>7. known \in [Senders -> 0 .. WatchdogMin]
  <2>1. Lesser(gaps[s] + 1, WatchdogMin) \in 0 .. WatchdogMin
    BY ConstantTypes DEF TypeOK, Lesser
  <2>2. QED BY <2>1 DEF TypeOK
<1>8. until \in Nat /\ recoveryUntil \in Nat /\ until >= recoveryUntil
      /\ (escape => until >= lastEnd + RecoveryDuration)
  BY <1>3, ConstantTypes DEF TypeOK, EnterRecovery, Larger
<1> HIDE DEF known, until
<1>9. audit \/ (escaped /\ selected # None) => escape
  BY ConstantTypes DEF SchedulerInv, AuditInv, EscapeDetected
<1> HIDE DEF escape
<1>10. TypeOK'
  <2>1. cand' \in [Candidates -> CandidateType] /\ gaps' \in [Senders -> 0 .. WatchdogMin]
    BY <1>1, <1>2, <1>6, <1>7 DEF Bank
  <2>2. lastSeen' \in [Senders -> Nat]
    BY <1>2 DEF TypeOK
  <2>3. recoveryUntil' \in Nat /\ refreshUntil' \in Nat /\ nextRefresh' \in Nat /\ quarantine' \in Nat
    BY <1>1, <1>2, <1>8, ConstantTypes DEF TypeOK
  <2>4. audit' \in BOOLEAN /\ quiet' \in Candidates \cup {None}
    BY <1>1 DEF TypeOK
  <2>5. QED BY <1>1, <1>2, <2>1, <2>2, <2>3, <2>4 DEF TypeOK
<1>11. EvidenceInv' /\ \A c \in Candidates : Kept(cand[c], cand'[c])
  BY <1>1, <1>4, <1>5, <1>6 DEF EvidenceInv, Follows, Kept
<1>12. SleepInv' /\ AuditInv' /\ AlarmRecovers'
  <2>1. decode'
    BY <1>1, <1>2
  <2>2. ~audit'
    BY <1>1, <1>9 DEF TypeOK
  <2>3. QED BY <2>1, <2>2 DEF SleepInv, AuditInv, AlarmRecovers
<1>13. QuarantineInv'
  <2>1. CASE audit \/ (escaped /\ selected # None)
    BY <1>1, <1>2, <1>3, <1>8, <1>9, <2>1, ConstantTypes DEF QuarantineInv
  <2>2. CASE ~(audit \/ (escaped /\ selected # None))
    BY <1>1, <1>2, <1>3, <1>8, <2>2 DEF SchedulerInv, QuarantineInv, TypeOK
  <2>3. QED BY <2>1, <2>2
<1>14. QED BY <1>10, <1>11, <1>12, <1>13 DEF SchedulerInv

-----------------------------------------------------------------------------
(* The inputs AdvanceStep tries are inputs of their kind.                  *)
LEMMA AdvanceInputs ==
  ASSUME AdvanceStep
  PROVE  \E wakes, most \in SUBSET Candidates, trips, coin \in BOOLEAN,
            sel \in Candidates \cup {None} : Advance(wakes, trips, coin, most, sel)
<1>1. /\ SUBSET {c \in Candidates : AllLearned(cand[c])} \subseteq SUBSET Candidates
      /\ {FALSE, selected # None} \subseteq BOOLEAN
  OBVIOUS
<1>2. Sleepiest \subseteq SUBSET Candidates
  BY DEF Sleepiest
<1> QED BY <1>1, <1>2 DEF AdvanceStep

(* Every step of the scheduler keeps the invariant.                        *)
LEMMA StepKeeps ==
  ASSUME TypeOK, SchedulerInv, Next
  PROVE  TypeOK' /\ SchedulerInv' /\ \A c \in Candidates : Kept(cand[c], cand'[c])
<1>1. CASE AdvanceStep
  BY <1>1, AdvanceKeeps, AdvanceInputs
<1>2. CASE \E end \in {lastEnd, lastEnd + 2} : Discontinuity(end)
  BY <1>2, DiscontinuityKeeps
<1>3. CASE \E s \in Senders, at \in asleepFrom + 1 .. lastEnd, escaped \in BOOLEAN :
             ObserveStep(s, at, escaped)
  <2>1. PICK s \in Senders, at \in asleepFrom + 1 .. lastEnd, escaped \in BOOLEAN :
          ObserveStep(s, at, escaped)
    BY <1>3
  <2>2. at \in Nat
    BY DEF TypeOK
  <2>3. CASE \E foreign \in BOOLEAN : ObserveRejected(s, at, escaped, foreign)
    BY <2>3, ObserveRejectedKeeps
  <2>4. CASE \E changed, most \in SUBSET Candidates, sel \in Candidates \cup {None} :
               ObserveAccepted(s, at, escaped, changed, most, sel)
    BY <2>2, <2>4, ObserveAcceptedKeeps
  <2>5. QED BY <2>1, <2>3, <2>4 DEF ObserveStep, Sleepiest
<1>4. CASE Resume
  BY <1>4, ResumeKeeps
<1>5. QED BY <1>1, <1>2, <1>3, <1>4 DEF Next

(* The scheduler starts in the invariant.                                  *)
LEMMA InitKeeps == Init => TypeOK /\ SchedulerInv
<1> SUFFICES ASSUME Init PROVE TypeOK /\ SchedulerInv
  OBVIOUS
<1>1. TypeOK
  <2>1. cand \in [Candidates -> CandidateType]
    BY FreshType DEF Init
  <2>2. lastSeen \in [Senders -> Nat] /\ gaps \in [Senders -> 0 .. WatchdogMin]
    BY ConstantTypes DEF Init
  <2>3. QED BY <2>1, <2>2 DEF Init, TypeOK
<1>2. EvidenceInv
  <2>1. \A c \in Candidates : cand[c] = Fresh
    BY DEF Init
  <2>2. QED BY <2>1, FreshType DEF EvidenceInv, Sound, Blank
<1>3. SleepInv /\ AuditInv /\ QuarantineInv /\ AlarmRecovers
  BY DEF Init, SleepInv, AuditInv, QuarantineInv, AlarmRecovers
<1>4. QED BY <1>1, <1>2, <1>3 DEF SchedulerInv

(* Type correctness, and the inductive invariant.                          *)
THEOREM SchedulerInvariant == Spec => [](TypeOK /\ SchedulerInv)
<1>1. TypeOK /\ SchedulerInv /\ UNCHANGED vars => TypeOK' /\ SchedulerInv'
  BY DEF vars, clockVars, auditVars, senderVars, blockVars, ghostVars, TypeOK, SchedulerInv,
         EvidenceInv, SleepInv, AuditInv, QuarantineInv, AlarmRecovers, WatchdogsReady
<1>2. TypeOK /\ SchedulerInv /\ [Next]_vars => TypeOK' /\ SchedulerInv'
  BY <1>1, StepKeeps
<1>3. QED BY <1>2, InitKeeps, PTL DEF Spec

(* TypeOK holds in every state.                                            *)
THEOREM SchedulerTypeOK == Spec => []TypeOK
  BY SchedulerInvariant, PTL

(* Advance skips a block only for a candidate with passing evidence of     *)
(* every sender, whatever the senders, candidates and targets.             *)
THEOREM SleepJustifiedThm == Spec => []SleepJustified
<1>1. TypeOK /\ SchedulerInv => SleepJustified
  BY ConstantTypes DEF SchedulerInv, EvidenceInv, SleepInv, Sound, SleepJustified
<1>2. QED BY <1>1, SchedulerInvariant, PTL

(* enterRecovery holds off sleep for the whole RecoveryDuration.           *)
THEOREM AlarmRecoversThm == Spec => []AlarmRecovers
<1>1. SchedulerInv => AlarmRecovers
  BY DEF SchedulerInv
<1>2. QED BY <1>1, SchedulerInvariant, PTL

(* Evidence never outlives the wake envelope it was gathered under.        *)
THEOREM EnvelopeThm == Spec => EnvelopeResetsEvidence
<1> DEFINE Step == \A c \in Candidates : cand'[c].scale # cand[c].scale =>
                     ~cand'[c].qualified /\ \A s \in Senders : cand'[c].events[s] = 0
<1>1. TypeOK /\ SchedulerInv /\ [Next]_vars => [Step]_vars
  <2>1. TypeOK /\ SchedulerInv /\ Next => Step
    BY StepKeeps DEF Kept, Blank
  <2>2. QED BY <2>1
<1>2. QED BY <1>1, SchedulerInvariant, PTL DEF Spec, EnvelopeResetsEvidence

-----------------------------------------------------------------------------
(* When refreshQualifications has nothing to do.                           *)

(* Everything a candidate's counts entitle it to has been acted on, except *)
(* what only the time brings.                                              *)
Settled(c) ==
  /\ Sound(c)
  /\ ~c.qualified => (QualifiesAt(c, PromotionNeed) <=> c.promotionReady > 0)

(* A settled candidate changes only when qualificationDue says so.         *)
LEMMA SettledIdle ==
  ASSUME NEW c \in CandidateType, NEW now \in Nat, Settled(c), ~QualificationDue(c, now)
  PROVE  Requalify(c, now) = c
<1> DEFINE d == IF c.invalid /\ now >= c.recoveryUntil THEN [c EXCEPT !.invalid = FALSE] ELSE c
           ready == IF d.promotionReady = 0 THEN now + PromotionStability ELSE d.promotionReady
<1>1. d = c
  BY DEF QualificationDue
<1>2. Requalify(c, now)
        = IF d.qualified
            THEN IF QualifiesAt(d, CaptureNeed) THEN d
                 ELSE [d EXCEPT !.qualified = FALSE, !.promotionReady = 0]
          ELSE IF ~QualifiesAt(d, PromotionNeed) THEN [d EXCEPT !.promotionReady = 0]
          ELSE [d EXCEPT !.promotionReady = ready, !.qualified = (now >= ready)]
  BY DEF Requalify
<1>3. ~c.qualified /\ QualifiesAt(c, PromotionNeed) => ready = c.promotionReady /\ ~(now >= ready)
  BY <1>1 DEF Settled, QualificationDue, CandidateType
<1> HIDE DEF d, ready
<1>4. CASE c.qualified
  BY <1>1, <1>2, <1>4 DEF Settled, Sound
<1>5. CASE ~c.qualified /\ ~QualifiesAt(c, PromotionNeed)
  <2>1. c.promotionReady = 0
    BY <1>5 DEF Settled, CandidateType
  <2>2. QED BY <1>1, <1>2, <1>5, <2>1 DEF CandidateType
<1>6. CASE ~c.qualified /\ QualifiesAt(c, PromotionNeed)
  <2>1. c.qualified = FALSE /\ (now >= ready) = FALSE
    BY <1>3, <1>6 DEF CandidateType
  <2>2. QED BY <1>1, <1>2, <1>3, <1>6, <2>1, ZenonT(60) DEF CandidateType
<1>7. QED BY <1>4, <1>5, <1>6

(* refreshQualifications settles any candidate, and leaves nothing due.    *)
LEMMA RequalifySettles ==
  ASSUME NEW c \in CandidateType, NEW now \in Nat
  PROVE  Settled(Requalify(c, now)) /\ ~QualificationDue(Requalify(c, now), now)
<1> DEFINE d == IF c.invalid /\ now >= c.recoveryUntil THEN [c EXCEPT !.invalid = FALSE] ELSE c
           ready == IF d.promotionReady = 0 THEN now + PromotionStability ELSE d.promotionReady
           r == Requalify(c, now)
<1>1. d \in CandidateType /\ ~(d.invalid /\ now >= d.recoveryUntil)
  BY DEF CandidateType
<1>2. ready \in Nat /\ ready > 0
  <2>1. PromotionStability > 0
    BY SchedulerAssumption
  <2>2. QED BY <1>1, <2>1, ConstantTypes DEF CandidateType
<1>3. r = IF d.qualified
            THEN IF QualifiesAt(d, CaptureNeed) THEN d
                 ELSE [d EXCEPT !.qualified = FALSE, !.promotionReady = 0]
          ELSE IF ~QualifiesAt(d, PromotionNeed) THEN [d EXCEPT !.promotionReady = 0]
          ELSE [d EXCEPT !.promotionReady = ready, !.qualified = (now >= ready)]
  BY DEF Requalify
<1>4. (now >= ready) \in BOOLEAN
  OBVIOUS
<1>5. r \in CandidateType /\ Sound(r)
  BY RequalifyFacts
<1> HIDE DEF d, ready, r
<1>6. r.invalid = d.invalid /\ r.recoveryUntil = d.recoveryUntil /\ r.history = d.history
      /\ r.scored = d.scored /\ r.events = d.events /\ r.misses = d.misses
  <2>1. CASE d.qualified
    BY <1>1, <1>3, <2>1 DEF CandidateType
  <2>2. CASE ~d.qualified /\ ~QualifiesAt(d, PromotionNeed)
    BY <1>1, <1>3, <2>2 DEF CandidateType
  <2>3. CASE ~d.qualified /\ QualifiesAt(d, PromotionNeed)
    BY <1>1, <1>3, <2>3 DEF CandidateType
  <2>4. QED BY <2>1, <2>2, <2>3
<1>7. QualifiesAt(r, PromotionNeed) <=> QualifiesAt(d, PromotionNeed)
  BY <1>6 DEF QualifiesAt, AllLearned, Learned, Passes
<1>8. ~r.qualified =>
        /\ QualifiesAt(d, PromotionNeed) <=> r.promotionReady > 0
        /\ r.promotionReady > 0 => now < r.promotionReady
  <2>1. CASE d.qualified
    <3>1. CASE QualifiesAt(d, CaptureNeed)
      BY <1>3, <2>1, <3>1
    <3>2. CASE ~QualifiesAt(d, CaptureNeed)
      <4>1. ~QualifiesAt(d, PromotionNeed)
        BY <1>1, <3>2, QualifiesMonotone
      <4>2. r.promotionReady = 0
        BY <1>1, <1>3, <2>1, <3>2 DEF CandidateType
      <4>3. QED BY <4>1, <4>2
    <3>3. QED BY <3>1, <3>2
  <2>2. CASE ~d.qualified /\ ~QualifiesAt(d, PromotionNeed)
    BY <1>1, <1>3, <2>2 DEF CandidateType
  <2>3. CASE ~d.qualified /\ QualifiesAt(d, PromotionNeed)
    <3> DEFINE early == now >= ready
    <3>1. r = [d EXCEPT !.promotionReady = ready, !.qualified = early]
      BY <1>3, <2>3
    <3> HIDE DEF early
    <3>2. r.promotionReady = ready /\ r.qualified = early
      BY <1>1, <3>1 DEF CandidateType
    <3>3. ~early => now < ready
      BY <1>2 DEF early
    <3>4. ~r.qualified => now < r.promotionReady
      BY <3>2, <3>3, Zenon
    <3>5. QED BY <1>2, <2>3, <3>2, <3>4
  <2>4. QED BY <2>1, <2>2, <2>3
<1>9. Settled(r)
  BY <1>5, <1>7, <1>8 DEF Settled
<1>10. ~QualificationDue(r, now)
  <2>1. ~(r.invalid /\ now >= r.recoveryUntil)
    BY <1>1, <1>6
  <2>2. ~(~r.qualified /\ r.promotionReady > 0 /\ now >= r.promotionReady)
    BY <1>5, <1>8 DEF CandidateType
  <2>3. QED BY <2>1, <2>2 DEF QualificationDue
<1>11. QED BY <1>9, <1>10 DEF r

(* A new epoch is settled.                                                 *)
LEMMA BlankSettled ==
  ASSUME NEW c \in CandidateType, Blank(c)
  PROVE  Settled(c)
<1>1. PICK s \in Senders : TRUE
  BY ConstantTypes
<1>2. ~QualifiesAt(c, PromotionNeed)
  BY <1>1 DEF Blank, QualifiesAt, Passes
<1>3. QED BY <1>2 DEF Settled, Sound, Blank

(* Scoring a block unsettles a candidate only with its first eligible one. *)
LEMMA ScoreSettled ==
  ASSUME NEW c \in CandidateType, NEW wakes \in BOOLEAN, Settled(c),
         ~(~c.scored /\ Score(c, wakes).scored)
  PROVE  Settled(Score(c, wakes))
<1> DEFINE d == Score(c, wakes)
<1>1. d.qualified = c.qualified /\ d.promotionReady = c.promotionReady
      /\ d.invalid = c.invalid /\ d.history = c.history
      /\ d.events = c.events /\ d.misses = c.misses
  BY DEF Score, CandidateType
<1>2. d.scored = c.scored
  BY DEF Score, CandidateType, AllLearned, Learned
<1> HIDE DEF d
<1>3. \A n : QualifiesAt(d, n) <=> QualifiesAt(c, n)
  BY <1>1, <1>2 DEF QualifiesAt, AllLearned, Learned, Passes
<1>4. QED BY <1>1, <1>3 DEF Settled, Sound, d

SettledInv == \A c \in Candidates : Settled(cand[c])

(* refreshQualifications settles every candidate; a second one is a no-op. *)
LEMMA RefreshSettles ==
  ASSUME NEW cs \in Bank, NEW now \in Nat
  PROVE  LET r == RefreshQualifications(cs, now)
         IN  /\ \A c \in Candidates : Settled(r[c])
             /\ RefreshQualifications(r, now) = r
<1> DEFINE r == RefreshQualifications(cs, now)
<1>1. r \in Bank
  BY RefreshFacts
<1>2. \A c \in Candidates : r[c] = Requalify(cs[c], now)
  BY DEF RefreshQualifications
<1> HIDE DEF r
<1>3. \A c \in Candidates : Settled(r[c]) /\ ~QualificationDue(r[c], now)
  BY <1>2, RequalifySettles DEF Bank
<1>4. \A c \in Candidates : Requalify(r[c], now) = r[c]
  BY <1>1, <1>3, SettledIdle DEF Bank
<1>5. RefreshQualifications(r, now) = r
  BY <1>1, <1>4 DEF RefreshQualifications, Bank
<1>6. QED BY <1>3, <1>5 DEF r

(* Advance leaves nothing for refreshQualifications to do.                 *)
LEMMA AdvanceSettles ==
  ASSUME TypeOK, SettledInv,
         NEW wakes \in SUBSET Candidates, NEW most \in SUBSET Candidates,
         NEW trips \in BOOLEAN, NEW coin \in BOOLEAN, NEW sel \in Candidates \cup {None},
         Advance(wakes, trips, coin, most, sel)
  PROVE  SettledInv' /\ RefreshQualifications(cand', lastEnd') = cand'
<1> DEFINE
      end == lastEnd + 1
      ended == refreshUntil > 0 /\ lastEnd >= refreshUntil
      sel0 == IF ended THEN None ELSE selected
      cs0 == IF ended /\ selected # None
               THEN [cand EXCEPT ![selected] = TightenAfterRefresh(@, lastEnd)]
               ELSE cand
      cs1 == [c \in Candidates |-> Score(cs0[c], c \in wakes)]
      recovers == trips /\ sel0 # None /\ end >= recoveryUntil
      cs2 == IF recovers THEN RecoverAtLeast(cs1, most, end) ELSE cs1
      first == \E c \in Candidates : ~cs0[c].scored /\ cs1[c].scored
      due == first \/ \E c \in Candidates : QualificationDue(cs2[c], end)
      cs3 == IF due THEN RefreshQualifications(cs2, end) ELSE cs2
<1>1. cand' = cs3 /\ lastEnd' = end
  BY DEF Advance
<1>2. end \in Nat /\ lastEnd \in Nat /\ cand \in Bank
  BY DEF TypeOK, Bank
<1>3. cs0 \in Bank /\ \A c \in Candidates : Settled(cs0[c])
  <2>1. CASE ended /\ selected # None
    <3>1. selected \in Candidates
      BY <2>1 DEF TypeOK
    <3> DEFINE d == TightenAfterRefresh(cand[selected], lastEnd)
    <3>2. d \in CandidateType /\ (d = cand[selected] \/ Blank(d))
      BY <1>2, <3>1, TightenFacts DEF Bank
    <3> HIDE DEF d
    <3>3. Settled(d)
      BY <3>1, <3>2, BlankSettled DEF SettledInv
    <3>4. cs0 = [cand EXCEPT ![selected] = d]
      BY <2>1 DEF d
    <3> HIDE DEF cs0
    <3>5. cs0 \in Bank
      BY <1>2, <3>1, <3>2, <3>4 DEF Bank
    <3>6. \A c \in Candidates : cs0[c] = cand[c] \/ cs0[c] = d
      BY <1>2, <3>1, <3>4 DEF Bank
    <3>7. QED BY <3>3, <3>5, <3>6 DEF SettledInv
  <2>2. CASE ~(ended /\ selected # None)
    BY <1>2, <2>2 DEF SettledInv
  <2>3. QED BY <2>1, <2>2
<1> HIDE DEF cs0
<1>4. cs1 \in Bank /\ (~first => \A c \in Candidates : Settled(cs1[c]))
  <2>1. \A c \in Candidates : cs0[c] \in CandidateType /\ (c \in wakes) \in BOOLEAN
    <3> TAKE c \in Candidates
    <3>1. QED BY <1>3 DEF Bank
  <2>2. \A c \in Candidates : Score(cs0[c], c \in wakes) \in CandidateType
    BY <2>1, ScoreFacts
  <2>3. \A c \in Candidates : cs1[c] = Score(cs0[c], c \in wakes)
    OBVIOUS
  <2>4. cs1 \in Bank
    BY <2>2 DEF Bank
  <2>5. ASSUME ~first, NEW c \in Candidates PROVE Settled(cs1[c])
    <3>1. ~(~cs0[c].scored /\ Score(cs0[c], c \in wakes).scored)
      BY <2>3, <2>5
    <3>2. QED BY <1>3, <2>1, <2>3, <3>1, ScoreSettled
  <2>6. QED BY <2>4, <2>5
<1> HIDE DEF cs1, recovers
<1>5. cs2 \in Bank /\ (~first => \A c \in Candidates : Settled(cs2[c]))
  <2>1. CASE recovers
    <3>1. cs2 \in Bank /\ \A c \in Candidates : cs2[c] = cs1[c] \/ Blank(cs2[c])
      BY <1>2, <1>4, <2>1, RecoverFacts
    <3>2. QED BY <1>4, <3>1, BlankSettled DEF Bank
  <2>2. CASE ~recovers
    BY <1>4, <2>2
  <2>3. QED BY <2>1, <2>2
<1> HIDE DEF cs2, first
<1>6. CASE due
  BY <1>1, <1>2, <1>5, <1>6, RefreshSettles DEF SettledInv
<1>7. CASE ~due
  <2>1. cs3 = cs2 /\ \A c \in Candidates : Settled(cs2[c]) /\ ~QualificationDue(cs2[c], end)
    BY <1>5, <1>7
  <2>2. \A c \in Candidates : Requalify(cs2[c], end) = cs2[c]
    BY <1>2, <1>5, <2>1, SettledIdle DEF Bank
  <2>3. RefreshQualifications(cs2, end) = cs2
    BY <1>5, <2>2 DEF RefreshQualifications, Bank
  <2>4. QED BY <1>1, <2>1, <2>3 DEF SettledInv
<1>8. QED BY <1>6, <1>7

(* Every other step refreshes the qualifications, or has none to refresh.  *)
LEMMA StepSettles ==
  ASSUME TypeOK, SettledInv, Next
  PROVE  /\ SettledInv'
         /\ lastEnd' = lastEnd + 1 => RefreshQualifications(cand', lastEnd') = cand'
<1>0. lastEnd \in Nat /\ cand \in Bank
  BY DEF TypeOK, Bank
<1>1. CASE AdvanceStep
  BY <1>1, AdvanceSettles, AdvanceInputs
<1>2. CASE \E end \in {lastEnd, lastEnd + 2} : Discontinuity(end)
  <2> DEFINE f == [Fresh EXCEPT !.lastAwake = TRUE]
  <2>1. PICK end \in {lastEnd, lastEnd + 2} : Discontinuity(end)
    BY <1>2
  <2>2. cand' = [c \in Candidates |-> f] /\ lastEnd' = end
    BY <2>1 DEF Discontinuity
  <2>3. f \in CandidateType /\ Blank(f)
    BY FreshType DEF CandidateType, Blank
  <2> HIDE DEF f
  <2>4. Settled(f)
    BY <2>3, BlankSettled
  <2>5. \A c \in Candidates : cand'[c] = f
    BY <2>2
  <2>6. SettledInv'
    BY <2>4, <2>5 DEF SettledInv
  <2>7. lastEnd' # lastEnd + 1
    BY <1>0, <2>1, <2>2
  <2>8. QED BY <2>6, <2>7
<1>3. CASE \E s \in Senders, at \in asleepFrom + 1 .. lastEnd, escaped \in BOOLEAN :
             ObserveStep(s, at, escaped)
  <2>1. PICK s \in Senders, at \in asleepFrom + 1 .. lastEnd, escaped \in BOOLEAN :
          ObserveStep(s, at, escaped)
    BY <1>3
  <2>2. at \in Nat
    BY DEF TypeOK
  <2>3. CASE \E foreign \in BOOLEAN : ObserveRejected(s, at, escaped, foreign)
    BY <1>0, <2>3 DEF ObserveRejected, SettledInv
  <2>4. ASSUME NEW changed \in SUBSET Candidates, NEW most \in SUBSET Candidates,
               NEW sel \in Candidates \cup {None},
               ObserveAccepted(s, at, escaped, changed, most, sel)
        PROVE  SettledInv' /\ lastEnd' = lastEnd
    <3> DEFINE
          cs0 == IF s \in reanchor THEN cand
                 ELSE [c \in Candidates |-> Learn(cand[c], s, at, c \in changed)]
          cs1 == IF EscapeDetected(escaped) THEN RecoverAtLeast(cs0, most, at) ELSE cs0
    <3>1. cand' = RefreshQualifications(cs1, at) /\ lastEnd' = lastEnd
      BY <2>4 DEF ObserveAccepted
    <3>2. cs0 \in Bank
      <4>1. CASE s \in reanchor
        BY <1>0, <4>1
      <4>2. CASE s \notin reanchor
        <5>1. ASSUME NEW c \in Candidates
              PROVE  Learn(cand[c], s, at, c \in changed) \in CandidateType
          <6>1. cand[c] \in CandidateType /\ (c \in changed) \in BOOLEAN
            BY <1>0 DEF Bank
          <6>2. QED BY <2>2, <6>1, LearnFacts
        <5>2. cs0 = [c \in Candidates |-> Learn(cand[c], s, at, c \in changed)]
          BY <4>2
        <5> HIDE DEF cs0
        <5>3. QED BY <5>1, <5>2 DEF Bank
      <4>3. QED BY <4>1, <4>2
    <3> HIDE DEF cs0
    <3>3. cs1 \in Bank
      BY <2>2, <3>2, RecoverFacts
    <3> HIDE DEF cs1
    <3>4. QED BY <2>2, <3>1, <3>3, RefreshSettles DEF SettledInv
  <2>5. QED BY <1>0, <2>1, <2>3, <2>4 DEF ObserveStep, Sleepiest
<1>4. CASE Resume
  <2>1. cand' = RefreshQualifications(cand, lastEnd) /\ lastEnd' = lastEnd
    BY <1>4 DEF Resume
  <2>2. QED BY <1>0, <2>1, RefreshSettles DEF SettledInv
<1>5. QED BY <1>1, <1>2, <1>3, <1>4 DEF Next

(* After every Advance a full refreshQualifications would change nothing,  *)
(* for all senders, candidates and targets: skipping it unless a candidate *)
(* scores its first block or qualificationDue holds loses no promotion,    *)
(* demotion or end of a recovery.                                          *)
THEOREM QualificationCurrentThm == Spec => QualificationCurrent
<1> DEFINE Step == lastEnd' = lastEnd + 1 /\ live' /\ seen' = seen
                     => RefreshQualifications(cand', lastEnd') = cand'
<1>1. Init => SettledInv
  BY FreshType, BlankSettled DEF Init, SettledInv
<1>2. TypeOK /\ SettledInv /\ [Next]_vars => SettledInv'
  BY StepSettles DEF vars, SettledInv
<1>3. TypeOK /\ SettledInv /\ [Next]_vars => [Step]_vars
  BY StepSettles
<1>4. QED BY <1>1, <1>2, <1>3, SchedulerTypeOK, PTL DEF Spec, QualificationCurrent

-----------------------------------------------------------------------------
(* The refresh.                                                            *)

(* refreshInterval divides the configured interval by at most 4 and keeps  *)
(* at least a minute: it is never longer than an interval configured as a  *)
(* minute or more.  RecoveryDuration is 10 minutes by default, some        *)
(* thousand blocks.                                                        *)
RefreshShortens ==
  RecoveryDuration >= 2 /\ \A k \in Levels : RefreshInterval[k] <= RefreshInterval[0]

(* A refresh is under way until refreshUntil, or has ended with the last   *)
(* block; while it is, every block counts as full.                         *)
UnderWayInv ==
  refreshUntil > 0 => /\ lastEnd <= refreshUntil
                      /\ lastEnd < refreshUntil => sinceFull = 0
                      /\ sinceFull <= 1

(* The next one is planned only outside a recovery, and in time.           *)
PlannedInv ==
  nextRefresh > 0 => /\ recoveryUntil <= lastEnd
                     /\ nextRefresh + sinceFull <= lastEnd + RefreshInterval[0] + 2

(* None is planned only if the last block was full, or the next will be.   *)
UnplannedInv == nextRefresh = 0 => sinceFull = 0 \/ lastEnd + 1 < recoveryUntil

RefreshInv == UnderWayInv /\ PlannedInv /\ UnplannedInv /\ RefreshedInTime

(* A refresh and the next one are planned together, the next after the      *)
(* interval of the envelope of the moment.                                  *)
ApartInv ==
  refreshUntil > 0 =>
    /\ nextRefresh > 0
    /\ \E k \in Levels : nextRefresh + RefreshDuration = refreshUntil + RefreshInterval[k]

(* What RefreshAsPlanned says of a step.                                    *)
AsPlanned ==
  lastEnd < refreshUntil /\ refreshUntil' \notin {0, refreshUntil} =>
    /\ nextRefresh <= lastEnd'
    /\ \E k \in Levels : /\ nextRefresh = refreshUntil - RefreshDuration + RefreshInterval[k]
                         /\ RefreshInterval[k] <= RefreshDuration

(* Advance, reduced to the clock: the refresh that was under way has ended *)
(* or not, a watchdog sounds or not, and one of three things follows: no   *)
(* candidate is selected, a refresh begins, or neither.                    *)
LEMMA AdvanceClock ==
  ASSUME TypeOK, SchedulerInv,
         NEW wakes \in SUBSET Candidates, NEW most \in SUBSET Candidates,
         NEW trips \in BOOLEAN, NEW coin \in BOOLEAN, NEW sel \in Candidates \cup {None},
         Advance(wakes, trips, coin, most, sel)
  PROVE  \E ended, recovers \in BOOLEAN, k \in Levels :
           LET end == lastEnd + 1
               dropped == ended \/ recovers
               refreshed == IF dropped THEN 0 ELSE refreshUntil
               planned == IF dropped THEN 0 ELSE nextRefresh
               nextDue == IF planned = 0 THEN end + RefreshInterval[k] ELSE planned
           IN  /\ lastEnd' = end
               /\ ended <=> refreshUntil > 0 /\ lastEnd >= refreshUntil
               /\ IF recovers THEN recoveryUntil' >= end + RecoveryDuration
                              ELSE recoveryUntil' = recoveryUntil
               /\ \/ /\ selected' = None
                     /\ refreshUntil' = refreshed /\ nextRefresh' = planned
                     /\ sinceFull' = 0 /\ decode'
                  \/ /\ selected' # None /\ end >= recoveryUntil' /\ end >= nextDue
                     /\ refreshUntil' = end + RefreshDuration
                     /\ nextRefresh' = end + RefreshInterval[k]
                     /\ sinceFull' = 0 /\ decode'
                  \/ /\ selected' # None /\ end >= recoveryUntil' /\ end < nextDue
                     /\ refreshUntil' = refreshed /\ nextRefresh' = nextDue
                     /\ IF end < refreshed THEN sinceFull' = 0 /\ decode'
                                           ELSE sinceFull' = sinceFull + 1
<1> DEFINE
      end == lastEnd + 1
      ended == refreshUntil > 0 /\ lastEnd >= refreshUntil
      sel0 == IF ended THEN None ELSE selected
      cs0 == IF ended /\ selected # None
               THEN [cand EXCEPT ![selected] = TightenAfterRefresh(@, lastEnd)]
               ELSE cand
      cs1 == [c \in Candidates |-> Score(cs0[c], c \in wakes)]
      recovers == trips /\ sel0 # None /\ end >= recoveryUntil
      cs2 == IF recovers THEN RecoverAtLeast(cs1, most, end) ELSE cs1
      until == IF recovers THEN EnterRecovery(recoveryUntil, end) ELSE recoveryUntil
      due == \/ \E c \in Candidates : ~cs0[c].scored /\ cs1[c].scored
             \/ \E c \in Candidates : QualificationDue(cs2[c], end)
      cs3 == IF due THEN RefreshQualifications(cs2, end) ELSE cs2
      refreshed == IF ended \/ recovers THEN 0 ELSE refreshUntil
      planned == IF ended \/ recovers THEN 0 ELSE nextRefresh
      gating == sel # None /\ end >= until
      nextDue == IF gating THEN RefreshScheduled(planned, end, cs3[sel]) ELSE planned
      begins == gating /\ end >= nextDue
      refreshEnd == IF begins THEN end + RefreshDuration ELSE refreshed
      refreshing == sel # None /\ end < refreshEnd
      sleeps == gating /\ ~refreshing /\ cs3[sel].lastEligible /\ ~cs3[sel].lastAwake
      wasQuiet == IF recovers THEN None ELSE quiet
      audits == IF sleeps THEN IF wasQuiet = sel THEN audit ELSE coin ELSE FALSE
      level == IF sel = None THEN 0 ELSE cs3[sel].scale
<1>1. /\ sel \in Choices(cs3, end, until, reanchor, gaps)
      /\ cand' = cs3 /\ selected' = sel /\ lastEnd' = end /\ recoveryUntil' = until
      /\ refreshUntil' = refreshEnd
      /\ nextRefresh' = IF begins THEN end + RefreshInterval[cs3[sel].scale] ELSE nextDue
      /\ decode' = (~sleeps \/ audits)
      /\ sinceFull' = IF sel = None \/ refreshing THEN 0 ELSE sinceFull + 1
  BY DEF Advance
<1>2. cand' \in Bank
  BY AdvanceKeeps, ZenonT(60) DEF TypeOK, Bank
<1> HIDE DEF cs3
<1>3. level \in Levels
  <2>1. sel # None => cs3[sel] \in CandidateType
    BY <1>1, <1>2 DEF Bank
  <2>2. 0 \in Levels
    BY ConstantTypes DEF Levels
  <2>3. QED BY <2>1, <2>2 DEF CandidateType
<1>4. sel # None => end >= until
  <2>1. until \in Nat /\ end \in Nat
    BY ConstantTypes DEF EnterRecovery, Larger, TypeOK
  <2> HIDE DEF until
  <2>2. sel # None => ~(end < until)
    BY <1>1 DEF Choices
  <2>3. QED BY <2>1, <2>2
<1>5. ended \in BOOLEAN /\ recovers \in BOOLEAN
  OBVIOUS
<1>6. recovers => until >= end + RecoveryDuration
  BY ConstantTypes DEF EnterRecovery, Larger, TypeOK
<1>7. ~recovers => until = recoveryUntil
  OBVIOUS
<1>8. ended <=> refreshUntil > 0 /\ lastEnd >= refreshUntil
  OBVIOUS
<1> HIDE DEF until, ended, recovers
<1> DEFINE following == IF planned = 0 THEN end + RefreshInterval[level] ELSE planned
<1>9. sel # None => nextDue = following
  BY <1>4 DEF RefreshScheduled
<1>10. RefreshDuration \in Nat \ {0} /\ end \in Nat
  BY SchedulerAssumption DEF TypeOK
<1>11. sleeps => gating /\ ~refreshing
  OBVIOUS
<1>12. ~sleeps => decode'
  BY <1>1
<1> HIDE DEF sleeps, audits, following, planned
<1>13. CASE sel = None
  <2>1. /\ selected' = None /\ refreshUntil' = refreshed /\ nextRefresh' = planned
        /\ sinceFull' = 0 /\ decode'
    BY <1>1, <1>11, <1>12, <1>13
  <2>2. QED BY <1>1, <1>3, <1>5, <1>6, <1>7, <1>8, <2>1 DEF planned
<1>14. CASE sel # None /\ end >= following
  <2>1. /\ selected' # None /\ end >= recoveryUntil'
        /\ refreshUntil' = end + RefreshDuration
        /\ nextRefresh' = end + RefreshInterval[level]
        /\ sinceFull' = 0 /\ decode'
    BY <1>1, <1>4, <1>9, <1>10, <1>11, <1>12, <1>14
  <2>2. QED BY <1>1, <1>3, <1>5, <1>6, <1>7, <1>8, <1>14, <2>1 DEF planned, following
<1>15. CASE sel # None /\ ~(end >= following)
  <2>1. ~begins /\ refreshEnd = refreshed
    BY <1>4, <1>9, <1>15
  <2>2. /\ selected' # None /\ end >= recoveryUntil'
        /\ refreshUntil' = refreshed /\ nextRefresh' = following
        /\ IF end < refreshed THEN sinceFull' = 0 /\ decode' ELSE sinceFull' = sinceFull + 1
    BY <1>1, <1>4, <1>9, <1>11, <1>12, <1>15, <2>1
  <2>3. following \in Int
    BY <1>3, <1>10, ConstantTypes DEF following, planned, TypeOK
  <2>4. end < following
    BY <1>10, <1>15, <2>3
  <2>5. QED BY <1>1, <1>3, <1>5, <1>6, <1>7, <1>8, <2>2, <2>4 DEF planned, following
<1>16. QED BY <1>13, <1>14, <1>15

(* Advance keeps the refreshes in time and apart.                          *)
LEMMA AdvanceRefreshes ==
  ASSUME TypeOK, SchedulerInv, AdvanceStep
  PROVE  /\ RefreshShortens /\ RefreshInv => RefreshInv'
         /\ ApartInv => ApartInv' /\ AsPlanned
<1>1. PICK ended, recovers \in BOOLEAN, k \in Levels :
           LET end == lastEnd + 1
               dropped == ended \/ recovers
               refreshed == IF dropped THEN 0 ELSE refreshUntil
               planned == IF dropped THEN 0 ELSE nextRefresh
               nextDue == IF planned = 0 THEN end + RefreshInterval[k] ELSE planned
           IN  /\ lastEnd' = end
               /\ ended <=> refreshUntil > 0 /\ lastEnd >= refreshUntil
               /\ IF recovers THEN recoveryUntil' >= end + RecoveryDuration
                              ELSE recoveryUntil' = recoveryUntil
               /\ \/ /\ selected' = None
                     /\ refreshUntil' = refreshed /\ nextRefresh' = planned
                     /\ sinceFull' = 0 /\ decode'
                  \/ /\ selected' # None /\ end >= recoveryUntil' /\ end >= nextDue
                     /\ refreshUntil' = end + RefreshDuration
                     /\ nextRefresh' = end + RefreshInterval[k]
                     /\ sinceFull' = 0 /\ decode'
                  \/ /\ selected' # None /\ end >= recoveryUntil' /\ end < nextDue
                     /\ refreshUntil' = refreshed /\ nextRefresh' = nextDue
                     /\ IF end < refreshed THEN sinceFull' = 0 /\ decode'
                                           ELSE sinceFull' = sinceFull + 1
  BY AdvanceClock, AdvanceInputs
<1> DEFINE end == lastEnd + 1
           refreshed == IF ended \/ recovers THEN 0 ELSE refreshUntil
           planned == IF ended \/ recovers THEN 0 ELSE nextRefresh
           nextDue == IF planned = 0 THEN end + RefreshInterval[k] ELSE planned
           i == RefreshInterval[k]
           i0 == RefreshInterval[0]
<1>2. /\ lastEnd' = end
      /\ ended <=> refreshUntil > 0 /\ lastEnd >= refreshUntil
      /\ recovers => recoveryUntil' >= end + RecoveryDuration
      /\ ~recovers => recoveryUntil' = recoveryUntil
  BY <1>1
<1>3. \/ /\ refreshUntil' = refreshed /\ nextRefresh' = planned /\ sinceFull' = 0 /\ decode'
      \/ /\ end >= recoveryUntil' /\ end >= nextDue
         /\ refreshUntil' = end + RefreshDuration /\ nextRefresh' = end + i
         /\ sinceFull' = 0 /\ decode'
      \/ /\ end >= recoveryUntil' /\ end < nextDue
         /\ refreshUntil' = refreshed /\ nextRefresh' = nextDue
         /\ IF end < refreshed THEN sinceFull' = 0 /\ decode' ELSE sinceFull' = sinceFull + 1
  BY <1>1
<1>4. /\ lastEnd \in Nat /\ refreshUntil \in Nat /\ nextRefresh \in Nat /\ sinceFull \in Nat
      /\ recoveryUntil \in Nat /\ recoveryUntil' \in Nat
  <2>1. TypeOK'
    BY AdvanceKeeps, AdvanceInputs
  <2>2. QED BY <2>1 DEF TypeOK
<1>5. i \in Nat \ {0} /\ i0 \in Nat \ {0} /\ RefreshDuration \in Nat \ {0} /\ RecoveryDuration \in Nat
  BY SchedulerAssumption DEF Levels
<1>6. RefreshShortens => i <= i0 /\ RecoveryDuration >= 2
  BY DEF RefreshShortens
<1> HIDE DEF i, i0
<1>7. nextDue = IF planned = 0 THEN end + i ELSE planned
  BY DEF i
<1> HIDE DEF nextDue
<1>8. ASSUME RefreshShortens, RefreshInv PROVE RefreshInv'
  <2>1. UnderWayInv /\ PlannedInv /\ UnplannedInv
    BY <1>8 DEF RefreshInv
  <2>2. refreshUntil > 0 => lastEnd <= refreshUntil /\ sinceFull <= 1
                            /\ (lastEnd < refreshUntil => sinceFull = 0)
    BY <2>1 DEF UnderWayInv
  <2>3. nextRefresh > 0 => recoveryUntil <= lastEnd /\ nextRefresh + sinceFull <= lastEnd + i0 + 2
    BY <2>1 DEF PlannedInv, i0
  <2>4. nextRefresh = 0 => sinceFull = 0 \/ lastEnd + 1 < recoveryUntil
    BY <2>1 DEF UnplannedInv
  <2>5. i <= i0 /\ RecoveryDuration >= 2
    BY <1>6, <1>8
  <2>6. UnderWayInv'
    <3>1. refreshUntil' > 0 => /\ end <= refreshUntil' /\ sinceFull' <= 1
                               /\ end < refreshUntil' => sinceFull' = 0
      BY <1>2, <1>3, <1>4, <1>5, <2>2
    <3>2. QED BY <1>2, <3>1 DEF UnderWayInv
  <2>7. /\ nextRefresh' > 0 => recoveryUntil' <= end /\ nextRefresh' + sinceFull' <= end + i0 + 2
        /\ nextRefresh' = 0 => sinceFull' = 0
        /\ ~decode' => sinceFull' <= i0 + 1
    <3>1. CASE planned = 0
      <4>1. end >= recoveryUntil' => sinceFull <= 1
        BY <1>2, <1>4, <1>5, <2>2, <2>4, <2>5, <3>1
      <4>2. QED BY <1>2, <1>3, <1>4, <1>5, <1>7, <2>5, <3>1, <4>1
    <3>2. CASE planned # 0
      <4>1. planned = nextRefresh /\ planned > 0 /\ recoveryUntil' = recoveryUntil
        BY <1>2, <1>4, <3>2
      <4>2. QED BY <1>2, <1>3, <1>4, <1>5, <1>7, <2>3, <2>5, <3>2, <4>1
    <3>3. QED BY <3>1, <3>2
  <2>8. PlannedInv' /\ UnplannedInv' /\ RefreshedInTime'
    BY <1>2, <2>7 DEF PlannedInv, UnplannedInv, RefreshedInTime, i0
  <2>9. QED BY <2>6, <2>8 DEF RefreshInv
<1>9. ASSUME ApartInv PROVE ApartInv' /\ AsPlanned
  <2>1. ApartInv'
    <3>1. CASE refreshUntil' = end + RefreshDuration /\ nextRefresh' = end + i
      <4>1. nextRefresh' + RefreshDuration = refreshUntil' + RefreshInterval[k] /\ nextRefresh' > 0
        BY <1>4, <1>5, <3>1 DEF i
      <4>2. QED BY <4>1 DEF ApartInv
    <3>2. CASE refreshUntil' = refreshed /\ (nextRefresh' = planned \/ nextRefresh' = nextDue)
      <4>1. CASE refreshUntil' > 0
        <5>1. refreshUntil' = refreshUntil /\ planned = nextRefresh /\ refreshUntil > 0
          BY <3>2, <4>1
        <5>2. nextRefresh > 0
          BY <1>9, <5>1 DEF ApartInv
        <5>3. nextRefresh' = nextRefresh
          BY <1>7, <3>2, <5>1, <5>2
        <5>4. QED BY <1>9, <5>1, <5>3 DEF ApartInv
      <4>2. CASE ~(refreshUntil' > 0)
        BY <4>2 DEF ApartInv
      <4>3. QED BY <4>1, <4>2
    <3>3. QED BY <1>3, <3>1, <3>2
  <2>2. ASSUME lastEnd < refreshUntil, refreshUntil' \notin {0, refreshUntil}
        PROVE  /\ nextRefresh <= lastEnd'
               /\ \E m \in Levels : /\ nextRefresh = refreshUntil - RefreshDuration + RefreshInterval[m]
                                    /\ RefreshInterval[m] <= RefreshDuration
    <3>1. PICK m \in Levels : nextRefresh + RefreshDuration = refreshUntil + RefreshInterval[m]
      BY <1>4, <1>9, <2>2 DEF ApartInv
    <3>2. RefreshInterval[m] \in Nat \ {0}
      BY SchedulerAssumption
    <3>3. end >= nextDue
      BY <1>3, <2>2
    <3>4. planned = nextRefresh /\ nextRefresh > 0
      BY <1>4, <1>5, <1>7, <1>9, <2>2, <3>3 DEF ApartInv
    <3>5. end >= nextRefresh
      BY <1>4, <1>7, <3>3, <3>4
    <3>6. QED BY <1>2, <1>4, <1>5, <2>2, <3>1, <3>2, <3>5
  <2>3. QED BY <2>1, <2>2 DEF AsPlanned
<1>10. QED BY <1>8, <1>9

(* enterRecovery drops the refresh, and the next block is decoded.         *)
LEMMA RecoveryRefreshes ==
  ASSUME NEW end \in Nat, NEW until \in Nat, lastEnd' = end, recoveryUntil' = until,
         refreshUntil' = 0, nextRefresh' = 0,
         sinceFull' = 0 \/ until >= end + RecoveryDuration
  PROVE  UnderWayInv' /\ PlannedInv' /\ (RefreshShortens => UnplannedInv') /\ ApartInv' /\ AsPlanned
<1>1. RefreshShortens => sinceFull' = 0 \/ end + 1 < until
  BY ConstantTypes DEF RefreshShortens
<1>2. QED BY <1>1 DEF UnderWayInv, PlannedInv, UnplannedInv, ApartInv, AsPlanned

(* Every step keeps the refreshes in time and apart.                       *)
LEMMA StepRefreshes ==
  ASSUME TypeOK, SchedulerInv, Next
  PROVE  /\ RefreshShortens /\ RefreshInv => RefreshInv'
         /\ ApartInv => ApartInv' /\ AsPlanned
<1>0. lastEnd \in Nat /\ RecoveryDuration \in Nat /\ recoveryUntil \in Nat
  BY ConstantTypes DEF TypeOK
<1>1. CASE AdvanceStep
  BY <1>1, AdvanceRefreshes
<1>2. CASE \E end \in {lastEnd, lastEnd + 2} : Discontinuity(end)
  <2>1. PICK end \in Nat : Discontinuity(end)
    BY <1>2 DEF Discontinuity
  <2>2. FailOpen(end) /\ decode' = TRUE /\ sinceFull' = 0 /\ lastEnd' = end
    BY <2>1 DEF Discontinuity
  <2>3. RefreshedInTime'
    BY <2>2 DEF RefreshedInTime
  <2>4. QED BY <2>2, <2>3, FailOpenFacts, RecoveryRefreshes DEF RefreshInv
<1>3. CASE \E s \in Senders, at \in asleepFrom + 1 .. lastEnd, escaped \in BOOLEAN :
             ObserveStep(s, at, escaped)
  <2>1. PICK s \in Senders, at \in asleepFrom + 1 .. lastEnd, escaped \in BOOLEAN :
          ObserveStep(s, at, escaped)
    BY <1>3
  <2>2. CASE \E foreign \in BOOLEAN : ObserveRejected(s, at, escaped, foreign)
    <3>1. FailOpen(lastEnd) /\ decode' = decode /\ sinceFull' = sinceFull /\ lastEnd' = lastEnd
      BY <2>2 DEF ObserveRejected, blockVars
    <3>2. RefreshedInTime => RefreshedInTime'
      BY <3>1 DEF RefreshedInTime
    <3>3. QED BY <1>0, <3>1, <3>2, FailOpenFacts, RecoveryRefreshes DEF RefreshInv
  <2>3. CASE \E changed, most \in SUBSET Candidates, sel \in Candidates \cup {None} :
               ObserveAccepted(s, at, escaped, changed, most, sel)
    <3>1. /\ decode' = decode /\ sinceFull' = sinceFull /\ lastEnd' = lastEnd
          /\ recoveryUntil' = IF EscapeDetected(escaped) THEN EnterRecovery(recoveryUntil, lastEnd)
                                                         ELSE recoveryUntil
          /\ refreshUntil' = IF EscapeDetected(escaped) THEN 0 ELSE refreshUntil
          /\ nextRefresh' = IF EscapeDetected(escaped) THEN 0 ELSE nextRefresh
      BY <2>3 DEF ObserveAccepted, blockVars
    <3>2. RefreshedInTime => RefreshedInTime'
      BY <3>1 DEF RefreshedInTime
    <3>3. CASE EscapeDetected(escaped)
      <4>1. recoveryUntil' \in Nat /\ recoveryUntil' >= lastEnd' + RecoveryDuration
        BY <1>0, <3>1, <3>3 DEF EnterRecovery, Larger
      <4>2. QED BY <1>0, <3>1, <3>2, <3>3, <4>1, RecoveryRefreshes DEF RefreshInv
    <3>4. CASE ~EscapeDetected(escaped)
      BY <3>1, <3>2, <3>4
         DEF RefreshInv, UnderWayInv, PlannedInv, UnplannedInv, ApartInv, AsPlanned
    <3>5. QED BY <3>3, <3>4
  <2>4. QED BY <2>1, <2>2, <2>3 DEF ObserveStep, Sleepiest
<1>4. CASE Resume
  <2>1. FailOpen(lastEnd) /\ decode' = TRUE /\ sinceFull' = 0 /\ lastEnd' = lastEnd
    BY <1>4 DEF Resume
  <2>2. RefreshedInTime'
    BY <2>1 DEF RefreshedInTime
  <2>3. QED BY <1>0, <2>1, <2>2, FailOpenFacts, RecoveryRefreshes DEF RefreshInv
<1>5. QED BY <1>1, <1>2, <1>3, <1>4 DEF Next

(* With a recovery of at least two blocks, sleep goes on for no longer     *)
(* than the configured refresh interval, whatever alarms, envelopes and    *)
(* changes of the selected candidate come between.                         *)
THEOREM RefreshedInTimeThm ==
  ASSUME RefreshShortens
  PROVE  Spec => []RefreshedInTime
<1>1. Init => RefreshInv
  BY DEF Init, RefreshInv, UnderWayInv, PlannedInv, UnplannedInv, RefreshedInTime
<1>2. TypeOK /\ SchedulerInv /\ RefreshInv /\ [Next]_vars => RefreshInv'
  <2>1. RefreshInv /\ UNCHANGED vars => RefreshInv'
    BY DEF vars, clockVars, blockVars, ghostVars, RefreshInv, UnderWayInv, PlannedInv,
           UnplannedInv, RefreshedInTime
  <2>2. QED BY <2>1, StepRefreshes
<1>3. RefreshInv => RefreshedInTime
  BY DEF RefreshInv
<1>4. QED BY <1>1, <1>2, <1>3, SchedulerInvariant, PTL DEF Spec

(* For every policy New accepts, a refresh under way is begun again only   *)
(* when the interval of the envelope it began with has passed and is no    *)
(* longer than the refresh; every other refresh runs to its end, where     *)
(* tightenAfterRefresh is called, unless an alarm drops it.                *)
THEOREM RefreshAsPlannedThm == Spec => RefreshAsPlanned
<1>1. Init => ApartInv
  BY DEF Init, ApartInv
<1>2. TypeOK /\ SchedulerInv /\ ApartInv /\ [Next]_vars => ApartInv' /\ [AsPlanned]_vars
  <2>1. ApartInv /\ UNCHANGED vars => ApartInv'
    BY DEF vars, clockVars, ApartInv
  <2>2. QED BY <2>1, StepRefreshes
<1>3. QED BY <1>1, <1>2, SchedulerInvariant, PTL DEF Spec, RefreshAsPlanned, AsPlanned
=============================================================================
