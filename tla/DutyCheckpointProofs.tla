------------------------ MODULE DutyCheckpointProofs ------------------------
(***************************************************************************)
(* Proofs about DutyCheckpoint for every set of configurations, every      *)
(* block length and sample rate and any number of starts, writes, faults   *)
(* and crashes.                                                            *)
(***************************************************************************)
EXTENDS DutyCheckpoint, FiniteSetTheorems, WellFoundedInduction, TLAPS

Reports ==
  [config : Configs, session : Nat, sequence : Nat, blocks : 0 .. MaxBlocks, time : Nat,
   remainder : Nat, evidence : 0 .. MaxEvidence, cadence : {c.policy : c \in Configs},
   created : Nat]

NumberedFiles == [report : Reports, contents : {"torn", "cached", "synced"}, entry : BOOLEAN]
FixedFiles == [report : Reports, contents : {"synced"}]

NameOf(r) == <<r.session, r.sequence>>

\* What every report says, wherever it is: it was learned under its own
\* policy, and counts of this directory bound its numbers.
Recorded(r) ==
  /\ r.cadence = r.config.policy
  /\ r.session <= starts /\ r.sequence <= writes /\ r.created <= writes

CountInv ==
  /\ starts \in 0 .. MaxStarts /\ writes \in 0 .. MaxWrites
  /\ session \in 0 .. starts /\ sequence \in 0 .. writes
  /\ blocks \in 0 .. MaxBlocks /\ evidence \in 0 .. MaxEvidence
  /\ sampleTime \in Nat /\ sampleRemainder \in 0 .. (Rate - 1)
  /\ refused \in Nat

\* The numbered files: a finite set, each named after its report, no two
\* written at the same time.
DiskInv ==
  /\ IsFiniteSet(DOMAIN disk)
  /\ \A n \in DOMAIN disk : /\ disk[n] \in NumberedFiles
                            /\ n = NameOf(disk[n].report) /\ Recorded(disk[n].report)
  /\ \A m, n \in DOMAIN disk : disk[m].report.created = disk[n].report.created => m = n

\* Only whole files are renamed to latest.json and to the report file.
NamedInv ==
  /\ named \in [{"latest", "report"} -> FixedFiles \cup {None}]
  /\ onDisk \in [{"latest", "report"} -> FixedFiles \cup {None}]

\* The process: who it is, and how far its write has come.
RunInv ==
  /\ pc \in Steps \cup {"down", "run"} /\ target \in {"latest", "report"}
  /\ {pending, due, closing} \subseteq BOOLEAN /\ temp \in {"none", "synced"}
  /\ config \in Configs \cup {None}
  /\ pc # "down" => config \in Configs /\ cadence = config.policy
  /\ pc = "run" => ~closing
  /\ pc \in Steps =>
       /\ report \in Reports /\ Recorded(report) /\ report.config = config
       /\ report.session = session /\ report.sequence = sequence /\ report.created = writes
  /\ pc \in {"create", "sync"} => target = "latest"
  /\ pc = "create" => \A n \in DOMAIN disk : disk[n].report.created < writes
  /\ pc = "sync" => /\ Numbered \in DOMAIN disk
                    /\ disk[Numbered].report = report /\ disk[Numbered].contents = "torn"
  /\ pc \in {"temp", "rename", "dirsync"} /\ target = "latest" =>
       /\ Numbered \in DOMAIN disk
       /\ disk[Numbered].report = report /\ disk[Numbered].contents = "synced"
  /\ pc = "rename" => temp = "synced"

\* What was completed is on disk for good.
CompletedInv ==
  \A r \in completed :
    /\ NameOf(r) \in DOMAIN disk
    /\ disk[NameOf(r)].report = r
    /\ disk[NameOf(r)].contents = "synced" /\ disk[NameOf(r)].entry

\* A run that has not lost a block in processBlock has the exact clock.
ClockInv ==
  pc # "down" /\ ~closing =>
    /\ sampleTime = DutySampleClock(blocks).time
    /\ sampleRemainder = DutySampleClock(blocks).remainder

\* A file the process cannot resume.
Foreign(n) == ~Readable(n) \/ ~Accepts(config, disk[n].report)

\* The numbers a run has yet to reach are free or taken by such files; those
\* it was refused were taken by them.
AheadInv ==
  pc # "down" =>
    \A n \in DOMAIN disk :
      n[1] = session /\ (n[2] > sequence \/ (n[2] = sequence /\ pc = "create")) => Foreign(n)

Passed ==
  {n \in DOMAIN disk :
     /\ n[1] = session /\ Foreign(n)
     /\ n[2] < sequence \/ (n[2] = sequence /\ pc \notin {"create", "sync"})}

RefusedInv == pc # "down" => refused <= Cardinality(Passed)

CheckpointInv ==
  /\ CountInv /\ DiskInv /\ NamedInv /\ RunInv /\ CompletedInv /\ ClockInv
  /\ NewestResumed /\ AheadInv /\ RefusedInv

-----------------------------------------------------------------------------
(* Numbers.                                                                *)

(* A set of natural numbers has a least and, if it is bounded, a greatest. *)
LEMMA LeastNat ==
  ASSUME NEW T \in SUBSET Nat, T # {}
  PROVE  \E x \in T : \A y \in T : x <= y
<1>1. PICK x \in T : \A y \in T : ~(<<y, x>> \in OpToRel(<, Nat))
  BY NatLessThanWellFounded, WFMin
<1>2. \A y \in T : ~(y < x)
  BY <1>1 DEF OpToRel
<1> QED BY <1>2

LEMMA GreatestNat ==
  ASSUME NEW T \in SUBSET Nat, T # {}, NEW b \in Nat, \A t \in T : t <= b
  PROVE  \E x \in T : \A y \in T : y <= x
<1> DEFINE U == {n \in Nat : b - n \in T}
<1>1. PICK t \in T : TRUE
  OBVIOUS
<1>2. b - t \in U
  BY <1>1
<1> HIDE DEF U
<1>3. PICK u \in U : \A v \in U : u <= v
  BY <1>2, LeastNat DEF U
<1>4. ASSUME NEW y \in T PROVE y <= b - u
  <2>1. y \in Nat /\ u \in Nat
    BY <1>3 DEF U
  <2>2. b - y \in U
    BY <2>1 DEF U
  <2>3. u <= b - y
    BY <1>3, <2>2
  <2> QED BY <2>1, <2>3
<1> QED BY <1>3, <1>4 DEF U

(* What dividing by the sample rate means.                                 *)
LEMMA Quotient ==
  ASSUME NEW a \in Nat
  PROVE  /\ a \div Rate \in Nat /\ a % Rate \in 0 .. (Rate - 1)
         /\ a = Rate * (a \div Rate) + (a % Rate)
  BY CheckpointAssumption

LEMMA QuotientUnique ==
  ASSUME NEW a \in Nat, NEW q \in Nat, NEW r \in 0 .. (Rate - 1), a = Rate * q + r
  PROVE  a \div Rate = q /\ a % Rate = r
  BY CheckpointAssumption

LEMMA Carry ==
  ASSUME NEW a \in Nat, NEW b \in Nat, NEW q \in Nat, a = Rate * q + b
  PROVE  a \div Rate = q + b \div Rate /\ a % Rate = b % Rate
<1> DEFINE u == b \div Rate
           r == b % Rate
<1>1. u \in Nat /\ r \in 0 .. (Rate - 1) /\ b = Rate * u + r
  BY Quotient
<1> HIDE DEF u, r
<1>2. Rate * (q + u) = Rate * q + Rate * u /\ Rate * q \in Nat /\ Rate * u \in Nat
  BY <1>1, CheckpointAssumption
<1>3. a = Rate * (q + u) + r /\ q + u \in Nat
  BY <1>1, <1>2
<1>4. a \div Rate = q + u /\ a % Rate = r
  BY <1>1, <1>3, QuotientUnique
<1> QED BY <1>4 DEF u, r

(* Advancing the clock block by block computes what dutySampleClock        *)
(* computes from the number of blocks.                                     *)
LEMMA ClockStep ==
  ASSUME NEW n \in Nat
  PROVE  LET c == DutySampleClock(n)
             d == DutySampleClock(n + 1)
         IN  /\ c.time \in Nat /\ c.remainder \in 0 .. (Rate - 1)
             /\ d.time = c.time + (Numerator + c.remainder) \div Rate
             /\ d.remainder = (Numerator + c.remainder) % Rate
<1> DEFINE w == Numerator \div Rate
           m == Numerator % Rate
           left == n * m
           q == left \div Rate
           r == left % Rate
<1>0. Rate \in Nat \ {0} /\ Numerator \in Nat
  BY CheckpointAssumption
<1>1. w \in Nat /\ m \in 0 .. (Rate - 1) /\ m \in Nat /\ Numerator = Rate * w + m
  BY <1>0, Quotient
<1>2. left \in Nat
  BY <1>1
<1>3. q \in Nat /\ r \in 0 .. (Rate - 1) /\ r \in Nat /\ left = Rate * q + r
  BY <1>0, <1>2, Quotient
<1> DEFINE up == (m + r) \div Rate
           rest == (m + r) % Rate
<1> HIDE DEF w, m, left, q, r
<1>4. up \in Nat
  BY <1>1, <1>3, Quotient
<1>5. (Numerator + r) \div Rate = w + up /\ (Numerator + r) % Rate = rest
  <2>1. Numerator + r = Rate * w + (m + r) /\ Numerator + r \in Nat /\ m + r \in Nat
    BY <1>0, <1>1, <1>3
  <2> QED BY <1>1, <2>1, Carry
<1>6. (left + m) \div Rate = q + up /\ (left + m) % Rate = rest
  <2>1. left + m = Rate * q + (m + r) /\ left + m \in Nat /\ m + r \in Nat
    BY <1>0, <1>1, <1>2, <1>3
  <2> QED BY <1>3, <2>1, Carry
<1>7. (n + 1) * m = left + m /\ (n + 1) * w = n * w + w /\ n * w \in Nat
  BY <1>1 DEF left
<1>8. DutySampleClock(n) = [time |-> n * w + q, remainder |-> r]
  BY DEF DutySampleClock, w, m, left, q, r
<1>9. DutySampleClock(n + 1) = [time |-> n * w + w + (q + up), remainder |-> rest]
  <2>1. DutySampleClock(n + 1) = [time |-> (n + 1) * w + ((n + 1) * m) \div Rate,
                                  remainder |-> ((n + 1) * m) % Rate]
    BY DEF DutySampleClock, w, m
  <2> QED BY <2>1, <1>6, <1>7
<1> HIDE DEF up, rest
<1> QED BY <1>1, <1>3, <1>4, <1>5, <1>7, <1>8, <1>9

-----------------------------------------------------------------------------
(* The order of the sort has a first element: reports differ at least in   *)
(* the time they were created.                                             *)
LEMMA StrongestIs ==
  ASSUME NEW c, NEW cs \in SUBSET Reports, cs # {}, NEW b \in Nat,
         \A r \in cs : r.created <= b,
         \A q, r \in cs : q.created = r.created => q = r
  PROVE  /\ Strongest(c, cs) \in cs
         /\ \A q \in cs \ {Strongest(c, cs)} : Stronger(c, Strongest(c, cs), q)
<1> DEFINE gated == {r \in cs : r.config.mode = "gated"}
           A == IF c.mode = "gated" /\ gated # {} THEN gated ELSE cs
<1>0. \A r \in cs : /\ r.evidence \in Nat /\ r.evidence <= MaxEvidence
                    /\ r.blocks \in Nat /\ r.blocks <= MaxBlocks
                    /\ r.created \in Nat /\ r.config.mode \in {"shadow", "gated"}
  BY CheckpointAssumption DEF Reports
<1>1. A # {} /\ A \subseteq cs
  OBVIOUS
<1>2. /\ \A q \in A, r \in A : c.mode = "gated" => q.config.mode = r.config.mode
      /\ \A q \in A, r \in cs \ A : c.mode = "gated" /\ q.config.mode = "gated"
                                    /\ q.config.mode # r.config.mode
  BY <1>0
<1> HIDE DEF A, gated
<1>3. PICK e \in {r.evidence : r \in A} : \A f \in {r.evidence : r \in A} : f <= e
  <2> DEFINE T == {r.evidence : r \in A}
  <2>1. /\ T # {} /\ T \in SUBSET Nat
        /\ MaxEvidence \in Nat /\ \A v \in T : v <= MaxEvidence
    BY <1>0, <1>1, CheckpointAssumption
  <2> HIDE DEF T
  <2>2. \E v \in T : \A w \in T : w <= v
    BY <2>1, GreatestNat
  <2> QED BY <2>2 DEF T
<1> DEFINE B == {r \in A : r.evidence = e}
<1>4. B # {} /\ B \subseteq A
  BY <1>3
<1> HIDE DEF B
<1>5. PICK k \in {r.blocks : r \in B} : \A f \in {r.blocks : r \in B} : f <= k
  <2> DEFINE T == {r.blocks : r \in B}
  <2>1. /\ T # {} /\ T \in SUBSET Nat
        /\ MaxBlocks \in Nat /\ \A v \in T : v <= MaxBlocks
    BY <1>0, <1>1, <1>4, CheckpointAssumption
  <2> HIDE DEF T
  <2>2. \E v \in T : \A w \in T : w <= v
    BY <2>1, GreatestNat
  <2> QED BY <2>2 DEF T
<1> DEFINE D == {r \in B : r.blocks = k}
<1>6. D # {} /\ D \subseteq B
  BY <1>5
<1> HIDE DEF D
<1>7. PICK t \in {r.created : r \in D} : \A f \in {r.created : r \in D} : f <= t
  <2> DEFINE T == {r.created : r \in D}
  <2>1. /\ T # {} /\ T \in SUBSET Nat
        /\ b \in Nat /\ \A v \in T : v <= b
    BY <1>0, <1>1, <1>4, <1>6, CheckpointAssumption
  <2> HIDE DEF T
  <2>2. \E v \in T : \A w \in T : w <= v
    BY <2>1, GreatestNat
  <2> QED BY <2>2 DEF T
<1>8. PICK x \in D : x.created = t
  BY <1>7
<1>9. ASSUME NEW q \in cs \ {x}
      PROVE  Stronger(c, x, q)
  <2>0. x \in A /\ x \in B /\ x \in cs
    BY <1>1, <1>4, <1>6, <1>8
  <2>1. CASE q \notin A
    BY <1>2, <2>0, <2>1 DEF Stronger
  <2>2. CASE q \in A
    <3>1. x.evidence = e /\ x.blocks = k
      BY <1>6, <1>8, <2>0 DEF B, D
    <3>2. q.evidence <= e /\ (q.evidence = e => q.blocks <= k)
      BY <1>3, <1>5, <2>2 DEF B
    <3>3. q.evidence = e /\ q.blocks = k => q.created <= t
      BY <1>7, <2>2 DEF B, D
    <3>4. q.created # t
      BY <1>8, <2>0
    <3>5. \/ x.evidence > q.evidence
          \/ x.evidence = q.evidence /\ x.blocks > q.blocks
          \/ x.evidence = q.evidence /\ x.blocks = q.blocks /\ x.created > q.created
      BY <1>0, <1>8, <2>0, <3>1, <3>2, <3>3, <3>4
    <3>6. ~(c.mode = "gated" /\ x.config.mode # q.config.mode)
      BY <1>2, <2>0, <2>2
    <3> QED BY <3>5, <3>6 DEF Stronger
  <2> QED BY <2>1, <2>2
<1>10. x \in cs
  BY <1>1, <1>4, <1>6, <1>8
<1> HIDE DEF Stronger
<1> QED BY <1>9, <1>10 DEF Strongest

-----------------------------------------------------------------------------
(* Resuming.                                                               *)

(* Histories are kept only under the policy they were learned under.       *)
LEMMA Relearned ==
  ASSUME NEW c, NEW r, r.cadence = r.config.policy
  PROVE  (IF Restoration(c, r).full THEN r.cadence ELSE c.policy) = c.policy
<1> DEFINE res == Restoration(c, r)
           same(f) == r.config[f] = c[f]
<1>1. CASE r.config = c
  BY <1>1
<1>2. CASE r.config # c
  <2>1. CASE ~same("mode")
    <3>1. res = [status |-> "shadow_to_gated", full |-> same("target") /\ same("policy")]
      BY <1>2, <2>1 DEF Restoration
    <3>2. CASE same("policy")
      BY <3>2
    <3>3. CASE ~same("policy")
      <4> DEFINE both == same("target") /\ same("policy")
      <4>1. res = [status |-> "shadow_to_gated", full |-> both] /\ ~both
        BY <3>1, <3>3
      <4> HIDE DEF both, res
      <4>2. res.full = both
        BY <4>1
      <4>3. ~res.full
        BY <4>1, <4>2, Zenon
      <4> QED BY <4>3 DEF res
    <3> QED BY <3>2, <3>3
  <2>2. CASE same("mode") /\ ~same("target")
    <3>1. res = IF same("policy") THEN [status |-> "capture_target", full |-> TRUE]
                ELSE [status |-> "policy_migration", full |-> FALSE]
      BY <1>2, <2>2 DEF Restoration
    <3> QED BY <3>1
  <2>3. CASE same("mode") /\ same("target")
    <3>1. res = [status |-> "policy_migration", full |-> FALSE]
      BY <1>2, <2>3 DEF Restoration
    <3> QED BY <3>1
  <2> QED BY <2>1, <2>2, <2>3
<1> QED BY <1>1, <1>2

(* The candidates of a start are the whole, acceptable files, by name.     *)
LEMMA CandidateIs ==
  ASSUME DiskInv, NEW c, NEW r
  PROVE  r \in Candidates(c) <=>
           /\ NameOf(r) \in DOMAIN disk /\ disk[NameOf(r)].report = r
           /\ Readable(NameOf(r)) /\ Accepts(c, r)
  BY DEF DiskInv, Candidates

(* What a start resumes.                                                   *)
LEMMA ChosenIs ==
  ASSUME DiskInv, CountInv, NEW c, NewestOfSessions(Candidates(c)) # {}
  PROVE  LET chosen == Strongest(c, NewestOfSessions(Candidates(c)))
         IN  /\ chosen \in Reports /\ chosen \in Candidates(c)
             /\ Recorded(chosen) /\ Accepts(c, chosen)
             /\ NameOf(chosen) \in DOMAIN disk /\ disk[NameOf(chosen)].report = chosen
             /\ \A q \in Candidates(c) : q.session = chosen.session => q.sequence <= chosen.sequence
             /\ \A q \in NewestOfSessions(Candidates(c)) \ {chosen} : Stronger(c, chosen, q)
<1> DEFINE cs == NewestOfSessions(Candidates(c))
<1>1. cs \subseteq Candidates(c)
  BY DEF NewestOfSessions
<1>2. \A r \in Candidates(c) : r \in Reports /\ Recorded(r)
  BY CandidateIs DEF DiskInv, NumberedFiles
<1>3. \A q, r \in Candidates(c) : q.created = r.created => q = r
  BY CandidateIs DEF DiskInv
<1>4. /\ cs \in SUBSET Reports /\ cs # {}
      /\ writes \in Nat /\ \A r \in cs : r.created <= writes
      /\ \A q, r \in cs : q.created = r.created => q = r
  BY <1>1, <1>2, <1>3 DEF Recorded, CountInv
<1> HIDE DEF cs
<1>5. /\ Strongest(c, cs) \in cs
      /\ \A q \in cs \ {Strongest(c, cs)} : Stronger(c, Strongest(c, cs), q)
  BY <1>4, StrongestIs
<1>6. \A q \in Candidates(c) :
        q.session = Strongest(c, cs).session => q.sequence <= Strongest(c, cs).sequence
  BY <1>5 DEF cs, NewestOfSessions
<1> QED BY <1>1, <1>2, <1>5, <1>6, CandidateIs DEF cs

LEMMA ClockZero == DutySampleClock(0).time = 0 /\ DutySampleClock(0).remainder = 0
<1> DEFINE w == Numerator \div Rate
           m == Numerator % Rate
<1>1. w \in Nat /\ m \in Nat /\ Rate \in Nat \ {0}
  BY Quotient, CheckpointAssumption
<1> HIDE DEF w, m
<1>2. 0 * w = 0 /\ 0 * m = 0 /\ 0 \div Rate = 0 /\ 0 % Rate = 0
  BY <1>1
<1>3. DutySampleClock(0) = [time |-> 0 * w + (0 * m) \div Rate, remainder |-> (0 * m) % Rate]
  BY DEF DutySampleClock, w, m
<1> QED BY <1>2, <1>3

-----------------------------------------------------------------------------
(* Every step keeps the invariant.                                         *)

LEMMA InitInv == Init => CheckpointInv
<1> SUFFICES ASSUME Init PROVE CheckpointInv
  OBVIOUS
<1> USE CheckpointAssumption DEF Init
<1>1. DOMAIN disk = {}
  OBVIOUS
<1>2. CountInv
  BY DEF CountInv
<1>3. DiskInv
  BY <1>1, FS_EmptySet DEF DiskInv
<1>4. NamedInv /\ CompletedInv
  BY DEF NamedInv, CompletedInv
<1>5. RunInv
  BY DEF RunInv, Steps
<1>6. ClockInv /\ NewestResumed /\ AheadInv /\ RefusedInv
  BY DEF ClockInv, NewestResumed, AheadInv, RefusedInv
<1> QED BY <1>2, <1>3, <1>4, <1>5, <1>6 DEF CheckpointInv

(* Only finitely many files were passed over.                              *)
LEMMA PassedFinite ==
  ASSUME DiskInv'
  PROVE  IsFiniteSet(Passed') /\ Cardinality(Passed') \in Nat
<1>1. Passed' \subseteq DOMAIN disk' /\ IsFiniteSet(DOMAIN disk')
  BY DEF Passed, DiskInv
<1> QED BY <1>1, FS_Subset, FS_CardinalityType

LEMMA StartInv ==
  ASSUME CheckpointInv, NEW c \in Configs, Start(c)
  PROVE  CheckpointInv'
<1> DEFINE heads == NewestOfSessions(Candidates(c))
           chosen == Strongest(c, heads)
           Resumed == /\ CountInv' /\ ClockInv' /\ cadence' = c.policy /\ pending' \in BOOLEAN
                      /\ NewestResumed' /\ AheadInv'
<1> USE DEF CheckpointInv
<1>0. /\ pc' = "run" /\ config' = c /\ starts' = starts + 1 /\ starts < MaxStarts
      /\ due' = TRUE /\ closing' = FALSE /\ refused' = 0
      /\ disk' = disk /\ named' = named /\ onDisk' = onDisk /\ target' = target /\ temp' = temp
      /\ report' = report /\ completed' = completed /\ writes' = writes
  BY DEF Start, files
<1>1. ASSUME heads = {} PROVE Resumed
  <2>1. /\ session' = starts + 1 /\ sequence' = 0 /\ pending' = FALSE
        /\ blocks' = 0 /\ sampleTime' = 0 /\ sampleRemainder' = 0 /\ evidence' = 0
        /\ cadence' = c.policy
    BY <1>1 DEF Start
  <2>2. CountInv' /\ ClockInv'
    BY <1>0, <2>1, ClockZero, CheckpointAssumption DEF CountInv, ClockInv
  <2>3. cadence' = c.policy /\ pending' \in BOOLEAN
    BY <2>1
  <2>4. \A n \in DOMAIN disk : n[1] # session'
    BY <2>1 DEF DiskInv, Recorded, NameOf, NumberedFiles, Reports, CountInv
  <2>5. NewestResumed' /\ AheadInv'
    BY <1>0, <2>4 DEF NewestResumed, AheadInv, CompletedInv, NameOf
  <2> QED BY <2>2, <2>3, <2>5
<1>2. ASSUME heads # {} PROVE Resumed
  <2>1. /\ session' = chosen.session /\ sequence' = chosen.sequence /\ pending' = TRUE
        /\ blocks' = chosen.blocks /\ sampleTime' = chosen.time /\ evidence' = chosen.evidence
        /\ sampleRemainder' = DutySampleClock(chosen.blocks).remainder
        /\ cadence' = IF Restoration(c, chosen).full THEN chosen.cadence ELSE c.policy
    BY <1>2 DEF Start
  <2>2. /\ chosen \in Reports /\ Recorded(chosen) /\ Accepts(c, chosen)
        /\ \A q \in Candidates(c) : q.session = chosen.session => q.sequence <= chosen.sequence
    BY <1>2, ChosenIs
  <2> HIDE DEF chosen
  <2>3. cadence' = c.policy /\ pending' \in BOOLEAN
    BY <2>1, <2>2, Relearned DEF Recorded
  <2>4. chosen.blocks \in Nat /\ chosen.blocks <= MaxBlocks
    BY <2>2, CheckpointAssumption DEF Reports
  <2>5. DutySampleClock(chosen.blocks).remainder \in 0 .. (Rate - 1)
    BY <2>4, ClockStep
  <2>6. CountInv'
    BY <1>0, <2>1, <2>2, <2>4, <2>5, CheckpointAssumption DEF CountInv, Reports, Recorded
  <2>7. chosen.time = DutySampleClock(chosen.blocks).time
    BY <2>2 DEF Accepts
  <2>8. ClockInv'
    BY <2>1, <2>7 DEF ClockInv
  <2>9. NewestResumed'
    <3>1. \A r \in completed : Accepts(c, r) => r \in Candidates(c)
      BY CandidateIs DEF CompletedInv, Readable
    <3> QED BY <1>0, <2>1, <2>2, <3>1 DEF NewestResumed
  <2>10. AheadInv'
    <3> SUFFICES ASSUME NEW n \in DOMAIN disk, n[1] = chosen.session, n[2] > chosen.sequence,
                        Readable(n), Accepts(c, disk[n].report)
                 PROVE  FALSE
      BY <1>0, <2>1 DEF AheadInv, Foreign, Readable
    <3>1. n = NameOf(disk[n].report)
      BY DEF DiskInv
    <3>2. disk[n].report \in Candidates(c)
      BY <3>1, CandidateIs
    <3>3. disk[n].report.session = n[1] /\ disk[n].report.sequence = n[2] /\ disk[n].report \in Reports
      BY <3>1 DEF NameOf, DiskInv, NumberedFiles
    <3> QED BY <2>2, <3>2, <3>3 DEF Reports
  <2> QED BY <2>3, <2>6, <2>8, <2>9, <2>10
<1>3. Resumed
  BY <1>1, <1>2
<1>4. DiskInv'
  BY <1>0 DEF DiskInv, Recorded, CountInv, NumberedFiles, Reports
<1>5. NamedInv' /\ CompletedInv'
  BY <1>0 DEF NamedInv, CompletedInv
<1>6. RunInv'
  BY <1>0, <1>3 DEF RunInv, Steps
<1>7. RefusedInv'
  <2>1. Cardinality(Passed') \in Nat
    BY <1>4, PassedFinite
  <2> QED BY <1>0, <2>1 DEF RefusedInv
<1> QED BY <1>3, <1>4, <1>5, <1>6, <1>7

(* A step of the running process that touches no file: the clock, the      *)
(* counts and the evidence move.                                           *)
LEMMA RunningInv ==
  ASSUME CheckpointInv, pc = "run", pc' = "run",
         UNCHANGED <<files, config, session, cadence, sequence, refused, completed, starts, writes,
                     target, temp, closing, pending>>,
         due' \in BOOLEAN, CountInv', ClockInv'
  PROVE  CheckpointInv'
<1> USE DEF CheckpointInv
<1>0. /\ disk' = disk /\ named' = named /\ onDisk' = onDisk
      /\ starts' = starts /\ writes' = writes /\ completed' = completed
      /\ session' = session /\ sequence' = sequence /\ config' = config
  BY DEF files
<1>1. DiskInv'
  BY <1>0 DEF DiskInv, Recorded
<1>2. NamedInv' /\ CompletedInv'
  BY <1>0 DEF NamedInv, CompletedInv
<1>3. RunInv'
  BY <1>0 DEF RunInv, Steps
<1>4. NewestResumed' /\ AheadInv'
  BY <1>0 DEF NewestResumed, AheadInv, Foreign, Readable
<1>5. Passed' = Passed
  BY <1>0 DEF Passed, Foreign, Readable
<1>6. RefusedInv'
  BY <1>5 DEF RefusedInv
<1> QED BY <1>1, <1>2, <1>3, <1>4, <1>6

(* The names of the files are pairs of numbers.                            *)
LEMMA Names ==
  ASSUME DiskInv
  PROVE  \A n \in DOMAIN disk : n = <<n[1], n[2]>> /\ n[1] \in Nat /\ n[2] \in Nat
  BY DEF DiskInv, NumberedFiles, Reports, NameOf

(* A write begins with the next number, which every file that is in the    *)
(* way cannot be resumed from.                                             *)
LEMMA BeginInv ==
  ASSUME CheckpointInv, pc = "run", writes < MaxWrites, BeginWrite,
         UNCHANGED <<files, config, session, cadence, refused, completed, starts, temp, pending, due>>,
         blocks' \in 0 .. MaxBlocks, evidence' \in 0 .. MaxEvidence,
         sampleTime' \in Nat, sampleRemainder' \in 0 .. (Rate - 1),
         closing' \in BOOLEAN, ClockInv'
  PROVE  CheckpointInv'
<1> USE DEF CheckpointInv
<1>0. /\ disk' = disk /\ named' = named /\ onDisk' = onDisk
      /\ starts' = starts /\ writes' = writes + 1 /\ completed' = completed
      /\ session' = session /\ sequence' = sequence + 1 /\ config' = config /\ cadence' = cadence
      /\ pc' = "create" /\ target' = "latest" /\ refused' = refused /\ temp' = temp
      /\ pending' = pending /\ due' = due
  BY DEF files, BeginWrite
<1>1. report' = [config |-> config, session |-> session, sequence |-> sequence', blocks |-> blocks',
                 time |-> sampleTime', remainder |-> sampleRemainder', evidence |-> evidence',
                 cadence |-> cadence, created |-> writes']
  BY DEF BeginWrite, MakeReport
<1>2. CountInv'
  BY <1>0, CheckpointAssumption DEF CountInv
<1>3. DiskInv'
  BY <1>0 DEF DiskInv, Recorded, CountInv, NumberedFiles, Reports
<1>4. NamedInv' /\ CompletedInv'
  BY <1>0 DEF NamedInv, CompletedInv
<1>5. config \in Configs /\ cadence = config.policy
  BY DEF RunInv
<1>6. /\ report' \in Reports /\ Recorded(report)' /\ report'.config = config
      /\ report'.session = session /\ report'.sequence = sequence' /\ report'.created = writes'
  <2>1. /\ session \in Nat /\ sequence' \in Nat /\ writes' \in Nat /\ sampleRemainder' \in Nat
        /\ session <= starts' /\ sequence' <= writes'
    BY <1>0, CheckpointAssumption DEF CountInv
  <2>2. cadence \in {c.policy : c \in Configs}
    BY <1>5
  <2>3. report' \in Reports
    BY <1>1, <1>5, <2>1, <2>2 DEF Reports
  <2>4. Recorded(report)'
    BY <1>1, <1>5, <2>1 DEF Recorded
  <2> QED BY <1>1, <2>3, <2>4
<1>7. RunInv'
  <2>1. \A n \in DOMAIN disk' : disk'[n].report.created < writes'
    BY <1>0 DEF DiskInv, Recorded, CountInv, NumberedFiles, Reports
  <2> QED BY <1>0, <1>5, <1>6, <2>1 DEF RunInv, Steps
<1>8. NewestResumed'
  <2>1. \A r \in completed : r.sequence \in Nat
    BY DEF CompletedInv, DiskInv, NumberedFiles, Reports
  <2> QED BY <1>0, <2>1 DEF NewestResumed, CountInv
<1>9. AheadInv'
  BY <1>0, Names DEF AheadInv, Foreign, Readable, CountInv
<1>10. Passed' = Passed
  <2>1. \A n \in DOMAIN disk : n[2] < sequence + 1 <=> n[2] < sequence \/ n[2] = sequence
    BY Names DEF CountInv
  <2> QED BY <1>0, <2>1 DEF Passed, Foreign, Readable
<1>11. RefusedInv'
  BY <1>0, <1>10 DEF RefusedInv
<1> QED BY <1>2, <1>3, <1>4, <1>7, <1>8, <1>9, <1>11

(* beginBlock keeps the clock exact.                                       *)
LEMMA AdvanceIs ==
  ASSUME CheckpointInv, pc = "run", AdvanceClock
  PROVE  /\ sampleTime' \in Nat /\ sampleRemainder' \in 0 .. (Rate - 1)
         /\ sampleTime' = DutySampleClock(blocks + 1).time
         /\ sampleRemainder' = DutySampleClock(blocks + 1).remainder
<1>1. blocks \in Nat /\ blocks + 1 \in Nat /\ ~closing
  BY CheckpointAssumption DEF CheckpointInv, CountInv, RunInv
<1>2. sampleTime = DutySampleClock(blocks).time /\ sampleRemainder = DutySampleClock(blocks).remainder
  BY <1>1 DEF CheckpointInv, ClockInv
<1>3. /\ sampleTime' = DutySampleClock(blocks + 1).time
      /\ sampleRemainder' = DutySampleClock(blocks + 1).remainder
  BY <1>1, <1>2, ClockStep DEF AdvanceClock
<1>4. DutySampleClock(blocks + 1).time \in Nat /\ DutySampleClock(blocks + 1).remainder \in 0 .. (Rate - 1)
  BY <1>1, ClockStep
<1> QED BY <1>3, <1>4

LEMMA ObserveIs ==
  ASSUME CheckpointInv, Observe
  PROVE  evidence' \in 0 .. MaxEvidence
  BY CheckpointAssumption DEF CheckpointInv, CountInv, Observe

LEMMA ProcessInv ==
  ASSUME CheckpointInv, ProcessBlock \/ CheckpointDue \/ Close \/ EncodeFails
  PROVE  CheckpointInv'
<1>0. CountInv /\ RunInv /\ ClockInv
  BY DEF CheckpointInv
<1>1. CASE ProcessBlock
  <2>0. pc = "run" /\ blocks < MaxBlocks /\ blocks' = blocks + 1 /\ AdvanceClock /\ Observe
    BY <1>1 DEF ProcessBlock
  <2>1. /\ blocks' \in 0 .. MaxBlocks /\ evidence' \in 0 .. MaxEvidence
        /\ sampleTime' \in Nat /\ sampleRemainder' \in 0 .. (Rate - 1)
    BY <1>0, <2>0, AdvanceIs, ObserveIs, CheckpointAssumption DEF CountInv
  <2>2. ClockInv'
    BY <2>0, AdvanceIs DEF ClockInv
  <2>3. UNCHANGED <<files, config, session, cadence, refused, completed, starts, temp, pending, due>>
        /\ closing' = closing
    BY <1>1 DEF ProcessBlock
  <2>4. closing' \in BOOLEAN /\ due' \in BOOLEAN
    BY <1>0, <2>3 DEF RunInv
  <2>5. CASE due
    <3>1. writes < MaxWrites /\ BeginWrite
      BY <1>1, <2>5 DEF ProcessBlock
    <3> QED BY <2>0, <2>1, <2>2, <2>3, <2>4, <3>1, BeginInv
  <2>6. CASE ~due
    <3>1. UNCHANGED <<writes, sequence, report, pc, target>>
      BY <1>1, <2>6 DEF ProcessBlock
    <3>2. CountInv'
      BY <1>0, <2>1, <2>3, <3>1 DEF CountInv
    <3> QED BY <2>0, <2>2, <2>3, <2>4, <3>1, <3>2, RunningInv
  <2> QED BY <2>5, <2>6
<1>2. CASE CheckpointDue
  <2>1. pc = "run" /\ pc' = "run" /\ due' \in BOOLEAN
    BY <1>2 DEF CheckpointDue
  <2>2. UNCHANGED <<files, runtime, sequence, refused, completed, bounds, target, temp, closing, pending>>
    BY <1>2 DEF CheckpointDue
  <2>3. UNCHANGED <<blocks, sampleTime, sampleRemainder, evidence, files, config, session, cadence,
                    sequence, refused, completed, starts, writes, target, temp, closing, pending>>
    BY <2>2 DEF runtime, bounds
  <2>4. CountInv' /\ ClockInv'
    BY <1>0, <2>1, <2>3 DEF CountInv, ClockInv
  <2> QED BY <2>1, <2>3, <2>4, RunningInv
<1>3. CASE Close
  <2>1. /\ pc = "run" /\ writes < MaxWrites /\ BeginWrite /\ closing' = TRUE
        /\ UNCHANGED <<blocks, sampleTime, sampleRemainder, evidence>>
        /\ UNCHANGED <<files, config, session, cadence, refused, completed, starts, temp, pending, due>>
    BY <1>3 DEF Close
  <2>2. /\ blocks' \in 0 .. MaxBlocks /\ evidence' \in 0 .. MaxEvidence
        /\ sampleTime' \in Nat /\ sampleRemainder' \in 0 .. (Rate - 1)
        /\ closing' \in BOOLEAN /\ ClockInv'
    BY <1>0, <2>1 DEF CountInv, ClockInv
  <2> QED BY <2>1, <2>2, BeginInv
<1>4. CASE EncodeFails
  <2>1. /\ pc = "run" /\ writes < MaxWrites /\ BeginWrite /\ closing' = TRUE
        /\ AdvanceClock /\ Observe /\ blocks' = blocks
        /\ UNCHANGED <<files, config, session, cadence, refused, completed, starts, temp, pending, due>>
    BY <1>4 DEF EncodeFails
  <2>2. /\ blocks' \in 0 .. MaxBlocks /\ evidence' \in 0 .. MaxEvidence
        /\ sampleTime' \in Nat /\ sampleRemainder' \in 0 .. (Rate - 1)
        /\ closing' \in BOOLEAN /\ ClockInv'
    BY <1>0, <2>1, AdvanceIs, ObserveIs DEF CountInv, ClockInv
  <2> QED BY <2>1, <2>2, BeginInv
<1> QED BY <1>1, <1>2, <1>3, <1>4

(* What a write leaves when it ends, well or badly, given what it leaves   *)
(* on disk.                                                                *)
LEMMA AfterInv ==
  ASSUME CheckpointInv, pc \in Steps, NEW ok \in BOOLEAN, AfterWrite(ok),
         UNCHANGED <<runtime, sequence, closing, starts, writes>>, refused' \in Nat,
         DiskInv', NamedInv', CompletedInv', NewestResumed', AheadInv', RefusedInv'
  PROVE  CheckpointInv'
<1> USE DEF CheckpointInv
<1>0. /\ config' = config /\ session' = session /\ sequence' = sequence /\ cadence' = cadence
      /\ blocks' = blocks /\ sampleTime' = sampleTime /\ sampleRemainder' = sampleRemainder
      /\ evidence' = evidence /\ closing' = closing /\ starts' = starts /\ writes' = writes
  BY DEF runtime
<1>1. CountInv'
  BY <1>0 DEF CountInv
<1>2. ClockInv'
  BY <1>0 DEF ClockInv, Steps
<1>3. RunInv'
  <2>0. /\ pc # "down" /\ {pending, due, closing} \subseteq BOOLEAN /\ target \in {"latest", "report"}
        /\ config \in Configs /\ cadence = config.policy
        /\ report \in Reports /\ Recorded(report) /\ report.config = config
        /\ report.session = session /\ report.sequence = sequence /\ report.created = writes
    BY DEF RunInv, Steps
  <2>1. CASE ~closing
    <3>1. temp' = "none" /\ pc' = "run" /\ due' = FALSE /\ target' = target /\ report' = report
          /\ pending' = (pending /\ ~ok)
      BY <2>1 DEF AfterWrite
    <3>2. {pending', due', closing'} \subseteq BOOLEAN
      BY <1>0, <2>0, <3>1
    <3> QED BY <1>0, <2>0, <2>1, <3>1, <3>2 DEF RunInv, Steps
  <2>2. CASE closing /\ target = "latest"
    <3>1. temp' = "none" /\ pc' = "temp" /\ target' = "report" /\ report' = report
          /\ due' = due /\ pending' = pending
      BY <2>2 DEF AfterWrite
    <3>2. {pending', due', closing'} \subseteq BOOLEAN
      BY <1>0, <2>0, <3>1
    <3>3. Recorded(report)'
      BY <1>0, <2>0, <3>1 DEF Recorded
    <3> QED BY <1>0, <2>0, <3>1, <3>2, <3>3 DEF RunInv, Steps
  <2>3. CASE closing /\ target # "latest"
    <3>1. temp' = "none" /\ pc' = "down" /\ target' = target /\ report' = report
          /\ due' = due /\ pending' = pending
      BY <2>3 DEF AfterWrite
    <3>2. {pending', due', closing'} \subseteq BOOLEAN
      BY <1>0, <2>0, <3>1
    <3> QED BY <1>0, <2>0, <3>1, <3>2 DEF RunInv, Steps
  <2> QED BY <2>0, <2>1, <2>2, <2>3
<1> QED BY <1>1, <1>2, <1>3

(* Where the process stands after a write.                                 *)
LEMMA AfterPc ==
  ASSUME NEW ok \in BOOLEAN, AfterWrite(ok)
  PROVE  pc' \in {"run", "temp", "down"}
  BY DEF AfterWrite

(* More files passed over are at least as many.                            *)
LEMMA PassedGrows ==
  ASSUME RefusedInv, pc # "down", DiskInv', refused \in Nat, refused' = refused, Passed \subseteq Passed'
  PROVE  RefusedInv'
<1>1. IsFiniteSet(Passed')
  BY PassedFinite
<1>2. Cardinality(Passed) <= Cardinality(Passed')
  BY <1>1, FS_Subset
<1>3. IsFiniteSet(Passed) /\ Cardinality(Passed) \in Nat /\ Cardinality(Passed') \in Nat
  BY <1>1, FS_Subset, FS_CardinalityType
<1> QED BY <1>2, <1>3 DEF RefusedInv

LEMMA CreateInv ==
  ASSUME CheckpointInv, CreateNumbered
  PROVE  CheckpointInv'
<1> USE DEF CheckpointInv
<1>0. /\ pc = "create" /\ UNCHANGED <<named, onDisk, runtime, sequence, closing, completed, bounds>>
      /\ config' = config /\ session' = session /\ sequence' = sequence /\ starts' = starts
      /\ writes' = writes /\ completed' = completed
  BY DEF CreateNumbered, runtime, bounds
<1>1. /\ report \in Reports /\ Recorded(report) /\ Numbered = <<session, sequence>>
      /\ report.session = session /\ report.sequence = sequence /\ report.created = writes
      /\ \A n \in DOMAIN disk : disk[n].report.created < writes
      /\ target = "latest"
  BY <1>0 DEF RunInv, Steps, Numbered
<1>2. NamedInv'
  BY <1>0 DEF NamedInv
<1>3. refused \in Nat
  BY DEF CountInv
<1>4. CASE Numbered \in DOMAIN disk
  <2>1. refused' = refused + 1 /\ AfterWrite(FALSE) /\ disk' = disk
    BY <1>4 DEF CreateNumbered
  <2>2. DiskInv' /\ CompletedInv' 
    BY <1>0, <2>1 DEF DiskInv, CompletedInv, Recorded
  <2>3. pc' \in {"run", "temp", "down"}
    BY <2>1, AfterPc
  <2>4. NewestResumed' /\ AheadInv'
    BY <1>0, <2>1, <2>3 DEF NewestResumed, AheadInv, Foreign, Readable
  <2>5. RefusedInv'
    <3>1. Foreign(Numbered)
      BY <1>0, <1>1, <1>4 DEF AheadInv
    <3>2. Numbered \notin Passed
      BY <1>0, <1>1 DEF Passed, CountInv
    <3>3. Passed' = Passed \cup {Numbered}
      <4>1. \A n \in DOMAIN disk : n[1] = session /\ n[2] = sequence => n = Numbered
        BY <1>1, Names
      <4>2. \A n \in DOMAIN disk : Foreign(n)' <=> Foreign(n)
        BY <1>0, <2>1 DEF Foreign, Readable
      <4> QED BY <1>0, <1>1, <1>4, <2>1, <2>3, <3>1, <4>1, <4>2 DEF Passed
    <3>4. IsFiniteSet(Passed) /\ Cardinality(Passed) \in Nat
      <4>1. Passed \subseteq DOMAIN disk /\ IsFiniteSet(DOMAIN disk)
        BY DEF Passed, DiskInv
      <4> QED BY <4>1, FS_Subset, FS_CardinalityType
    <3>5. Cardinality(Passed') = Cardinality(Passed) + 1
      BY <3>2, <3>3, <3>4, FS_AddElement
    <3> QED BY <1>0, <1>3, <2>1, <3>4, <3>5 DEF RefusedInv
  <2>6. UNCHANGED <<runtime, sequence, closing, starts, writes>> /\ refused' \in Nat /\ pc \in Steps
    BY <1>0, <1>3, <2>1 DEF Steps
  <2> QED BY <1>2, <2>1, <2>2, <2>4, <2>5, <2>6, AfterInv
<1>5. CASE Numbered \notin DOMAIN disk
  <2> DEFINE new == [report |-> report, contents |-> "torn", entry |-> FALSE]
  <2>1. /\ disk' = [n \in DOMAIN disk \cup {Numbered} |-> IF n = Numbered THEN new ELSE disk[n]]
        /\ pc' = "sync" /\ UNCHANGED <<target, temp, report, pending, due, refused>>
    BY <1>5 DEF CreateNumbered
  <2>2. /\ DOMAIN disk' = DOMAIN disk \cup {Numbered} /\ disk'[Numbered] = new
        /\ \A n \in DOMAIN disk : n # Numbered /\ disk'[n] = disk[n]
    BY <1>5, <2>1
  <2>3. new \in NumberedFiles /\ new.report = report
    BY <1>1 DEF NumberedFiles
  <2> HIDE DEF new
  <2>4. DiskInv'
    <3>1. IsFiniteSet(DOMAIN disk')
      BY <2>2, FS_AddElement DEF DiskInv
    <3>2. \A n \in DOMAIN disk' : /\ disk'[n] \in NumberedFiles /\ n = NameOf(disk'[n].report)
                                  /\ Recorded(disk[n].report)'
      BY <1>0, <1>1, <2>2, <2>3 DEF DiskInv, Recorded, Numbered, NameOf
    <3>3. \A m, n \in DOMAIN disk' : disk'[m].report.created = disk'[n].report.created => m = n
      <4>1. \A n \in DOMAIN disk : disk[n].report.created # writes
        BY <1>1 DEF DiskInv, NumberedFiles, Reports, CountInv
      <4> QED BY <1>1, <2>2, <2>3, <4>1 DEF DiskInv
    <3> QED BY <3>1, <3>2, <3>3 DEF DiskInv
  <2>5. CompletedInv'
    BY <1>0, <2>2 DEF CompletedInv
  <2>6. NewestResumed'
    BY <1>0, <2>1 DEF NewestResumed
  <2>7. \A n \in DOMAIN disk : Foreign(n)' <=> Foreign(n)
    BY <1>0, <2>2 DEF Foreign, Readable
  <2>8. AheadInv'
    <3>1. Numbered[2] = sequence /\ ~(sequence > sequence)
      BY <1>1 DEF CountInv
    <3> QED BY <1>0, <2>1, <2>2, <2>7, <3>1 DEF AheadInv
  <2>9. Passed' = Passed
    <3>1. Numbered[2] = sequence /\ ~(sequence < sequence)
      BY <1>1 DEF CountInv
    <3> QED BY <1>0, <2>1, <2>2, <2>7, <3>1 DEF Passed
  <2>10. RefusedInv'
    BY <1>0, <2>1, <2>9 DEF RefusedInv
  <2>11. CountInv' /\ ClockInv'
    BY <1>0, <2>1 DEF CountInv, ClockInv, runtime
  <2>12. RunInv'
    <3>1. Recorded(report)' /\ report' = report /\ Numbered' = Numbered
      BY <1>0, <1>1, <2>1 DEF Recorded, Numbered
    <3>2. disk'[Numbered].report = report /\ disk'[Numbered].contents = "torn"
      BY <2>2 DEF new
    <3>3. cadence' = cadence /\ closing' = closing /\ target' = target
      BY <1>0, <2>1 DEF runtime
    <3>4. {pending', due', closing'} \subseteq BOOLEAN /\ temp' \in {"none", "synced"}
      BY <1>0, <2>1 DEF RunInv
    <3> QED BY <1>0, <1>1, <2>1, <2>2, <3>1, <3>2, <3>3, <3>4 DEF RunInv, Steps
  <2> QED BY <1>2, <2>4, <2>5, <2>6, <2>8, <2>10, <2>11, <2>12
<1> QED BY <1>4, <1>5

(* A write to the numbered file that was just created.  Its contents were  *)
(* torn until then, so that it is no file anyone relies on.                *)
LEMMA NumberedWritten ==
  ASSUME CheckpointInv, pc = "sync", NEW s \in {"torn", "cached", "synced"},
         disk' = [disk EXCEPT ![Numbered].contents = s],
         UNCHANGED <<config, session, sequence, completed, starts, writes, refused>>,
         pc' \notin {"create", "sync"}
  PROVE  /\ DiskInv' /\ CompletedInv' /\ AheadInv' /\ RefusedInv'
         /\ DOMAIN disk' = DOMAIN disk
         /\ Numbered \in DOMAIN disk' /\ disk'[Numbered].report = report
         /\ disk'[Numbered].contents = s
<1> USE DEF CheckpointInv
<1>1. /\ Numbered \in DOMAIN disk /\ disk[Numbered].report = report /\ disk[Numbered].contents = "torn"
      /\ Numbered = <<session, sequence>>
  BY DEF RunInv, Steps, Numbered
<1>2. disk[Numbered] \in NumberedFiles
  BY <1>1 DEF DiskInv
<1>3. /\ DOMAIN disk' = DOMAIN disk
      /\ disk'[Numbered] \in NumberedFiles
      /\ disk'[Numbered].report = report /\ disk'[Numbered].contents = s
      /\ \A n \in DOMAIN disk : n # Numbered => disk'[n] = disk[n]
      /\ \A n \in DOMAIN disk : disk'[n].report = disk[n].report
  BY <1>1, <1>2 DEF NumberedFiles
<1>4. DiskInv'
  <2>1. \A n \in DOMAIN disk' : /\ disk'[n] \in NumberedFiles /\ n = NameOf(disk'[n].report)
                                /\ Recorded(disk[n].report)'
    BY <1>3 DEF DiskInv, Recorded
  <2> QED BY <1>3, <2>1 DEF DiskInv
<1>5. CompletedInv'
  <2>1. \A r \in completed : NameOf(r) # Numbered
    BY <1>1 DEF CompletedInv
  <2> QED BY <1>3, <2>1 DEF CompletedInv
<1>6. \A n \in DOMAIN disk : n # Numbered => (Foreign(n)' <=> Foreign(n))
  BY <1>3 DEF Foreign, Readable
<1>7. Numbered[2] = sequence /\ ~(sequence > sequence) /\ ~(sequence < sequence)
  BY <1>1 DEF CountInv
<1>8. AheadInv'
  BY <1>3, <1>6, <1>7 DEF AheadInv
<1>9. Passed \subseteq Passed'
  BY <1>3, <1>6, <1>7 DEF Passed
<1>10. RefusedInv'
  BY <1>4, <1>9, PassedGrows DEF CountInv
<1> QED BY <1>1, <1>3, <1>4, <1>5, <1>8, <1>10

LEMMA SyncedInv ==
  ASSUME CheckpointInv, WriteSynced
  PROVE  CheckpointInv'
<1> USE DEF CheckpointInv
<1>0. /\ pc = "sync" /\ pc' = "temp" /\ disk' = [disk EXCEPT ![Numbered].contents = "synced"]
      /\ UNCHANGED <<named, onDisk, target, temp, report, pending, due, closing, refused, completed,
                     config, session, sequence, starts, writes, blocks, sampleTime, sampleRemainder,
                     evidence, cadence>>
  BY DEF WriteSynced, runtime, bounds
<1>1. /\ DiskInv' /\ CompletedInv' /\ AheadInv' /\ RefusedInv'
      /\ Numbered \in DOMAIN disk' /\ disk'[Numbered].report = report
      /\ disk'[Numbered].contents = "synced"
  BY <1>0, NumberedWritten
<1>2. NamedInv' /\ CountInv' /\ ClockInv' /\ NewestResumed'
  BY <1>0 DEF NamedInv, CountInv, ClockInv, NewestResumed
<1>3. RunInv'
  <2>1. Recorded(report)' /\ report \in Reports
    BY <1>0 DEF RunInv, Recorded, Steps
  <2>2. Numbered' = Numbered
    BY <1>0 DEF Numbered
  <2>3. {pending', due', closing'} \subseteq BOOLEAN /\ temp' \in {"none", "synced"}
    BY <1>0 DEF RunInv
  <2> QED BY <1>0, <1>1, <2>1, <2>2, <2>3 DEF RunInv, Steps
<1> QED BY <1>1, <1>2, <1>3

(* The replacement of a file of a fixed name.                              *)
LEMMA ReplaceInv ==
  ASSUME CheckpointInv, WriteTemp \/ Rename
  PROVE  CheckpointInv'
<1> USE DEF CheckpointInv
<1>0. /\ pc \in {"temp", "rename"} /\ pc' \in {"rename", "dirsync"} /\ (pc' = "rename" => temp' = "synced")
      /\ temp' \in {"none", "synced"}
      /\ UNCHANGED <<disk, onDisk, target, report, pending, due, closing, refused, completed,
                     config, session, sequence, starts, writes, blocks, sampleTime, sampleRemainder,
                     evidence, cadence>>
  BY DEF WriteTemp, Rename, runtime, bounds, files
<1>1. NamedInv'
  <2>1. CASE WriteTemp
    BY <2>1 DEF WriteTemp, files, NamedInv
  <2>2. CASE Rename
    <3>1. /\ named' = [named EXCEPT ![target] = [report |-> report, contents |-> temp]]
          /\ onDisk' = onDisk /\ temp = "synced" /\ target \in {"latest", "report"} /\ report \in Reports
      BY <2>2 DEF Rename, RunInv, Steps
    <3>2. [report |-> report, contents |-> temp] \in FixedFiles
      BY <3>1 DEF FixedFiles
    <3> QED BY <3>1, <3>2 DEF NamedInv
  <2> QED BY <2>1, <2>2
<1>2. DiskInv' /\ CountInv' /\ CompletedInv'
  BY <1>0 DEF DiskInv, CountInv, CompletedInv, Recorded
<1>3. ClockInv' /\ NewestResumed' /\ AheadInv'
  BY <1>0 DEF ClockInv, NewestResumed, AheadInv, Foreign, Readable
<1>4. RunInv'
  <2>1. Recorded(report)' /\ report \in Reports /\ Numbered' = Numbered
    BY <1>0 DEF RunInv, Recorded, Steps, Numbered
  <2>2. {pending', due', closing'} \subseteq BOOLEAN
    BY <1>0 DEF RunInv
  <2> QED BY <1>0, <2>1, <2>2 DEF RunInv, Steps
<1>5. Passed' = Passed
  BY <1>0 DEF Passed, Foreign, Readable
<1>6. RefusedInv'
  BY <1>0, <1>5 DEF RefusedInv
<1> QED BY <1>1, <1>2, <1>3, <1>4, <1>6

LEMMA SyncDirectoryInv ==
  ASSUME CheckpointInv, SyncDirectory
  PROVE  CheckpointInv'
<1> USE DEF CheckpointInv
<1>0. /\ pc = "dirsync" /\ AfterWrite(TRUE)
      /\ disk' = [n \in DOMAIN disk |-> [disk[n] EXCEPT !.entry = TRUE]] /\ onDisk' = named
      /\ completed' = IF target = "latest" THEN completed \cup {report} ELSE completed
      /\ UNCHANGED <<named, runtime, sequence, closing, refused, bounds>>
      /\ config' = config /\ session' = session /\ sequence' = sequence /\ starts' = starts
      /\ writes' = writes /\ named' = named /\ refused' = refused
  BY DEF SyncDirectory, runtime, bounds
<1>1. /\ DOMAIN disk' = DOMAIN disk
      /\ \A n \in DOMAIN disk : /\ disk'[n] \in NumberedFiles /\ disk'[n].report = disk[n].report
                                /\ disk'[n].contents = disk[n].contents /\ disk'[n].entry = TRUE
  BY <1>0 DEF DiskInv, NumberedFiles
<1>2. DiskInv'
  <2>1. \A n \in DOMAIN disk' : /\ disk'[n] \in NumberedFiles /\ n = NameOf(disk'[n].report)
                                /\ Recorded(disk[n].report)'
    BY <1>0, <1>1 DEF DiskInv, Recorded
  <2> QED BY <1>1, <2>1 DEF DiskInv
<1>3. NamedInv'
  BY <1>0 DEF NamedInv
<1>4. target = "latest" => /\ NameOf(report) \in DOMAIN disk /\ disk[NameOf(report)].report = report
                           /\ disk[NameOf(report)].contents = "synced"
  BY <1>0 DEF RunInv, Numbered, NameOf
<1>5. CompletedInv'
  BY <1>0, <1>1, <1>4 DEF CompletedInv
<1>6. pc' \in {"run", "temp", "down"}
  BY <1>0, AfterPc
<1>7. NewestResumed'
  BY <1>0 DEF NewestResumed, RunInv, Steps, CountInv
<1>8. \A n \in DOMAIN disk : Foreign(n)' <=> Foreign(n)
  BY <1>0, <1>1 DEF Foreign, Readable
<1>9. AheadInv'
  BY <1>0, <1>1, <1>6, <1>8 DEF AheadInv
<1>10. Passed' = Passed
  BY <1>0, <1>1, <1>6, <1>8 DEF Passed
<1>11. RefusedInv'
  BY <1>0, <1>10 DEF RefusedInv
<1>12. UNCHANGED <<runtime, sequence, closing, starts, writes>> /\ refused' \in Nat /\ pc \in Steps
  BY <1>0 DEF Steps, CountInv
<1> QED BY <1>0, <1>2, <1>3, <1>5, <1>7, <1>9, <1>11, <1>12, AfterInv

LEMMA StepFailsInv ==
  ASSUME CheckpointInv, StepFails
  PROVE  CheckpointInv'
<1> USE DEF CheckpointInv
<1>0. /\ pc \in Steps /\ AfterWrite(FALSE)
      /\ UNCHANGED <<named, onDisk, runtime, sequence, closing, refused, completed, starts, writes>>
      /\ config' = config /\ session' = session /\ sequence' = sequence /\ refused' = refused
      /\ completed' = completed /\ starts' = starts /\ writes' = writes
  BY DEF StepFails, runtime
<1>1. pc' \in {"run", "temp", "down"}
  BY <1>0, AfterPc
<1>2. DiskInv' /\ CompletedInv' /\ AheadInv' /\ RefusedInv'
  <2>1. CASE pc = "sync"
    <3>1. PICK s \in {"torn", "cached"} : disk' = [disk EXCEPT ![Numbered].contents = s]
      BY <2>1 DEF StepFails
    <3>2. UNCHANGED <<config, session, sequence, completed, starts, writes, refused>>
      BY <1>0
    <3> QED BY <1>1, <2>1, <3>1, <3>2, NumberedWritten
  <2>2. CASE pc # "sync"
    <3>1. disk' = disk
      BY <2>2 DEF StepFails
    <3>2. DiskInv' /\ CompletedInv'
      BY <1>0, <3>1 DEF DiskInv, CompletedInv, Recorded
    <3>3. \A n \in DOMAIN disk : Foreign(n)' <=> Foreign(n)
      BY <1>0, <3>1 DEF Foreign, Readable
    <3>4. AheadInv'
      BY <1>0, <1>1, <3>1, <3>3 DEF AheadInv, Steps
    <3>5. Passed \subseteq Passed'
      BY <1>0, <1>1, <3>1, <3>3 DEF Passed
    <3>6. RefusedInv'
      BY <1>0, <3>2, <3>5, PassedGrows DEF CountInv, Steps
    <3> QED BY <3>2, <3>4, <3>6
  <2> QED BY <2>1, <2>2
<1>3. NamedInv' /\ NewestResumed'
  BY <1>0 DEF NamedInv, NewestResumed, Steps
<1>4. refused' \in Nat
  BY <1>0 DEF CountInv
<1> QED BY <1>0, <1>2, <1>3, <1>4, AfterInv

(* A crash of the process or of the machine.  What was synced stays whole, *)
(* and what was completed was synced with its entry.                       *)
LEMMA CrashInv ==
  ASSUME CheckpointInv, ProcessCrash \/ MachineCrash
  PROVE  CheckpointInv'
<1> USE DEF CheckpointInv
<1>0. /\ Down
      /\ UNCHANGED <<target, report, runtime, sequence, pending, due, refused, completed, starts, writes>>
      /\ config' = config /\ session' = session /\ sequence' = sequence /\ refused' = refused
      /\ completed' = completed /\ starts' = starts /\ writes' = writes
  BY DEF ProcessCrash, MachineCrash, runtime
<1>1. DiskInv' /\ CompletedInv' /\ NamedInv'
  <2>1. CASE ProcessCrash /\ pc = "sync"
    <3>1. PICK s \in {"torn", "cached"} : disk' = [disk EXCEPT ![Numbered].contents = s]
      BY <2>1 DEF ProcessCrash
    <3>2. UNCHANGED <<config, session, sequence, completed, starts, writes, refused>>
      BY <1>0
    <3>3. pc' \notin {"create", "sync"}
      BY <1>0 DEF Down
    <3>4. DiskInv' /\ CompletedInv'
      BY <2>1, <3>1, <3>2, <3>3, NumberedWritten
    <3>5. NamedInv'
      BY <2>1 DEF ProcessCrash, NamedInv
    <3> QED BY <3>4, <3>5
  <2>2. CASE ProcessCrash /\ pc # "sync"
    <3>1. disk' = disk /\ named' = named /\ onDisk' = onDisk
      BY <2>2 DEF ProcessCrash
    <3> QED BY <1>0, <3>1 DEF DiskInv, CompletedInv, NamedInv, Recorded
  <2>3. CASE MachineCrash
    <3>1. PICK kept \in {s \in SUBSET DOMAIN disk : \A n \in DOMAIN disk : disk[n].entry => n \in s},
               whole \in SUBSET DOMAIN disk :
            disk' = [n \in kept |->
                       [disk[n] EXCEPT !.entry = TRUE,
                                       !.contents = IF @ = "synced" \/ n \in whole THEN "synced" ELSE "torn"]]
      BY <2>3 DEF MachineCrash
    <3>2. /\ DOMAIN disk' = kept /\ kept \subseteq DOMAIN disk
          /\ \A n \in DOMAIN disk : disk[n].entry => n \in kept
      BY <3>1
    <3>3. \A n \in kept : /\ disk'[n] \in NumberedFiles /\ disk'[n].report = disk[n].report
                          /\ disk'[n].entry = TRUE
                          /\ disk[n].contents = "synced" => disk'[n].contents = "synced"
      <4>1. ASSUME NEW n \in kept
            PROVE  \E s \in {"synced", "torn"} :
                     /\ disk'[n] = [disk[n] EXCEPT !.entry = TRUE, !.contents = s]
                     /\ disk[n].contents = "synced" => s = "synced"
        <5>1. CASE disk[n].contents = "synced" \/ n \in whole
          BY <3>1, <5>1
        <5>2. CASE ~(disk[n].contents = "synced" \/ n \in whole)
          BY <3>1, <5>2
        <5> QED BY <5>1, <5>2
      <4>2. \A n \in kept : disk[n] \in NumberedFiles
        BY <3>2 DEF DiskInv
      <4> QED BY <4>1, <4>2, ZenonT(60) DEF NumberedFiles
    <3>4. DiskInv'
      <4>1. IsFiniteSet(DOMAIN disk')
        BY <3>2, FS_Subset DEF DiskInv
      <4>2. \A n \in DOMAIN disk' : /\ disk'[n] \in NumberedFiles /\ n = NameOf(disk'[n].report)
                                    /\ Recorded(disk[n].report)'
        BY <1>0, <3>2, <3>3 DEF DiskInv, Recorded
      <4> QED BY <3>2, <3>3, <4>1, <4>2 DEF DiskInv
    <3>5. CompletedInv'
      BY <1>0, <3>2, <3>3 DEF CompletedInv
    <3>6. PICK lost \in SUBSET DOMAIN named :
            named' = [f \in DOMAIN named |->
                        CASE f \in lost -> onDisk[f]
                          [] f \notin lost /\ named[f] # None /\ named[f].contents # "synced" ->
                               [named[f] EXCEPT !.contents = "torn"]
                          [] OTHER -> named[f]]
      BY <2>3 DEF MachineCrash
    <3>7. \A f \in {"latest", "report"} : named[f] \in FixedFiles => named[f].contents = "synced"
      BY DEF FixedFiles
    <3>8. named' \in [{"latest", "report"} -> FixedFiles \cup {None}]
      <4>1. DOMAIN named = {"latest", "report"}
        BY DEF NamedInv
      <4>2. ASSUME NEW f \in {"latest", "report"} PROVE named'[f] \in FixedFiles \cup {None}
        <5>1. CASE f \in lost
          BY <3>6, <4>1, <5>1 DEF NamedInv
        <5>2. CASE f \notin lost
          <6>1. ~(named[f] # None /\ named[f].contents # "synced")
            BY <3>7 DEF NamedInv
          <6>2. named'[f] = named[f]
            BY <3>6, <4>1, <5>2, <6>1, SMTT(30)
          <6> QED BY <6>2 DEF NamedInv
        <5> QED BY <5>1, <5>2
      <4> QED BY <3>6, <4>1, <4>2
    <3>9. onDisk' = named'
      BY <2>3 DEF MachineCrash
    <3> QED BY <3>4, <3>5, <3>8, <3>9 DEF NamedInv
  <2> QED BY <2>1, <2>2, <2>3
<1>2. CountInv'
  BY <1>0 DEF CountInv, runtime
<1>3. RunInv'
  <2>1. pc' = "down" /\ temp' = "none" /\ closing' = FALSE /\ target' = target /\ pending' = pending
        /\ due' = due
    BY <1>0 DEF Down
  <2>2. {pending', due', closing'} \subseteq BOOLEAN
    BY <2>1 DEF RunInv
  <2> QED BY <1>0, <2>1, <2>2 DEF RunInv, Steps
<1>4. ClockInv' /\ NewestResumed' /\ AheadInv' /\ RefusedInv'
  BY <1>0 DEF Down, ClockInv, NewestResumed, AheadInv, RefusedInv
<1> QED BY <1>1, <1>2, <1>3, <1>4

(* The invariant of the checkpoints holds in every state, whatever crashes *)
(* between two steps of a write and whatever the next start is configured  *)
(* for (duty_runtime.go, duty_checkpoint.go).                              *)
THEOREM CheckpointInvariant == Spec => []CheckpointInv
<1>1. ASSUME CheckpointInv, [Next]_vars PROVE CheckpointInv'
  <2>1. CASE Next
    BY <1>1, <2>1, StartInv, ProcessInv, CreateInv, SyncedInv, ReplaceInv, SyncDirectoryInv,
       StepFailsInv, CrashInv DEF Next
  <2>2. CASE UNCHANGED vars
    <3>1. UNCHANGED <<disk, named, onDisk, pc, target, temp, report, config, session, blocks, sampleTime,
                      sampleRemainder, evidence, cadence, sequence, pending, due, closing, refused,
                      completed, starts, writes>>
      BY <2>2 DEF vars, files, runtime, bounds
    <3>2. CountInv' /\ DiskInv' /\ NamedInv'
      BY <1>1, <3>1 DEF CheckpointInv, CountInv, DiskInv, NamedInv, Recorded
    <3>3. RunInv'
      <4>1. Numbered' = Numbered /\ (Recorded(report)' <=> Recorded(report))
        BY <3>1 DEF Numbered, Recorded
      <4> QED BY <1>1, <3>1, <4>1 DEF CheckpointInv, RunInv
    <3>4. CompletedInv' /\ ClockInv' /\ NewestResumed' /\ AheadInv'
      BY <1>1, <3>1 DEF CheckpointInv, CompletedInv, ClockInv, NewestResumed, AheadInv, Foreign, Readable
    <3>5. Passed' = Passed
      BY <3>1 DEF Passed, Foreign, Readable
    <3>6. RefusedInv'
      BY <1>1, <3>1, <3>5 DEF CheckpointInv, RefusedInv
    <3> QED BY <3>2, <3>3, <3>4, <3>6 DEF CheckpointInv
  <2> QED BY <1>1, <2>1, <2>2
<1> QED BY InitInv, <1>1, PTL DEF Spec

-----------------------------------------------------------------------------
(* What the invariant implies.                                             *)

(* Over crashes between any two steps of a write and over restarts under   *)
(* other configurations: latest.json is whole, what writeCheckpoint        *)
(* completed survives, restoreBestCheckpoint never falls back further in   *)
(* the session than it must, histories are used under their policy only,   *)
(* the clock is the one the next start accepts, and a leftover file costs  *)
(* one refused write.                                                      *)
THEOREM CrashSafeThm == Spec => []CrashSafe
<1>1. ASSUME CheckpointInv PROVE CrashSafe
  <2> USE <1>1 DEF CheckpointInv
  <2>1. TypeOK
    <3>1. session \in 0 .. MaxStarts /\ sequence \in 0 .. MaxWrites
      BY CheckpointAssumption DEF CountInv
    <3>2. \A n \in DOMAIN disk : /\ n = <<disk[n].report.session, disk[n].report.sequence>>
                                 /\ disk[n].contents \in {"torn", "cached", "synced"}
      BY DEF DiskInv, NumberedFiles, NameOf
    <3>3. blocks \in 0 .. MaxBlocks /\ evidence \in 0 .. MaxEvidence /\ sampleRemainder \in 0 .. Rate - 1
      BY DEF CountInv
    <3>4. /\ pc \in Steps \cup {"down", "run"} /\ temp \in {"none", "cached", "synced"}
          /\ config \in Configs \cup {None} /\ {pending, due, closing} \subseteq BOOLEAN
      BY DEF RunInv
    <3> QED BY <3>1, <3>2, <3>3, <3>4 DEF TypeOK
  <2>2. LatestWhole
    BY DEF NamedInv, LatestWhole, FixedFiles
  <2>3. CompletedSurvives
    BY DEF CompletedInv, CompletedSurvives, NameOf, Readable
  <2>4. RelearnedUnderPolicy
    BY DEF RunInv, RelearnedUnderPolicy
  <2>5. ClockExact
    BY DEF ClockInv, RunInv, ClockExact
  <2>6. RefusalsBounded
    <3> DEFINE inTheWay == {n \in DOMAIN disk :
                              n[1] = session /\ (~Readable(n) \/ ~Accepts(config, disk[n].report))}
    <3>1. Passed \subseteq inTheWay /\ inTheWay \subseteq DOMAIN disk
      BY DEF Passed, Foreign
    <3> HIDE DEF inTheWay
    <3>2. IsFiniteSet(inTheWay)
      BY <3>1, FS_Subset DEF DiskInv
    <3>3. IsFiniteSet(Passed) /\ Cardinality(Passed) <= Cardinality(inTheWay)
      BY <3>1, <3>2, FS_Subset
    <3>4. Cardinality(Passed) \in Nat /\ Cardinality(inTheWay) \in Nat /\ refused \in Nat
      BY <3>2, <3>3, FS_CardinalityType DEF CountInv
    <3>5. pc # "down" => refused <= Cardinality(inTheWay)
      BY <3>3, <3>4 DEF RefusedInv
    <3> QED BY <3>5 DEF inTheWay, RefusalsBounded
  <2> QED BY <2>1, <2>2, <2>3, <2>4, <2>5, <2>6 DEF CrashSafe
<1> QED BY <1>1, CheckpointInvariant, PTL

(* A whole numbered file is never rewritten (writeExclusiveSynced): the    *)
(* only file a process writes to is the one it created, torn until then.   *)
THEOREM ImmutableThm == Spec => Immutable
<1> DEFINE Kept == \A n \in DOMAIN disk : Readable(n) /\ crashes' = crashes =>
                     n \in DOMAIN disk' /\ disk'[n].report = disk[n].report
                     /\ disk'[n].contents # "torn"
<1>1. ASSUME CheckpointInv, crashes \in Nat, [Next]_vars PROVE [Kept]_vars
  <2>0. DiskInv /\ RunInv /\ CountInv
    BY <1>1 DEF CheckpointInv
  <2>1. CASE disk' = disk
    BY <2>1 DEF Readable
  <2>2. CASE CreateNumbered /\ disk' # disk
    <3>1. /\ Numbered \notin DOMAIN disk
          /\ disk' = [n \in DOMAIN disk \cup {Numbered} |->
                        IF n = Numbered THEN [report |-> report, contents |-> "torn", entry |-> FALSE]
                        ELSE disk[n]]
      BY <2>2 DEF CreateNumbered
    <3> QED BY <3>1 DEF Readable
  <2>3. ASSUME pc = "sync", NEW s, disk' = [disk EXCEPT ![Numbered].contents = s] PROVE Kept
    <3>1. Numbered \in DOMAIN disk /\ disk[Numbered].contents = "torn"
      BY <2>0, <2>3 DEF RunInv
    <3>2. DOMAIN disk' = DOMAIN disk /\ \A n \in DOMAIN disk : n # Numbered => disk'[n] = disk[n]
      BY <2>3
    <3> QED BY <3>1, <3>2 DEF Readable
  <2>4. CASE WriteSynced
    BY <2>3, <2>4 DEF WriteSynced
  <2>5. CASE StepFails /\ pc = "sync"
    BY <2>3, <2>5 DEF StepFails
  <2>6. CASE SyncDirectory
    <3>1. \A n \in DOMAIN disk : /\ n \in DOMAIN disk' /\ disk'[n].report = disk[n].report
                                 /\ disk'[n].contents = disk[n].contents
      BY <2>0, <2>6 DEF SyncDirectory, DiskInv, NumberedFiles
    <3> QED BY <3>1 DEF Readable
  <2>7. CASE ProcessCrash \/ MachineCrash
    <3>1. crashes' = crashes + 1
      BY <2>7 DEF ProcessCrash, MachineCrash
    <3> QED BY <1>1, <3>1
  <2>8. ASSUME [Next]_vars, disk' # disk
        PROVE  \/ CreateNumbered \/ WriteSynced \/ SyncDirectory \/ ProcessCrash \/ MachineCrash
               \/ StepFails /\ pc = "sync"
    BY <2>8 DEF Next, vars, files, Start, ProcessBlock, CheckpointDue, Close, EncodeFails,
                WriteTemp, Rename, StepFails
  <2> HIDE DEF Kept
  <2> QED BY <1>1, <2>1, <2>2, <2>4, <2>5, <2>6, <2>7, <2>8
<1>2. Spec => [](crashes \in Nat)
  <2>1. Init => crashes \in Nat
    BY DEF Init
  <2>2. ASSUME crashes \in Nat, [Next]_vars PROVE (crashes \in Nat)'
    <3>1. crashes' \in {crashes, crashes + 1}
      BY <2>2 DEF Next, vars, bounds, Start, ProcessBlock, CheckpointDue, Close, EncodeFails, CreateNumbered,
         WriteSynced, WriteTemp, Rename, SyncDirectory, StepFails, ProcessCrash, MachineCrash
    <3> QED BY <2>2, <3>1
  <2> QED BY <2>1, <2>2, PTL DEF Spec
<1> QED BY <1>1, <1>2, CheckpointInvariant, PTL DEF Spec, Immutable

(* A gated start never resumes shadow evidence while a completed gated     *)
(* checkpoint it accepts is the newest of its session: it is among the     *)
(* heads that restoreBestCheckpoint sorts, and the sort puts it before     *)
(* every shadow checkpoint.                                                *)
THEOREM GatedFirstThm == Spec => GatedFirst
<1> DEFINE Gated(c) ==
      Start(c) /\ c.mode = "gated" /\ (\E r \in completed : /\ r.config.mode = "gated"
                                                            /\ Accepts(c, r) /\ NewestOfSession(c, r))
        => \E n \in DOMAIN disk : disk[n].report.config.mode = "gated" /\ n = <<session', sequence'>>
<1>1. ASSUME CheckpointInv, NEW c \in Configs PROVE Gated(c)
  <2> SUFFICES ASSUME Start(c), c.mode = "gated",
                      NEW r \in completed, r.config.mode = "gated", Accepts(c, r), NewestOfSession(c, r)
               PROVE  \E n \in DOMAIN disk :
                        disk[n].report.config.mode = "gated" /\ n = <<session', sequence'>>
    OBVIOUS
  <2> DEFINE heads == NewestOfSessions(Candidates(c))
             chosen == Strongest(c, heads)
  <2>0. DiskInv /\ CountInv /\ CompletedInv
    BY <1>1 DEF CheckpointInv
  <2>1. r \in Candidates(c)
    BY <2>0, CandidateIs DEF CompletedInv, Readable
  <2>2. \A q \in Candidates(c) : q.session = r.session => q.sequence <= r.sequence
    <3>1. ASSUME NEW q \in Candidates(c), q.session = r.session PROVE q.sequence <= r.sequence
      <4>1. NameOf(q) \in DOMAIN disk /\ disk[NameOf(q)].report = q /\ Readable(NameOf(q)) /\ Accepts(c, q)
        BY <2>0, <3>1, CandidateIs
      <4>2. NameOf(q)[1] = r.session /\ NameOf(q)[2] = q.sequence
        BY <3>1 DEF NameOf
      <4>3. ~(q.sequence > r.sequence)
        BY <4>1, <4>2 DEF NewestOfSession
      <4>4. q \in Reports /\ r \in Reports
        BY <2>0, <4>1 DEF DiskInv, CompletedInv, NumberedFiles
      <4> QED BY <4>3, <4>4 DEF Reports
    <3> QED BY <3>1
  <2>3. r \in heads
    BY <2>1, <2>2 DEF NewestOfSessions
  <2>4. /\ NameOf(chosen) \in DOMAIN disk /\ disk[NameOf(chosen)].report = chosen
        /\ \A q \in heads \ {chosen} : Stronger(c, chosen, q)
    BY <2>0, <2>3, ChosenIs
  <2>5. session' = chosen.session /\ sequence' = chosen.sequence
    BY <2>3 DEF Start
  <2> HIDE DEF heads, chosen
  <2>6. chosen.config.mode = "gated"
    BY <2>3, <2>4 DEF Stronger
  <2> QED BY <2>4, <2>5, <2>6 DEF NameOf
<1>2. CheckpointInv => \A c \in Configs : Gated(c)
  BY <1>1
<1> QED BY <1>2, CheckpointInvariant, PTL DEF Spec, GatedFirst
=============================================================================
