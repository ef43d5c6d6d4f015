-------------------------- MODULE DutyCollarProofs --------------------------
(***************************************************************************)
(* Proofs about DutyCollar for every collar length, warm-up, transmission  *)
(* and sequence of scheduler decisions.                                    *)
(***************************************************************************)
EXTENDS DutyCollar, FiniteSetTheorems, WellFoundedInduction, TLAPS

(* The collar holds no gap: an entry is in the ring, and the youngest      *)
(* Collar - 1 entries are not the one overwritten next.                    *)
LEMMA IndexInRing ==
  ASSUME TypeOK, NEW k \in 1 .. Collar
  PROVE  CollarIndex(k) \in 0 .. Collar - 1 /\ (k < Collar => CollarIndex(k) # collarNext)
  BY CollarAssumption DEF TypeOK, CollarIndex

(* When a sleep ends, either all of it is in the collar or the collar is   *)
(* full of it, so the samples a rebuild needs are there.                   *)
LEMMA RebuildHasRaw ==
  ASSUME TypeOK, CollarTail, wasSkipped
  PROVE  ShortReplay \/ ~MissingRaw
<1>1. CASE skippedRun <= collarCount
  <2>1. \A k \in 1 .. skippedRun :
          ~collar[CollarIndex(k)].decoded /\ collar[CollarIndex(k)].rawValid
    BY <1>1 DEF CollarTail, TypeOK
  <2> QED BY <1>1, <2>1 DEF ShortReplay, CollarTail
<1>2. CASE skippedRun > collarCount
  <2>1. \A k \in 1 .. collarCount :
          ~collar[CollarIndex(k)].decoded /\ collar[CollarIndex(k)].rawValid
    BY <1>2 DEF CollarTail, TypeOK
  <2> QED BY <2>1 DEF MissingRaw
<1> QED BY <1>1, <1>2 DEF TypeOK

LEMMA BlockStep ==
  ASSUME TypeOK, CollarInv, NEW decode \in BOOLEAN, ProcessBlock(decode)
  PROVE  n' = n + 1 /\ err' = FALSE /\ FinishBlock(n + 1, decode)
<1>1. ~(NeedsRebuild(decode) /\ ~ShortReplay /\ MissingRaw)
  BY RebuildHasRaw DEF CollarInv, NeedsRebuild
<1> QED BY <1>1 DEF ProcessBlock

LEMMA FinishTypes ==
  ASSUME TypeOK, NEW decode \in BOOLEAN, n' = n + 1, err' = FALSE,
         FinishBlock(n + 1, decode)
  PROVE  TypeOK'
<1>1. n + 1 \in Nat /\ collarNext \in 0 .. Collar - 1
  BY DEF TypeOK
<1>2. collar' \in [0 .. Collar - 1 -> CollarEntry]
  BY <1>1 DEF TypeOK, FinishBlock, Wrap, SkippedRun, CollarEntry
<1>3. collarCount' \in 0 .. Collar /\ collarNext' \in 0 .. Collar - 1 /\ skippedRun' \in Nat
  BY CollarAssumption DEF TypeOK, FinishBlock, Wrap, SkippedRun
<1>4. wasSkipped' \in BOOLEAN
  BY DEF FinishBlock, Wrap, SkippedRun
<1> QED BY <1>1, <1>2, <1>3, <1>4 DEF TypeOK

(* The new entry is the youngest; every other one is one block older.      *)
LEMMA FinishTail ==
  ASSUME TypeOK, TypeOK', CollarTail, NEW decode \in BOOLEAN, n' = n + 1,
         FinishBlock(n + 1, decode)
  PROVE  CollarTail'
<1>1. CASE decode
  <2>1. skippedRun' = 0 /\ ~wasSkipped'
    BY <1>1 DEF FinishBlock, Wrap, SkippedRun
  <2>2. /\ skippedRun' <= n' /\ (wasSkipped' <=> skippedRun' > 0)
        /\ skippedRun' > collarCount' => collarCount' = Collar
        /\ collarCount' < Collar => collarNext' = collarCount'
    BY <2>1, CollarAssumption DEF CollarTail, FinishBlock, Wrap, SkippedRun, TypeOK
  <2>3. \A k \in 1 .. collarCount' : ~(k <= skippedRun')
    BY <2>1 DEF TypeOK
  <2> QED BY <2>2, <2>3 DEF CollarTail
<1>2. CASE ~decode
  <2>1. skippedRun' = skippedRun + 1 /\ wasSkipped'
    BY <1>2 DEF FinishBlock, Wrap, SkippedRun
  <2>2. /\ skippedRun' <= n' /\ (wasSkipped' <=> skippedRun' > 0)
        /\ skippedRun' > collarCount' => collarCount' = Collar
        /\ collarCount' < Collar => collarNext' = collarCount'
    BY <2>1, CollarAssumption DEF CollarTail, FinishBlock, Wrap, SkippedRun, TypeOK
  <2>3. ASSUME NEW k \in 1 .. collarCount', k <= skippedRun'
        PROVE  /\ collar'[CollarIndex(k)'].id = n' - k + 1
               /\ ~collar'[CollarIndex(k)'].decoded /\ collar'[CollarIndex(k)'].rawValid
    <3>1. CASE k = 1
      <4>1. CollarIndex(k)' = collarNext
        BY <3>1, CollarAssumption DEF CollarIndex, FinishBlock, Wrap, SkippedRun, TypeOK
      <4>2. collar'[collarNext] = [id |-> n + 1, decoded |-> decode, rawValid |-> ~decode]
        BY DEF FinishBlock, Wrap, SkippedRun, TypeOK
      <4>3. n + 1 = n' - k + 1
        BY <3>1 DEF TypeOK
      <4>4. /\ collar'[collarNext].id = n + 1
            /\ collar'[collarNext].decoded = decode /\ collar'[collarNext].rawValid = ~decode
        BY <4>2
      <4> QED BY <1>2, <4>1, <4>3, <4>4
    <3>2. CASE k # 1
      <4>1. /\ k - 1 \in 1 .. collarCount /\ k - 1 \in 1 .. Collar
            /\ k - 1 <= skippedRun /\ k - 1 < Collar
        BY <2>1, <2>3, <3>2, CollarAssumption DEF FinishBlock, Wrap, SkippedRun, TypeOK
      <4>2. CollarIndex(k)' = CollarIndex(k - 1)
        BY <4>1, CollarAssumption DEF CollarIndex, FinishBlock, Wrap, SkippedRun, TypeOK
      <4>3. CollarIndex(k - 1) \in 0 .. Collar - 1 /\ CollarIndex(k - 1) # collarNext
        BY <4>1, IndexInRing
      <4>4. collar'[CollarIndex(k - 1)] = collar[CollarIndex(k - 1)]
        BY <4>3 DEF FinishBlock, Wrap, SkippedRun, TypeOK
      <4>5. /\ collar[CollarIndex(k - 1)].id = n - (k - 1) + 1
            /\ ~collar[CollarIndex(k - 1)].decoded /\ collar[CollarIndex(k - 1)].rawValid
        BY <4>1 DEF CollarTail
      <4>6. n - (k - 1) + 1 = n' - k + 1
        BY DEF TypeOK
      <4> QED BY <4>2, <4>4, <4>5, <4>6
    <3> QED BY <3>1, <3>2
  <2> QED BY <2>2, <2>3 DEF CollarTail
<1> QED BY <1>1, <1>2

THEOREM CollarInvariant == Spec => [](TypeOK /\ CollarInv)
<1>1. Init => TypeOK /\ CollarInv
  <2> SUFFICES ASSUME Init PROVE TypeOK /\ CollarInv
    OBVIOUS
  <2>1. collar \in [0 .. Collar - 1 -> CollarEntry]
    BY DEF Init, CollarEntry
  <2>2. TypeOK
    <3>1. n \in Nat /\ collarCount \in 0 .. Collar /\ collarNext \in 0 .. Collar - 1
          /\ skippedRun \in Nat
      BY CollarAssumption DEF Init
    <3>2. wasSkipped \in BOOLEAN /\ err \in BOOLEAN
      BY DEF Init
    <3> QED BY <2>1, <3>1, <3>2 DEF TypeOK
  <2>3. CollarInv
    BY <2>2, CollarAssumption DEF Init, CollarInv, CollarTail, NoMissingRaw
  <2> QED BY <2>2, <2>3
<1>2. TypeOK /\ CollarInv /\ [Next]_vars => (TypeOK /\ CollarInv)'
  <2> SUFFICES ASSUME TypeOK, CollarInv, [Next]_vars
               PROVE  TypeOK' /\ CollarInv'
    OBVIOUS
  <2>1. ASSUME NEW decode \in BOOLEAN, ProcessBlock(decode)
        PROVE  TypeOK' /\ CollarInv'
    <3>1. n' = n + 1 /\ err' = FALSE /\ FinishBlock(n + 1, decode)
      BY <2>1, BlockStep
    <3>2. TypeOK'
      BY <3>1, FinishTypes
    <3>3. CollarTail'
      BY <3>1, <3>2, FinishTail DEF CollarInv
    <3> QED BY <3>1, <3>2, <3>3 DEF CollarInv, NoMissingRaw
  <2>2. CASE UNCHANGED vars
    BY <2>2 DEF vars, collarVars, TypeOK, CollarInv, CollarTail, CollarIndex, NoMissingRaw
  <2> QED BY <2>1, <2>2 DEF Next
<1> QED BY <1>1, <1>2, PTL DEF Spec

(* The collar's indices stay in its ring, whatever its size and whichever  *)
(* blocks are skipped.                                                     *)
THEOREM CollarTypeOK == Spec => []TypeOK
  BY CollarInvariant, PTL

(* rebuildDutyDecoder never returns "full collar rebuild lacks retained    *)
(* raw IQ", although finishBlock keeps no samples of decoded blocks.       *)
THEOREM NoMissingRawThm == Spec => []NoMissingRaw
<1>1. TypeOK /\ CollarInv => NoMissingRaw
  BY DEF CollarInv
<1> QED BY <1>1, CollarInvariant, PTL

-----------------------------------------------------------------------------
(* Induction over the naturals, for the set S of the numbers that have the *)
(* property in question.                                                   *)
LEMMA SetInduction ==
  ASSUME NEW S, 0 \in S, \A k \in Nat : k \in S => k + 1 \in S
  PROVE  Nat \subseteq S
<1> SUFFICES ASSUME Nat \ S # {} PROVE FALSE
  OBVIOUS
<1>1. PICK x \in Nat \ S : \A y \in Nat \ S : ~(<<y, x>> \in OpToRel(<, Nat))
  BY NatLessThanWellFounded, WFMin
<1>2. \A y \in Nat \ S : ~(y < x)
  BY <1>1 DEF OpToRel
<1>3. x # 0 /\ x - 1 \in Nat
  OBVIOUS
<1>4. x - 1 \in S
  BY <1>2, <1>3
<1>5. (x - 1) + 1 \in S
  BY <1>3, <1>4
<1> QED BY <1>3, <1>5

LEMMA LeastElement ==
  ASSUME NEW T \in SUBSET Nat, T # {}
  PROVE  \E x \in T : \A y \in T : x <= y
<1>1. PICK x \in T : \A y \in T : ~(<<y, x>> \in OpToRel(<, Nat))
  BY NatLessThanWellFounded, WFMin
<1>2. \A y \in T : ~(y < x)
  BY <1>1 DEF OpToRel
<1> QED BY <1>2

LEMMA MaxIsNewest ==
  ASSUME NEW k \in Nat, NEW s \in SUBSET (1 .. k + 1), k + 1 \in s
  PROVE  Max(s) = k + 1
<1>1. \A y \in s : k + 1 >= y
  OBVIOUS
<1>2. \A x \in s : (\A y \in s : x >= y) => x = k + 1
  OBVIOUS
<1> QED BY <1>1, <1>2 DEF Max

LEMMA MaxInside ==
  ASSUME NEW L \in Nat, NEW s \in SUBSET (1 .. L), s # {}
  PROVE  Max(s) \in s
<1> DEFINE S == {k \in Nat : \A t \in SUBSET (1 .. k) : t # {} => Max(t) \in t}
<1>1. 0 \in S
  <2>1. \A t \in SUBSET (1 .. 0) : t = {}
    OBVIOUS
  <2> QED BY <2>1
<1>2. ASSUME NEW k \in Nat, k \in S PROVE k + 1 \in S
  <2> SUFFICES ASSUME NEW t \in SUBSET (1 .. k + 1), t # {} PROVE Max(t) \in t
    OBVIOUS
  <2>1. CASE k + 1 \in t
    BY <2>1, MaxIsNewest
  <2>2. CASE k + 1 \notin t
    <3>1. t \in SUBSET (1 .. k)
      BY <2>2
    <3> QED BY <1>2, <3>1
  <2> QED BY <2>1, <2>2
<1> HIDE DEF S
<1>3. L \in S
  BY <1>1, <1>2, SetInduction
<1> QED BY <1>3 DEF S

-----------------------------------------------------------------------------
(* The states a replay goes through: g[s] is the decoder after the entries *)
(* with indices in s, fed from the oldest to the youngest.                 *)
ReplayRun(g, L, base, ids, pub) ==
  g = [s \in SUBSET (1 .. L) |->
         IF s = {} THEN base
         ELSE DecodeBlock(g[s \ {Max(s)}], ids[Max(s)], pub[Max(s)], pub[Max(s)])]

LEMMA ReplayRunExists ==
  ASSUME NEW base, NEW ids, NEW pub, NEW L \in Nat
  PROVE  \E g : ReplayRun(g, L, base, ids, pub)
<1> DEFINE S == {k \in Nat : \E g : ReplayRun(g, k, base, ids, pub)}
<1>1. 0 \in S
  <2> DEFINE g == [s \in SUBSET (1 .. 0) |-> base]
  <2>1. \A s \in SUBSET (1 .. 0) : s = {}
    OBVIOUS
  <2>2. g = [s \in SUBSET (1 .. 0) |->
               IF s = {} THEN base
               ELSE DecodeBlock(g[s \ {Max(s)}], ids[Max(s)], pub[Max(s)], pub[Max(s)])]
    BY <2>1
  <2> QED BY <2>2 DEF ReplayRun
<1>2. ASSUME NEW k \in Nat, k \in S PROVE k + 1 \in S
  <2>1. PICK g : ReplayRun(g, k, base, ids, pub)
    BY <1>2
  <2> DEFINE
        h == [s \in SUBSET (1 .. k + 1) |->
                IF k + 1 \in s
                THEN DecodeBlock(g[s \ {k + 1}], ids[k + 1], pub[k + 1], pub[k + 1])
                ELSE g[s]]
        f == [s \in SUBSET (1 .. k + 1) |->
                IF s = {} THEN base
                ELSE DecodeBlock(h[s \ {Max(s)}], ids[Max(s)], pub[Max(s)], pub[Max(s)])]
  <2>2. ASSUME NEW s \in SUBSET (1 .. k + 1)
        PROVE  h[s] = IF s = {} THEN base
                      ELSE DecodeBlock(h[s \ {Max(s)}], ids[Max(s)], pub[Max(s)], pub[Max(s)])
    <3>1. CASE k + 1 \in s
      <4>1. Max(s) = k + 1
        BY <3>1, MaxIsNewest
      <4>2. s \ {k + 1} \in SUBSET (1 .. k + 1) /\ k + 1 \notin s \ {k + 1}
        OBVIOUS
      <4>3. h[s \ {k + 1}] = g[s \ {k + 1}]
        BY <4>2
      <4>4. h[s] = DecodeBlock(g[s \ {k + 1}], ids[k + 1], pub[k + 1], pub[k + 1])
        BY <3>1
      <4> QED BY <3>1, <4>1, <4>3, <4>4
    <3>2. CASE k + 1 \notin s
      <4>1. s \in SUBSET (1 .. k)
        BY <3>2
      <4>2. h[s] = g[s]
        BY <3>2
      <4>3. g[s] = IF s = {} THEN base
                   ELSE DecodeBlock(g[s \ {Max(s)}], ids[Max(s)], pub[Max(s)], pub[Max(s)])
        BY <2>1, <4>1 DEF ReplayRun
      <4>4. h[s \ {Max(s)}] = g[s \ {Max(s)}]
        BY <3>2
      <4> QED BY <4>2, <4>3, <4>4
    <3> QED BY <3>1, <3>2
  <2>3. \A s \in SUBSET (1 .. k + 1) : h[s] = f[s]
    BY <2>2
  <2>4. h = [s \in SUBSET (1 .. k + 1) |-> h[s]] /\ f = [s \in SUBSET (1 .. k + 1) |-> f[s]]
    OBVIOUS
  <2>5. h = f
    <3> HIDE DEF h, f
    <3> QED BY <2>3, <2>4
  <2>6. ReplayRun(h, k + 1, base, ids, pub)
    <3> HIDE DEF h
    <3> QED BY <2>5 DEF ReplayRun
  <2> QED BY <2>6
<1> HIDE DEF S
<1>3. L \in S
  BY <1>1, <1>2, SetInduction
<1> QED BY <1>3 DEF S

(* What a run of a replay says entry by entry.                             *)
LEMMA ReplayRunSteps ==
  ASSUME NEW g, NEW base, NEW ids, NEW pub, NEW L \in Nat, ReplayRun(g, L, base, ids, pub)
  PROVE  /\ g[1 .. 0] = base
         /\ \A k \in 0 .. L - 1 :
              g[1 .. k + 1] = DecodeBlock(g[1 .. k], ids[k + 1], pub[k + 1], pub[k + 1])
<1>1. 1 .. 0 = {} /\ {} \in SUBSET (1 .. L)
  OBVIOUS
<1>2. g[1 .. 0] = base
  BY <1>1 DEF ReplayRun
<1>3. ASSUME NEW k \in 0 .. L - 1
      PROVE  g[1 .. k + 1] = DecodeBlock(g[1 .. k], ids[k + 1], pub[k + 1], pub[k + 1])
  <2>1. /\ 1 .. k + 1 \in SUBSET (1 .. k + 1) /\ k + 1 \in 1 .. k + 1 /\ k \in Nat
        /\ 1 .. k + 1 \in SUBSET (1 .. L) /\ 1 .. k + 1 # {}
    OBVIOUS
  <2>4. (1 .. k + 1) \ {k + 1} = 1 .. k
    OBVIOUS
  <2>2. Max(1 .. k + 1) = k + 1
    BY <2>1, MaxIsNewest
  <2>3. g[1 .. k + 1] =
          DecodeBlock(g[(1 .. k + 1) \ {Max(1 .. k + 1)}], ids[Max(1 .. k + 1)],
                      pub[Max(1 .. k + 1)], pub[Max(1 .. k + 1)])
    BY <2>1 DEF ReplayRun
  <2> QED BY <2>2, <2>3, <2>4
<1> QED BY <1>2, <1>3

(* rebuildDutyDecoder's two loops are such runs.                           *)
SleepEntries == SubSeq(OrderedCollar, collarCount - skippedRun + 1, collarCount)

LEMMA ShortReplayRun ==
  ASSUME NEW d, NEW L \in Nat, NEW ids, NEW pub, DOMAIN SleepEntries = 1 .. L,
         \A i \in 1 .. L : ids[i] = SleepEntries[i].id /\ pub[i] = TRUE
  PROVE  \E g : ReplayRun(g, L, d, ids, pub) /\ ReplayShort(d) = g[1 .. L]
<1> DEFINE
      Body(g, s) == IF s = {} THEN d
                    ELSE DecodeBlock(g[s \ {Max(s)}], SleepEntries[Max(s)].id, TRUE, TRUE)
      Run(g, s) == IF s = {} THEN d
                   ELSE DecodeBlock(g[s \ {Max(s)}], ids[Max(s)], pub[Max(s)], pub[Max(s)])
      iter == CHOOSE g : g = [s \in SUBSET DOMAIN SleepEntries |-> Body(g, s)]
<1>1. ReplayShort(d) = iter[DOMAIN SleepEntries]
  BY Zenon DEF ReplayShort, SleepEntries, FoldLeft, MapThenFoldSet
<1>2. ASSUME NEW g, NEW s \in SUBSET (1 .. L) PROVE Body(g, s) = Run(g, s)
  <2>1. CASE s = {}
    BY <2>1
  <2>2. CASE s # {}
    <3>1. Max(s) \in 1 .. L
      BY <2>2, MaxInside
    <3> QED BY <2>2, <3>1
  <2> QED BY <2>1, <2>2
<1>3. PICK g : ReplayRun(g, L, d, ids, pub)
  BY ReplayRunExists
<1>4. g = [s \in SUBSET (1 .. L) |-> Run(g, s)]
  BY <1>3, Zenon DEF ReplayRun
<1> HIDE DEF Body, Run
<1>5. g = [s \in SUBSET DOMAIN SleepEntries |-> Body(g, s)]
  BY <1>2, <1>4
<1>6. iter = [s \in SUBSET DOMAIN SleepEntries |-> Body(iter, s)]
  BY <1>5, Zenon
<1> HIDE DEF iter
<1>7. iter = [s \in SUBSET (1 .. L) |-> Run(iter, s)]
  BY <1>2, <1>6
<1>8. ReplayRun(iter, L, d, ids, pub)
  BY <1>7, Zenon DEF ReplayRun, Run
<1> QED BY <1>1, <1>8

LEMMA FullReplayRun ==
  ASSUME NEW d, NEW L \in Nat, NEW ids, NEW pub, collarCount = L,
         {i \in 1 .. Len(OrderedCollar) : ~OrderedCollar[i].rawValid} = {},
         \A i \in 1 .. L : /\ ids[i] = OrderedCollar[i].id
                           /\ pub[i] = Published(OrderedCollar[i], i)
  PROVE  \E g : /\ ReplayRun(g, L, ResetDecoder(d), ids, pub)
                /\ ReplayAll(d) = g[1 .. L]
<1> DEFINE
      base == ResetDecoder(d)
      firstBad == SelectInSeq(OrderedCollar, LAMBDA entry : ~entry.rawValid)
      usable == IF firstBad = 0 THEN collarCount ELSE firstBad - 1
      seq == [i \in 1 .. usable |-> i]
      Body(g, s) == IF s = {} THEN base
                    ELSE DecodeBlock(g[s \ {Max(s)}], OrderedCollar[seq[Max(s)]].id,
                                     Published(OrderedCollar[seq[Max(s)]], seq[Max(s)]),
                                     Published(OrderedCollar[seq[Max(s)]], seq[Max(s)]))
      Run(g, s) == IF s = {} THEN base
                   ELSE DecodeBlock(g[s \ {Max(s)}], ids[Max(s)], pub[Max(s)], pub[Max(s)])
      iter == CHOOSE g : g = [s \in SUBSET DOMAIN seq |-> Body(g, s)]
<1>1. ReplayAll(d) = iter[DOMAIN seq]
  BY Zenon DEF ReplayAll, FoldLeft, MapThenFoldSet
<1>10. usable = L
  BY Zenon DEF SelectInSeq
<1> HIDE DEF usable
<1>9. DOMAIN seq = 1 .. L /\ \A i \in 1 .. L : seq[i] = i
  BY <1>10
<1> HIDE DEF seq
<1>2. ASSUME NEW g, NEW s \in SUBSET (1 .. L) PROVE Body(g, s) = Run(g, s)
  <2>1. CASE s = {}
    BY <2>1
  <2>2. CASE s # {}
    <3>1. Max(s) \in 1 .. L /\ seq[Max(s)] = Max(s)
      BY <2>2, <1>9, MaxInside
    <3> QED BY <2>2, <3>1
  <2> QED BY <2>1, <2>2
<1>3. PICK g : ReplayRun(g, L, base, ids, pub)
  BY ReplayRunExists
<1>4. g = [s \in SUBSET (1 .. L) |-> Run(g, s)]
  BY <1>3, Zenon DEF ReplayRun
<1> HIDE DEF Body, Run
<1>5. g = [s \in SUBSET DOMAIN seq |-> Body(g, s)]
  BY <1>2, <1>4, <1>9
<1>6. iter = [s \in SUBSET DOMAIN seq |-> Body(iter, s)]
  BY <1>5, Zenon
<1> HIDE DEF iter
<1>7. iter = [s \in SUBSET (1 .. L) |-> Run(iter, s)]
  BY <1>2, <1>6, <1>9
<1>8. ReplayRun(iter, L, base, ids, pub)
  BY <1>7, Zenon DEF ReplayRun, Run
<1> QED BY <1>1, <1>8, <1>9

-----------------------------------------------------------------------------
(* What a log of published messages says when H are the heard blocks and S *)
(* the skipped ones: each message is logged once, in the first heard block *)
(* that contains it, in the order of the stream.                           *)
AudibleAt(x) == {m \in air : m.block = x \/ (m.twice /\ m.block = x - 1)}

LogEntries == [msg : air, at : Int, escaped : BOOLEAN]

LogExact(log, H, S) ==
  /\ log \in Seq(LogEntries)
  /\ \A i \in DOMAIN log : /\ log[i].at \in H /\ log[i].msg \in AudibleAt(log[i].at)
                           /\ log[i].escaped <=> log[i].at \in S
  /\ \A x \in H : \A m \in AudibleAt(x) : \E i \in DOMAIN log : log[i].msg = m
  /\ \A i, j \in DOMAIN log : i < j => log[i].msg # log[j].msg /\ log[i].at <= log[j].at

AirOK == air \in SUBSET Transmissions /\ IsFiniteSet(air)

LEMMA SetToSeqEnumerates ==
  ASSUME NEW T, IsFiniteSet(T)
  PROVE  /\ SetToSeq(T) \in Seq(T)
         /\ \A i, j \in DOMAIN SetToSeq(T) : i # j => SetToSeq(T)[i] # SetToSeq(T)[j]
         /\ \A t \in T : \E i \in DOMAIN SetToSeq(T) : SetToSeq(T)[i] = t
<1> DEFINE c == Cardinality(T)
           f == SetToSeq(T)
<1>1. c \in Nat /\ ExistsBijection(1 .. c, T)
  BY FS_CardinalityType
<1>2. \E q \in [1 .. c -> T] : IsInjective(q)
  BY <1>1 DEF ExistsBijection, Bijection, Injection
<1>3. f \in [1 .. c -> T] /\ IsInjective(f)
  BY <1>2 DEF SetToSeq
<1> HIDE DEF f
<1>4. f \in Injection(1 .. c, T)
  BY <1>3 DEF Injection
<1>5. Cardinality(1 .. c) = c
  BY <1>1, FS_Interval
<1> HIDE DEF c
<1>6. f \in Surjection(1 .. c, T)
  BY <1>4, <1>5, FS_Injection DEF c
<1>7. f \in Seq(T)
  BY <1>1, <1>3
<1> QED BY <1>3, <1>6, <1>7 DEF IsInjective, Surjection, f

LEMMA NothingDelivered ==
  ASSUME NEW log \in Seq(LogEntries), NEW seen, NEW x, NEW escaped
  PROVE  Deliver(log, {}, seen, x, escaped) = log
<1>1. {[msg |-> m, at |-> x, escaped |-> escaped] : m \in {} \ seen} = {}
  OBVIOUS
<1>2. IsFiniteSet({})
  BY FS_EmptySet
<1>3. SetToSeq({}) \in Seq({})
  BY <1>2, SetToSeqEnumerates
<1>4. SetToSeq({}) = <<>>
  BY <1>3
<1>5. Deliver(log, {}, seen, x, escaped) = log \o <<>>
  BY <1>1, <1>4, Zenon DEF Deliver
<1> QED BY <1>5

(* One decode of a heard block: what the previous decode already contained *)
(* is what has been logged before.                                         *)
LEMMA DeliverExact ==
  ASSUME AirOK, NEW x \in Nat, NEW H \in SUBSET (1 .. x - 1), NEW S, NEW log, NEW seen,
         LogExact(log, H, S), NEW escaped \in BOOLEAN, escaped <=> x \in S,
         seen = IF x - 1 \in H THEN AudibleAt(x - 1) ELSE {}
  PROVE  LogExact(Deliver(log, AudibleAt(x), seen, x, escaped), H \cup {x}, S)
<1> DEFINE fresh == AudibleAt(x) \ seen
           entry == [m \in fresh |-> [msg |-> m, at |-> x, escaped |-> escaped]]
           T == {[msg |-> m, at |-> x, escaped |-> escaped] : m \in fresh}
           new == SetToSeq(T)
           res == log \o new
<1>1. fresh \in SUBSET air /\ fresh \subseteq AudibleAt(x)
  BY DEF AudibleAt
<1>2. IsFiniteSet(T)
  <2>1. IsFiniteSet(fresh)
    BY <1>1, FS_Subset DEF AirOK
  <2>2. entry \in Surjection(fresh, T)
    BY DEF Surjection
  <2> HIDE DEF fresh, entry, T
  <2> QED BY <2>1, <2>2, FS_Surjection
<1>3. T \subseteq LogEntries
  BY <1>1 DEF LogEntries
<1>4. /\ \A t \in T : t.msg \in fresh /\ t.at = x /\ t.escaped = escaped
      /\ \A t, u \in T : t.msg = u.msg => t = u
      /\ \A m \in fresh : \E t \in T : t.msg = m
  <2> HIDE DEF fresh
  <2>1. \A t \in T : t.msg \in fresh /\ t.at = x /\ t.escaped = escaped
    OBVIOUS
  <2>2. \A t, u \in T : t.msg = u.msg => t = u
    OBVIOUS
  <2>3. ASSUME NEW m \in fresh PROVE \E t \in T : t.msg = m
    <3>1. [msg |-> m, at |-> x, escaped |-> escaped] \in T
      OBVIOUS
    <3> QED BY <3>1
  <2> QED BY <2>1, <2>2, <2>3
<1> HIDE DEF T
<1>5. /\ new \in Seq(T)
      /\ \A i, j \in DOMAIN new : i # j => new[i] # new[j]
      /\ \A t \in T : \E i \in DOMAIN new : new[i] = t
  BY <1>2, SetToSeqEnumerates
<1> HIDE DEF new
<1>6. new \in Seq(LogEntries) /\ log \in Seq(LogEntries)
  BY <1>3, <1>5 DEF LogExact
<1>7. /\ res \in Seq(LogEntries)
      /\ \A i \in DOMAIN res : \/ i \in DOMAIN log /\ res[i] = log[i]
                               \/ i > Len(log) /\ i - Len(log) \in DOMAIN new
                                  /\ res[i] = new[i - Len(log)]
      /\ \A i \in DOMAIN log : i \in DOMAIN res /\ res[i] = log[i]
      /\ \A j \in DOMAIN new : j + Len(log) \in DOMAIN res /\ res[j + Len(log)] = new[j]
      /\ DOMAIN log = 1 .. Len(log) /\ Len(log) \in Nat /\ DOMAIN res \subseteq Nat
      /\ DOMAIN new \subseteq Nat
  BY <1>6
<1>8. \A j \in DOMAIN new : new[j] \in T
  BY <1>5
\* An earlier entry for a message of this block was made in the block before,
\* and was in that block's digests.
<1>9. ASSUME NEW i \in DOMAIN log, log[i].msg \in AudibleAt(x)
      PROVE  log[i].msg \in seen
  <2>1. /\ log[i].at \in H /\ log[i].msg \in AudibleAt(log[i].at)
    BY DEF LogExact
  <2>2. log[i].at \in 1 .. x - 1
    BY <2>1
  <2>3. log[i].msg.block \in Int
    BY <2>1 DEF AudibleAt, AirOK, Transmissions, Blocks
  <2>4. log[i].at = x - 1
    BY <1>9, <2>1, <2>2, <2>3 DEF AudibleAt
  <2> QED BY <2>1, <2>4
<1> HIDE DEF res
<1>10. ASSUME NEW i \in DOMAIN res
       PROVE  /\ res[i].at \in H \cup {x} /\ res[i].msg \in AudibleAt(res[i].at)
              /\ res[i].escaped <=> res[i].at \in S
  <2>1. CASE i \in DOMAIN log /\ res[i] = log[i]
    BY <2>1 DEF LogExact
  <2>2. CASE i - Len(log) \in DOMAIN new /\ res[i] = new[i - Len(log)]
    <3>1. res[i].msg \in fresh /\ res[i].at = x /\ res[i].escaped = escaped
      BY <2>2, <1>4, <1>8
    <3> QED BY <3>1, <1>1
  <2> QED BY <1>7, <2>1, <2>2
<1>11. ASSUME NEW y \in H \cup {x}, NEW m \in AudibleAt(y)
       PROVE  \E i \in DOMAIN res : res[i].msg = m
  <2>1. CASE y \in H
    <3>1. PICK i \in DOMAIN log : log[i].msg = m
      BY <2>1 DEF LogExact
    <3> QED BY <3>1, <1>7
  <2>2. CASE y = x /\ m \in seen
    <3>1. x - 1 \in H /\ m \in AudibleAt(x - 1)
      BY <2>2
    <3>2. PICK i \in DOMAIN log : log[i].msg = m
      BY <3>1 DEF LogExact
    <3> QED BY <3>2, <1>7
  <2>3. CASE y = x /\ m \notin seen
    <3>1. PICK t \in T : t.msg = m
      BY <2>3, <1>4
    <3>2. PICK j \in DOMAIN new : new[j] = t
      BY <1>5
    <3> QED BY <3>1, <3>2, <1>7
  <2> QED BY <2>1, <2>2, <2>3
<1>12. ASSUME NEW i \in DOMAIN res, NEW j \in DOMAIN res, i < j
       PROVE  res[i].msg # res[j].msg /\ res[i].at <= res[j].at
  <2>1. CASE i \in DOMAIN log /\ j \in DOMAIN log
    BY <2>1, <1>7, <1>12 DEF LogExact
  <2>2. CASE i \in DOMAIN log /\ j \notin DOMAIN log
    <3>1. j - Len(log) \in DOMAIN new /\ res[j] = new[j - Len(log)] /\ res[i] = log[i]
      BY <2>2, <1>7
    <3>2. res[j].msg \in fresh /\ res[j].at = x
      BY <3>1, <1>4, <1>8
    <3>3. log[i].at \in 1 .. x - 1
      BY <2>2 DEF LogExact
    <3> QED BY <2>2, <3>1, <3>2, <3>3, <1>9
  <2>3. CASE i \notin DOMAIN log
    <3>1. i - Len(log) \in DOMAIN new /\ res[i] = new[i - Len(log)] /\ i > Len(log)
      BY <2>3, <1>7
    <3>2. j \notin DOMAIN log
      BY <1>12, <3>1, <1>7
    <3>3. j - Len(log) \in DOMAIN new /\ res[j] = new[j - Len(log)]
      BY <3>2, <1>7
    <3>4. i - Len(log) # j - Len(log)
      BY <1>12, <1>7
    <3>5. res[i] # res[j] /\ res[i] \in T /\ res[j] \in T
      BY <3>1, <3>3, <3>4, <1>5, <1>8
    <3>6. res[i].msg # res[j].msg /\ res[i].at = x /\ res[j].at = x
      BY <3>5, <1>4
    <3> QED BY <3>6
  <2> QED BY <2>1, <2>2, <2>3
<1>13. Deliver(log, AudibleAt(x), seen, x, escaped) = res
  BY Zenon DEF Deliver, res, new, T
<1> QED BY <1>7, <1>10, <1>11, <1>12, <1>13 DEF LogExact

-----------------------------------------------------------------------------
(* The decoder after block p, when the youngest k blocks of its window are *)
(* the stream's and H are the blocks it has been heard in.                 *)
WindowEnds(h, p, k) ==
  /\ h \in [1 .. Warmup + 1 -> Int]
  /\ \A i \in 1 .. Warmup + 1 : i > Warmup + 1 - k => h[i] = p - Warmup - 1 + i

DecoderAt(d, p, k, H, S) ==
  /\ WindowEnds(d.history, p, k)
  /\ d.prev = IF p \in H THEN AudibleAt(p) ELSE {}
  /\ d.dutyPrev = d.prev /\ d.obs = d.out
  /\ LogExact(d.out, H, S)

LEMMA FeedWindow ==
  ASSUME NEW h, NEW p \in Int, NEW k \in Nat, WindowEnds(h, p, k)
  PROVE  WindowEnds(Feed(h, p + 1), p + 1, k + 1)
<1>1. h \in Seq(Int) /\ Len(h) = Warmup + 1 /\ Warmup \in Nat
  BY CollarAssumption DEF WindowEnds
<1>2. h # <<>>
  BY <1>1
<1>3. /\ Tail(h) \in Seq(Int) /\ Len(Tail(h)) = Warmup
      /\ \A i \in 1 .. Warmup : Tail(h)[i] = h[i + 1]
  BY <1>1, <1>2
<1> DEFINE f == Feed(h, p + 1)
<1>4. /\ f \in Seq(Int) /\ Len(f) = Warmup + 1
      /\ \A i \in 1 .. Warmup : f[i] = h[i + 1]
      /\ f[Warmup + 1] = p + 1
  BY <1>1, <1>3 DEF Feed
<1> HIDE DEF f
<1>5. f \in [1 .. Warmup + 1 -> Int]
  BY <1>1, <1>4
<1>6. ASSUME NEW i \in 1 .. Warmup + 1, i > Warmup + 1 - (k + 1)
      PROVE  f[i] = (p + 1) - Warmup - 1 + i
  <2>1. CASE i = Warmup + 1
    BY <2>1, <1>1, <1>4
  <2>2. CASE i # Warmup + 1
    <3>1. i \in 1 .. Warmup /\ i + 1 \in 1 .. Warmup + 1 /\ i + 1 > Warmup + 1 - k
      BY <1>1, <1>6, <2>2
    <3>2. h[i + 1] = p - Warmup - 1 + (i + 1)
      BY <3>1 DEF WindowEnds
    <3> QED BY <1>1, <1>4, <3>1, <3>2
  <2> QED BY <2>1, <2>2
<1> QED BY <1>5, <1>6 DEF WindowEnds, f

LEMMA FoundAll ==
  ASSUME NEW h, NEW x \in Int, NEW k \in Nat, k >= Warmup + 1, WindowEnds(h, x, k)
  PROVE  Found(h, x) = AudibleAt(x)
<1>1. DOMAIN h = 1 .. Warmup + 1 /\ Len(h) = Warmup + 1 /\ Warmup \in Nat
  BY CollarAssumption DEF WindowEnds
<1>2. \A i \in 1 .. Warmup + 1 : h[i] = x - Len(h) + i
  BY <1>1 DEF WindowEnds
<1>3. ContiguousUpTo(h, x)
  BY <1>1, <1>2 DEF ContiguousUpTo
<1> QED BY <1>3 DEF Found, AudibleAt

LEMMA DecodeHeard ==
  ASSUME AirOK, NEW p \in Nat, NEW k \in Nat, k >= Warmup, NEW H \in SUBSET (1 .. p), NEW S,
         NEW d, DecoderAt(d, p, k, H, S),
         NEW escaped \in BOOLEAN, escaped <=> p + 1 \in S
  PROVE  DecoderAt(DecodeBlock(d, p + 1, TRUE, escaped), p + 1, k + 1, H \cup {p + 1}, S)
<1> DEFINE x == p + 1
           h == Feed(d.history, x)
           e == DecodeBlock(d, x, TRUE, escaped)
<1>1. WindowEnds(h, x, k + 1)
  BY FeedWindow DEF DecoderAt
<1> HIDE DEF h
<1>2. Found(h, x) = AudibleAt(x)
  BY <1>1, FoundAll, CollarAssumption
<1>3. /\ e.history = h /\ e.prev = AudibleAt(x) /\ e.dutyPrev = AudibleAt(x)
      /\ e.out = Deliver(d.out, AudibleAt(x), d.prev, x, escaped)
      /\ e.obs = Deliver(d.obs, AudibleAt(x), d.dutyPrev, x, escaped)
  BY <1>2 DEF DecodeBlock, h
<1>4. x \in Nat /\ x - 1 = p /\ H \in SUBSET (1 .. x - 1)
  OBVIOUS
<1>5. /\ LogExact(d.out, H, S)
      /\ d.prev = IF x - 1 \in H THEN AudibleAt(x - 1) ELSE {}
  BY <1>4, Zenon DEF DecoderAt
<1>6. LogExact(Deliver(d.out, AudibleAt(x), d.prev, x, escaped), H \cup {x}, S)
  <2> HIDE DEF x
  <2>1. escaped <=> x \in S
    BY DEF x
  <2> QED BY <1>4, <1>5, <2>1, DeliverExact
<1>7. e.obs = e.out /\ e.dutyPrev = e.prev
  BY <1>3 DEF DecoderAt
<1> HIDE DEF e
<1>8. DecoderAt(e, x, k + 1, H \cup {x}, S)
  BY <1>1, <1>3, <1>6, <1>7 DEF DecoderAt
<1> QED BY <1>8 DEF e

LEMMA DecodeWarming ==
  ASSUME NEW p \in Int, NEW k \in Nat, NEW H, NEW S, NEW d, DecoderAt(d, p, k, H, S),
         p + 1 \notin H
  PROVE  DecoderAt(DecodeBlock(d, p + 1, FALSE, FALSE), p + 1, k + 1, H, S)
<1> DEFINE h == Feed(d.history, p + 1)
           e == DecodeBlock(d, p + 1, FALSE, FALSE)
<1>1. WindowEnds(h, p + 1, k + 1)
  BY FeedWindow DEF DecoderAt
<1> HIDE DEF h
<1>2. /\ e.history = h /\ e.prev = {} /\ e.dutyPrev = {}
      /\ e.out = Deliver(d.out, {}, d.prev, p + 1, FALSE)
      /\ e.obs = Deliver(d.obs, {}, d.dutyPrev, p + 1, FALSE)
  BY DEF DecodeBlock, h
<1>3. d.out \in Seq(LogEntries) /\ d.obs = d.out
  BY DEF DecoderAt, LogExact
<1>6. /\ Deliver(d.out, {}, d.prev, p + 1, FALSE) = d.out
      /\ Deliver(d.out, {}, d.dutyPrev, p + 1, FALSE) = d.out
  BY <1>3, NothingDelivered
<1>4. e.out = d.out /\ e.obs = d.out
  <2> HIDE DEF e
  <2> QED BY <1>2, <1>3, <1>6
<1> HIDE DEF e
<1>5. DecoderAt(e, p + 1, k + 1, H, S)
  BY <1>1, <1>2, <1>4 DEF DecoderAt
<1> QED BY <1>5 DEF e

LEMMA ResetForgets ==
  ASSUME NEW p \in Int, NEW k, NEW H, NEW q \in Int, q \notin H,
         NEW S, DecoderAt(decoderState, p, k, H, S)
  PROVE  DecoderAt(ResetDecoder(decoderState), q, 0, H, S)
<1> DEFINE e == ResetDecoder(decoderState)
<1>1. /\ e.history = [i \in 1 .. Warmup + 1 |-> NoBlock] /\ e.prev = {} /\ e.dutyPrev = {}
      /\ e.out = out /\ e.obs = obs
  BY DEF ResetDecoder, decoderState
<1>2. out = obs /\ LogExact(out, H, S)
  BY DEF DecoderAt, decoderState
<1>3. WindowEnds(e.history, q, 0)
  BY <1>1, CollarAssumption DEF WindowEnds, NoBlock
<1> HIDE DEF e
<1>4. DecoderAt(e, q, 0, H, S)
  BY <1>1, <1>2, <1>3 DEF DecoderAt
<1> QED BY <1>4 DEF e

(* The k-th entry of the ordered collar, and the k-th entry of a sleep     *)
(* that is completely in it.                                               *)
LEMMA OrderedEntry ==
  ASSUME TypeOK, CollarTail, NEW i \in 1 .. collarCount, collarCount - i + 1 <= skippedRun
  PROVE  /\ OrderedCollar[i].id = n - collarCount + i
         /\ ~OrderedCollar[i].decoded /\ OrderedCollar[i].rawValid
<1>1. collarCount \in Nat /\ n \in Nat /\ collarCount - i + 1 \in 1 .. collarCount
  BY DEF TypeOK
<1>2. OrderedCollar[i] = collar[CollarIndex(collarCount - i + 1)]
  BY DEF OrderedCollar
<1>3. /\ collar[CollarIndex(collarCount - i + 1)].id = n - (collarCount - i + 1) + 1
      /\ ~collar[CollarIndex(collarCount - i + 1)].decoded
      /\ collar[CollarIndex(collarCount - i + 1)].rawValid
  BY <1>1 DEF CollarTail
<1>4. n - (collarCount - i + 1) + 1 = n - collarCount + i
  BY <1>1
<1> QED BY <1>2, <1>3, <1>4

(* A sleep that is still in the collar is heard completely.                *)
LEMMA ReplayShortExact ==
  ASSUME TypeOK, CollarTail, AirOK, ShortReplay,
         NEW a \in Nat, a = n - skippedRun,
         NEW H \in SUBSET (1 .. a), NEW S, a + 1 .. n \subseteq S,
         NEW d, DecoderAt(d, a, Warmup + 1, H, S)
  PROVE  \E k \in Nat : k >= Warmup + 1
                        /\ DecoderAt(ReplayShort(d), n, k, H \cup (a + 1 .. n), S)
<1> DEFINE L == skippedRun
           ids == [i \in 1 .. L |-> SleepEntries[i].id]
           pub == [i \in 1 .. L |-> TRUE]
<1>1. /\ L \in Nat /\ L >= 1 /\ L <= collarCount /\ collarCount \in Nat
      /\ n \in Nat /\ a + L = n /\ Warmup \in Nat
  BY CollarAssumption DEF ShortReplay, TypeOK
<1>2. OrderedCollar \in Seq(CollarEntry) /\ Len(OrderedCollar) = collarCount
  <2>1. \A i \in 1 .. collarCount : CollarIndex(collarCount - i + 1) \in 0 .. Collar - 1
    <3>1. \A i \in 1 .. collarCount : collarCount - i + 1 \in 1 .. Collar
      BY <1>1, CollarAssumption DEF TypeOK
    <3> QED BY <3>1, IndexInRing
  <2>2. OrderedCollar \in [1 .. collarCount -> CollarEntry]
    BY <2>1 DEF OrderedCollar, TypeOK
  <2> QED BY <1>1, <2>2
<1>3. /\ DOMAIN SleepEntries = 1 .. L
      /\ \A i \in 1 .. L : SleepEntries[i] = OrderedCollar[collarCount - L + i]
  <2> DEFINE lo == collarCount - skippedRun + 1
  <2>1. lo \in 1 .. collarCount /\ collarCount - lo + 1 = L
    BY <1>1
  <2>2. \A i \in 1 .. L : lo + i - 1 = collarCount - L + i
    BY <1>1
  <2> HIDE DEF lo, L
  <2>3. /\ Len(SubSeq(OrderedCollar, lo, collarCount)) = L
        /\ SubSeq(OrderedCollar, lo, collarCount) \in Seq(CollarEntry)
        /\ \A i \in 1 .. L : SubSeq(OrderedCollar, lo, collarCount)[i] = OrderedCollar[lo + i - 1]
    BY <1>1, <1>2, <2>1
  <2>4. SleepEntries = SubSeq(OrderedCollar, lo, collarCount)
    BY DEF SleepEntries, lo
  <2>5. DOMAIN SleepEntries = 1 .. L
    BY <1>1, <2>3, <2>4
  <2>6. ASSUME NEW i \in 1 .. L
        PROVE  SleepEntries[i] = OrderedCollar[collarCount - L + i]
    BY <2>2, <2>3, <2>4
  <2> QED BY <2>5, <2>6
<1>4. ASSUME NEW i \in 1 .. L PROVE SleepEntries[i].id = a + i
  <2>1. /\ collarCount - L + i \in 1 .. collarCount
        /\ collarCount - (collarCount - L + i) + 1 <= skippedRun
    BY <1>1
  <2>2. OrderedCollar[collarCount - L + i].id = n - collarCount + (collarCount - L + i)
    BY <2>1, OrderedEntry
  <2> QED BY <1>1, <1>3, <2>2
<1>5. \A i \in 1 .. L : ids[i] = SleepEntries[i].id /\ pub[i] = TRUE
  OBVIOUS
<1> HIDE DEF ids, pub
<1> HIDE DEF L
<1>7. PICK g : ReplayRun(g, L, d, ids, pub) /\ ReplayShort(d) = g[1 .. L]
  BY <1>1, <1>3, <1>5, ShortReplayRun
<1>8. /\ g[1 .. 0] = d
      /\ \A k \in 0 .. L - 1 :
           g[1 .. k + 1] = DecodeBlock(g[1 .. k], ids[k + 1], pub[k + 1], pub[k + 1])
  BY <1>1, <1>7, ReplayRunSteps
<1> DEFINE P(k) == DecoderAt(g[1 .. k], a + k, Warmup + 1 + k, H \cup (a + 1 .. a + k), S)
           Z == {k \in Nat : k <= L => P(k)}
<1>9. P(0)
  <2>1. H \cup (a + 1 .. a + 0) = H /\ a + 0 = a /\ Warmup + 1 + 0 = Warmup + 1
    BY <1>1
  <2> QED BY <1>8, <2>1
<1> HIDE DEF P
<1>10. ASSUME NEW k \in Nat, k <= L => P(k), k + 1 <= L
       PROVE  P(k + 1)
  <2>1. k \in 0 .. L - 1 /\ k + 1 \in 1 .. L /\ a + k \in Nat /\ Warmup + 1 + k \in Nat
        /\ Warmup + 1 + k >= Warmup /\ (a + k) + 1 = a + (k + 1)
        /\ (Warmup + 1 + k) + 1 = Warmup + 1 + (k + 1)
    BY <1>1, <1>10
  <2>2. ids[k + 1] = (a + k) + 1 /\ pub[k + 1] = TRUE
    BY <1>4, <1>5, <2>1
  <2>3. g[1 .. k + 1] = DecodeBlock(g[1 .. k], (a + k) + 1, TRUE, TRUE)
    BY <1>8, <2>1, <2>2
  <2>4. H \cup (a + 1 .. a + k) \in SUBSET (1 .. a + k)
    <3>1. \A y \in H \cup (a + 1 .. a + k) : y \in 1 .. a + k
      BY <2>1
    <3> QED BY <3>1, Zenon
  <2>5. (a + k) + 1 \in S
    BY <1>1, <2>1
  <2>6. (H \cup (a + 1 .. a + k)) \cup {(a + k) + 1} = H \cup (a + 1 .. a + (k + 1))
    BY <2>1
  <2>7. P(k)
    BY <1>1, <1>10
  <2>8. DecoderAt(DecodeBlock(g[1 .. k], (a + k) + 1, TRUE, TRUE), (a + k) + 1,
                  (Warmup + 1 + k) + 1, (H \cup (a + 1 .. a + k)) \cup {(a + k) + 1}, S)
    BY <2>1, <2>4, <2>5, <2>7, DecodeHeard DEF P
  <2> QED BY <2>1, <2>3, <2>6, <2>8 DEF P
<1>11. 0 \in Z /\ \A k \in Nat : k \in Z => k + 1 \in Z
  BY <1>9, <1>10
<1> HIDE DEF Z
<1>12. L \in Z
  BY <1>1, <1>11, SetInduction
<1>13. P(L)
  BY <1>1, <1>12 DEF Z
<1>14. DecoderAt(ReplayShort(d), n, Warmup + 1 + L, H \cup (a + 1 .. n), S)
  BY <1>1, <1>7, <1>13 DEF P
<1> QED BY <1>1, <1>14

(* After a longer sleep the collar is full of it: the blocks behind its    *)
(* warm-up are heard, and none before them.                                *)
LEMMA ReplayAllExact ==
  ASSUME TypeOK, CollarTail, AirOK, wasSkipped, ~ShortReplay,
         NEW a \in Nat, a = n - skippedRun,
         NEW H \in SUBSET (1 .. a), NEW S, a + 1 .. n \subseteq S,
         DecoderAt(decoderState, a, Warmup + 1, H, S)
  PROVE  DecoderAt(ReplayAll(decoderState), n, Collar,
                   H \cup (n - Collar + Warmup + 1 .. n), S)
<1> DEFINE L == Collar
           c == n - Collar
           ids == [i \in 1 .. L |-> OrderedCollar[i].id]
           pub == [i \in 1 .. L |-> Published(OrderedCollar[i], i)]
<1>1. skippedRun > collarCount /\ skippedRun > 0
  <2>1. ASSUME skippedRun <= collarCount PROVE FALSE
    <3>1. skippedRun > 0
      BY DEF CollarTail
    <3>2. \A k \in 1 .. skippedRun :
            ~collar[CollarIndex(k)].decoded /\ collar[CollarIndex(k)].rawValid
      BY <2>1 DEF CollarTail, TypeOK
    <3> QED BY <2>1, <3>1, <3>2 DEF ShortReplay
  <2> QED BY <2>1 DEF CollarTail, TypeOK
<1>2. /\ collarCount = Collar /\ Collar \in Nat /\ Warmup \in Nat /\ Collar > Warmup
      /\ n \in Nat /\ skippedRun \in Nat /\ skippedRun > Collar /\ skippedRun <= n
      /\ c \in Nat /\ a < c
  BY <1>1, CollarAssumption DEF CollarTail, TypeOK
<1>3. ASSUME NEW i \in 1 .. L
      PROVE  OrderedCollar[i].id = c + i /\ ~OrderedCollar[i].decoded /\ OrderedCollar[i].rawValid
  <2>1. i \in 1 .. collarCount /\ collarCount - i + 1 <= skippedRun
    BY <1>2
  <2> QED BY <1>2, <2>1, OrderedEntry
<1>4. DOMAIN OrderedCollar = 1 .. L /\ Len(OrderedCollar) = L
  BY <1>2 DEF OrderedCollar
<1>5. {i \in 1 .. Len(OrderedCollar) : ~OrderedCollar[i].rawValid} = {}
  BY <1>3, <1>4
<1>6. collarCount = L
  BY <1>2
<1>7. \A i \in 1 .. L : ids[i] = OrderedCollar[i].id /\ pub[i] = Published(OrderedCollar[i], i)
  OBVIOUS
<1>8. \A i \in 1 .. L : /\ ids[i] = c + i
                        /\ i > Warmup => pub[i] = TRUE
                        /\ ~(i > Warmup) => pub[i] = FALSE
  <2> SUFFICES ASSUME NEW i \in 1 .. L
               PROVE  /\ ids[i] = c + i
                      /\ i > Warmup => pub[i] = TRUE
                      /\ ~(i > Warmup) => pub[i] = FALSE
    OBVIOUS
  <2>1. ids[i] = c + i
    BY <1>3
  <2>2. pub[i] = Published(OrderedCollar[i], i)
    BY <1>7
  <2>3. Published(OrderedCollar[i], i) <=> i > Warmup
    BY <1>2, <1>3 DEF Published
  <2>4. Published(OrderedCollar[i], i) \in BOOLEAN
    BY DEF Published
  <2> HIDE DEF pub
  <2> QED BY <2>1, <2>2, <2>3, <2>4
<1> HIDE DEF ids, pub
<1> DEFINE base == ResetDecoder(decoderState)
<1>9. PICK g : ReplayRun(g, L, base, ids, pub) /\ ReplayAll(decoderState) = g[1 .. L]
  BY <1>2, <1>5, <1>6, <1>7, FullReplayRun, SMTT(30)
<1>10. /\ g[1 .. 0] = base
       /\ \A k \in 0 .. L - 1 :
            g[1 .. k + 1] = DecodeBlock(g[1 .. k], ids[k + 1], pub[k + 1], pub[k + 1])
  BY <1>2, <1>9, ReplayRunSteps
<1>11. DecoderAt(base, c, 0, H, S)
  BY <1>2, ResetForgets
<1> HIDE DEF base, c
<1> DEFINE HK(k) == H \cup (c + Warmup + 1 .. c + k)
           P(k) == DecoderAt(g[1 .. k], c + k, k, HK(k), S)
           Z == {k \in Nat : k <= L => P(k)}
<1>12. P(0)
  <2>1. HK(0) = H /\ c + 0 = c
    BY <1>2
  <2> QED BY <1>10, <1>11, <2>1
<1> HIDE DEF P
<1>13. ASSUME NEW k \in Nat, k <= L => P(k), k + 1 <= L
       PROVE  P(k + 1)
  <2>1. k \in 0 .. L - 1 /\ k + 1 \in 1 .. L /\ c + k \in Nat
        /\ (c + k) + 1 = c + (k + 1)
    BY <1>2, <1>13
  <2>2. /\ ids[k + 1] = (c + k) + 1
        /\ k + 1 > Warmup => pub[k + 1] = TRUE
        /\ ~(k + 1 > Warmup) => pub[k + 1] = FALSE
    BY <1>2, <1>8, <2>1
  <2>3. P(k)
    BY <1>2, <1>13
  <2>4. CASE k + 1 > Warmup
    <3>1. g[1 .. k + 1] = DecodeBlock(g[1 .. k], (c + k) + 1, TRUE, TRUE)
      BY <1>10, <2>1, <2>2, <2>4
    <3>2. HK(k) \in SUBSET (1 .. c + k) /\ k >= Warmup
      <4>1. \A y \in HK(k) : y \in 1 .. c + k
        BY <1>2, <2>1, <2>4
      <4>2. k >= Warmup
        BY <1>2, <2>4
      <4> QED BY <4>1, <4>2, Zenon
    <3>3. (c + k) + 1 \in S
      BY <1>2, <2>1 DEF c
    <3>4. HK(k) \cup {(c + k) + 1} = HK(k + 1)
      BY <1>2, <2>1, <2>4
    <3>5. DecoderAt(DecodeBlock(g[1 .. k], (c + k) + 1, TRUE, TRUE), (c + k) + 1,
                    k + 1, HK(k) \cup {(c + k) + 1}, S)
      BY <2>1, <2>3, <3>2, <3>3, DecodeHeard DEF P
    <3> QED BY <2>1, <3>1, <3>4, <3>5 DEF P
  <2>5. CASE ~(k + 1 > Warmup)
    <3>1. g[1 .. k + 1] = DecodeBlock(g[1 .. k], (c + k) + 1, FALSE, FALSE)
      BY <1>10, <2>1, <2>2, <2>5
    <3>2. HK(k) = H /\ HK(k + 1) = H
      BY <1>2, <2>1, <2>5
    <3>3. (c + k) + 1 \notin H
      BY <1>2, <2>1
    <3>4. DecoderAt(DecodeBlock(g[1 .. k], (c + k) + 1, FALSE, FALSE), (c + k) + 1, k + 1, H, S)
      <4>1. DecoderAt(g[1 .. k], c + k, k, H, S)
        BY <2>3, <3>2 DEF P
      <4>2. c + k \in Int
        BY <2>1
      <4> HIDE DEF HK
      <4> QED BY <3>3, <4>1, <4>2, DecodeWarming
    <3> QED BY <2>1, <3>1, <3>2, <3>4 DEF P
  <2> QED BY <2>4, <2>5
<1>14. 0 \in Z /\ \A k \in Nat : k \in Z => k + 1 \in Z
  BY <1>12, <1>13
<1> HIDE DEF Z
<1>15. L \in Z
  BY <1>2, <1>14, SetInduction
<1>16. P(L)
  BY <1>2, <1>15 DEF Z
<1>17. c + L = n
  BY <1>2 DEF c
<1> QED BY <1>9, <1>16, <1>17 DEF P, c

-----------------------------------------------------------------------------
(* Inductive invariant: after every block the decoder is where the last    *)
(* decoded block left it, and the logs are exact for the blocks heard.     *)
HeardBlocks == {x \in 1 .. n : Heard(x)}
SkippedBlocks == {x \in 1 .. n : ~decisions[x]}

SleepInv ==
  /\ n <= MaxBlocks
  /\ decisions \in Seq(BOOLEAN) /\ Len(decisions) = n
  /\ \A y \in n - skippedRun + 1 .. n : ~decisions[y]
  /\ n - skippedRun = 0 \/ decisions[n - skippedRun]
  /\ ~Gated => skippedRun = 0

HeardInv ==
  /\ AirOK
  /\ SleepInv
  /\ DecoderAt(decoderState, n - skippedRun, Warmup + 1, HeardBlocks, SkippedBlocks)

(* The sleep around a skipped block, from the decisions D on N blocks.     *)
SleepEndOf(D, N, x) == CHOOSE e \in x .. N : /\ \A y \in x .. e : ~D[y]
                                             /\ e = N \/ D[e + 1]
SleepStartOf(D, x) == CHOOSE s \in 1 .. x : /\ \A y \in s .. x : ~D[y]
                                            /\ s = 1 \/ D[s - 1]
HeardOf(D, N, x) ==
  \/ D[x]
  \/ /\ SleepEndOf(D, N, x) < N
     /\ \/ SleepEndOf(D, N, x) - SleepStartOf(D, x) + 1 <= Collar
        \/ x > SleepEndOf(D, N, x) - Collar + Warmup

LEMMA SleepEndIs ==
  ASSUME NEW D, NEW N \in Nat, NEW x \in 1 .. N, NEW e \in x .. N,
         \A y \in x .. e : ~D[y], e = N \/ D[e + 1]
  PROVE  SleepEndOf(D, N, x) = e
<1>1. ASSUME NEW f \in x .. N, \A y \in x .. f : ~D[y], f = N \/ D[f + 1]
      PROVE  f = e
  <2>1. CASE f < e
    <3>1. f + 1 \in x .. e /\ f # N
      BY <2>1
    <3> QED BY <1>1, <3>1
  <2>2. CASE e < f
    <3>1. e + 1 \in x .. f /\ e # N
      BY <2>2
    <3> QED BY <1>1, <3>1
  <2> QED BY <2>1, <2>2
<1> QED BY <1>1 DEF SleepEndOf

LEMMA SleepStartIs ==
  ASSUME NEW D, NEW x \in Nat, NEW s \in 1 .. x, \A y \in s .. x : ~D[y], s = 1 \/ D[s - 1]
  PROVE  SleepStartOf(D, x) = s
<1>1. ASSUME NEW t \in 1 .. x, \A y \in t .. x : ~D[y], t = 1 \/ D[t - 1]
      PROVE  t = s
  <2>1. CASE t < s
    <3>1. s - 1 \in t .. x /\ s # 1
      BY <2>1
    <3> QED BY <1>1, <3>1
  <2>2. CASE s < t
    <3>1. t - 1 \in s .. x /\ t # 1
      BY <2>2
    <3> QED BY <1>1, <3>1
  <2> QED BY <2>1, <2>2
<1> QED BY <1>1 DEF SleepStartOf

LEMMA SleepEndsBefore ==
  ASSUME NEW D, NEW x \in Nat, ~D[x], NEW b \in Nat, x < b, D[b]
  PROVE  \E e \in x .. b - 1 : (\A y \in x .. e : ~D[y]) /\ D[e + 1]
<1> DEFINE T == {y \in x .. b : D[y]}
<1>1. T \in SUBSET Nat /\ b \in T
  OBVIOUS
<1>2. PICK w \in T : \A y \in T : w <= y
  BY <1>1, LeastElement
<1>3. w - 1 \in x .. b - 1 /\ (w - 1) + 1 = w
  BY <1>2
<1>4. \A y \in x .. w - 1 : ~D[y]
  BY <1>2, <1>3
<1> QED BY <1>2, <1>3, <1>4

LEMMA SleepStartsAfter ==
  ASSUME NEW D, NEW x \in Nat \ {0}, ~D[x]
  PROVE  \E s \in 1 .. x : (\A y \in s .. x : ~D[y]) /\ (s = 1 \/ D[s - 1])
<1> DEFINE T == {k \in 1 .. x : k = x \/ D[x - k]}
<1>1. T \in SUBSET Nat /\ x \in T
  OBVIOUS
<1>2. PICK w \in T : \A y \in T : w <= y
  BY <1>1, LeastElement
<1> DEFINE s == x - w + 1
<1>3. s \in 1 .. x /\ s - 1 = x - w
  BY <1>2
<1>4. s = 1 \/ D[s - 1]
  BY <1>2, <1>3
<1>5. ASSUME NEW y \in s .. x PROVE ~D[y]
  <2>1. CASE y = x
    BY <2>1
  <2>2. CASE y # x
    <3>1. x - y \in 1 .. x /\ x - y < w /\ x - (x - y) = y
      BY <2>2, <1>2, <1>3
    <3>2. x - y \notin T
      BY <3>1, <1>2
    <3> QED BY <3>1, <3>2
  <2> QED BY <2>1, <2>2
<1> QED BY <1>3, <1>4, <1>5

(* E are the decisions D and one more.                                     *)
Extends(E, D, N) ==
  /\ D \in Seq(BOOLEAN) /\ Len(D) = N
  /\ E \in Seq(BOOLEAN) /\ Len(E) = N + 1
  /\ \A y \in 1 .. N : E[y] = D[y]

LEMMA AppendExtends ==
  ASSUME NEW N \in Nat, NEW D \in Seq(BOOLEAN), Len(D) = N, NEW v \in BOOLEAN
  PROVE  Extends(Append(D, v), D, N) /\ (v <=> Append(D, v)[N + 1])
<1>1. Extends(Append(D, v), D, N) /\ Append(D, v)[N + 1] = v
  BY DEF Extends
<1> QED BY <1>1, Zenon

(* What the next decision changes: nothing up to the last decoded block a, *)
(* and the sleep behind it is heard only once a decoded block ends it.     *)
LEMMA HeardStays ==
  ASSUME NEW N \in Nat, NEW D, NEW E, Extends(E, D, N),
         NEW a \in 0 .. N, a = 0 \/ D[a], NEW x \in 1 .. a
  PROVE  HeardOf(E, N + 1, x) <=> HeardOf(D, N, x)
<1>1. \A y \in 1 .. N : E[y] = D[y]
  BY DEF Extends
<1>2. x \in 1 .. N /\ x \in Nat \ {0} /\ a \in Nat /\ D[a] /\ N + 1 \in Nat /\ x \in 1 .. N + 1
  OBVIOUS
<1>3. CASE D[x]
  BY <1>1, <1>2, <1>3 DEF HeardOf
<1>4. CASE ~D[x]
  <2>1. x < a
    BY <1>2, <1>4
  <2>2. PICK e \in x .. a - 1 : (\A y \in x .. e : ~D[y]) /\ D[e + 1]
    BY <1>2, <1>4, <2>1, SleepEndsBefore
  <2>3. PICK s \in 1 .. x : (\A y \in s .. x : ~D[y]) /\ (s = 1 \/ D[s - 1])
    BY <1>2, <1>4, SleepStartsAfter
  <2>4. SleepEndOf(D, N, x) = e
    <3>1. e \in x .. N
      BY <1>2, <2>2
    <3>2. (\A y \in x .. e : ~D[y]) /\ (e = N \/ D[e + 1])
      BY <2>2
    <3> QED BY <1>2, <3>1, <3>2, SleepEndIs
  <2>5. SleepEndOf(E, N + 1, x) = e
    <3>1. e \in x .. N + 1 /\ e + 1 \in 1 .. N
      BY <1>2, <2>2
    <3>2. (\A y \in x .. e : ~E[y]) /\ E[e + 1]
      BY <1>1, <1>2, <2>2, <3>1
    <3> QED BY <1>2, <3>1, <3>2, SleepEndIs
  <2>6. SleepStartOf(D, x) = s
    BY <1>2, <2>3, SleepStartIs
  <2>7. SleepStartOf(E, x) = s
    <3>1. (\A y \in s .. x : ~E[y]) /\ (s = 1 \/ E[s - 1])
      BY <1>1, <1>2, <2>3
    <3> QED BY <1>2, <3>1, SleepStartIs
  <2>8. e < N /\ e < N + 1
    BY <1>2, <2>2
  <2>9. ~E[x]
    BY <1>1, <1>2, <1>4
  <2> QED
    BY <1>4, <2>4, <2>5, <2>6, <2>7, <2>8, <2>9 DEF HeardOf
<1> QED BY <1>3, <1>4

LEMMA AsleepUnheard ==
  ASSUME NEW N \in Nat, NEW D, NEW a \in 0 .. N, \A y \in a + 1 .. N : ~D[y],
         NEW x \in a + 1 .. N
  PROVE  ~HeardOf(D, N, x)
<1>1. x \in 1 .. N /\ N \in x .. N /\ \A y \in x .. N : ~D[y]
  OBVIOUS
<1>2. SleepEndOf(D, N, x) = N
  BY <1>1, SleepEndIs
<1> QED BY <1>1, <1>2 DEF HeardOf

LEMMA WakeHears ==
  ASSUME NEW N \in Nat, NEW D, NEW E, Extends(E, D, N), E[N + 1],
         NEW a \in 0 .. N, a = 0 \/ D[a], \A y \in a + 1 .. N : ~D[y],
         NEW x \in a + 1 .. N
  PROVE  HeardOf(E, N + 1, x) <=> N - a <= Collar \/ x > N - Collar + Warmup
<1>1. \A y \in 1 .. N : E[y] = D[y]
  BY DEF Extends
<1>2. /\ x \in 1 .. N + 1 /\ N \in x .. N + 1 /\ N + 1 \in Nat /\ x \in Nat
      /\ a + 1 \in 1 .. x /\ (a + 1) - 1 = a
  OBVIOUS
<1>3. \A y \in a + 1 .. N : ~E[y]
  BY <1>1
<1>4. SleepEndOf(E, N + 1, x) = N
  <2>1. \A y \in x .. N : ~E[y]
    BY <1>3
  <2> QED BY <1>1, <1>2, <2>1, SleepEndIs, ZenonT(60)
<1>5. SleepStartOf(E, x) = a + 1
  <2>1. (\A y \in a + 1 .. x : ~E[y]) /\ (a + 1 = 1 \/ E[(a + 1) - 1])
    BY <1>1, <1>2, <1>3
  <2> QED BY <1>2, <2>1, SleepStartIs
<1>6. ~E[x] /\ N < N + 1 /\ N - (a + 1) + 1 = N - a
  BY <1>3
<1> QED BY <1>4, <1>5, <1>6 DEF HeardOf

LEMMA HeardIs == \A x : Heard(x) <=> HeardOf(decisions, n, x)
  BY Zenon DEF Heard, HeardOf, SleepEnd, SleepEndOf, SleepStart, SleepStartOf

-----------------------------------------------------------------------------
LEMMA HeardBefore ==
  ASSUME TypeOK, CollarTail, SleepInv
  PROVE  HeardBlocks \in SUBSET (1 .. n - skippedRun) /\ n - skippedRun \in 0 .. n
<1>1. n \in Nat /\ n - skippedRun \in 0 .. n
  BY DEF TypeOK, CollarTail
<1>2. ASSUME NEW x \in HeardBlocks PROVE x \in 1 .. n - skippedRun
  <2>1. x \in 1 .. n /\ HeardOf(decisions, n, x)
    BY HeardIs DEF HeardBlocks
  <2>2. ~(x \in n - skippedRun + 1 .. n)
    <3>1. \A y \in n - skippedRun + 1 .. n : ~decisions[y]
      BY DEF SleepInv
    <3> QED BY <1>1, <2>1, <3>1, AsleepUnheard
  <2> QED BY <1>1, <2>1, <2>2
<1> QED BY <1>1, <1>2

(* A skipped block changes nothing but the length of the sleep.            *)
LEMMA SkipStep ==
  ASSUME TypeOK, CollarTail, SleepInv, NEW D, NEW E, D = decisions, E = decisions',
         Extends(E, D, n), n' = n + 1, skippedRun' = skippedRun + 1,
         ~E[n + 1], n < MaxBlocks, Gated
  PROVE  /\ SleepInv' /\ n' - skippedRun' = n - skippedRun
         /\ HeardBlocks' = HeardBlocks /\ SkippedBlocks' = SkippedBlocks \cup {n + 1}
<1> DEFINE a == n - skippedRun
<1>1. n \in Nat /\ skippedRun \in Nat /\ a \in 0 .. n /\ n' - skippedRun' = a
      /\ MaxBlocks \in Nat
  BY HeardBefore, CollarAssumption DEF TypeOK
<1>4. Len(D) = n /\ (\A y \in a + 1 .. n : ~D[y]) /\ (a = 0 \/ D[a])
  BY DEF SleepInv
<1> HIDE DEF a
<1>5. E \in Seq(BOOLEAN) /\ Len(E) = n + 1 /\ \A y \in 1 .. n : E[y] = D[y]
  BY DEF Extends
<1>6. (\A y \in a + 1 .. n + 1 : ~E[y]) /\ (a = 0 \/ E[a])
  BY <1>1, <1>4, <1>5
<1>7. SleepInv'
  BY <1>1, <1>5, <1>6 DEF SleepInv, a
<1>8. \A x \in 1 .. n + 1 : HeardOf(E, n + 1, x) <=> x \in 1 .. n /\ HeardOf(D, n, x)
  <2> SUFFICES ASSUME NEW x \in 1 .. n + 1
               PROVE  HeardOf(E, n + 1, x) <=> x \in 1 .. n /\ HeardOf(D, n, x)
    OBVIOUS
  <2>1. CASE x <= a
    <3>1. x \in 1 .. a /\ x \in 1 .. n
      BY <1>1, <2>1
    <3> QED BY <1>1, <1>4, <3>1, HeardStays
  <2>2. CASE ~(x <= a)
    <3>1. x \in a + 1 .. n + 1 /\ n + 1 \in Nat /\ a \in 0 .. n + 1
      BY <1>1, <2>2
    <3>2. ~HeardOf(E, n + 1, x)
      BY <1>6, <3>1, AsleepUnheard
    <3>3. x \in 1 .. n => x \in a + 1 .. n
      BY <1>1, <2>2
    <3>4. ~(x \in 1 .. n /\ HeardOf(D, n, x))
      BY <1>1, <1>4, <3>3, AsleepUnheard
    <3> QED BY <3>2, <3>4
  <2> QED BY <2>1, <2>2
<1>9. HeardBlocks = {x \in 1 .. n : HeardOf(D, n, x)}
  BY HeardIs, Zenon DEF HeardBlocks
<1>10. HeardBlocks' = {x \in 1 .. n + 1 : HeardOf(E, n + 1, x)}
  <2>1. \A x : Heard(x)' <=> HeardOf(E, n + 1, x)
    BY Zenon DEF Heard, HeardOf, SleepEnd, SleepEndOf, SleepStart, SleepStartOf
  <2> QED BY <2>1, Zenon DEF HeardBlocks
<1>11. HeardBlocks' = HeardBlocks
  BY <1>1, <1>8, <1>9, <1>10
<1>12. SkippedBlocks' = SkippedBlocks \cup {n + 1}
  <2>1. SkippedBlocks' = {x \in 1 .. n + 1 : ~E[x]}
    BY DEF SkippedBlocks
  <2>2. SkippedBlocks = {x \in 1 .. n : ~D[x]}
    BY DEF SkippedBlocks
  <2> QED BY <1>1, <1>5, <2>1, <2>2
<1> QED BY <1>1, <1>7, <1>11, <1>12 DEF a

(* A decoded block ends the sleep: all of it is heard, or what the collar  *)
(* still holds behind its warm-up.                                         *)
LEMMA WakeStep ==
  ASSUME TypeOK, CollarTail, SleepInv, NEW D, NEW E, D = decisions, E = decisions',
         Extends(E, D, n), n' = n + 1, skippedRun' = 0,
         E[n + 1], n < MaxBlocks
  PROVE  /\ SleepInv' /\ SkippedBlocks' = SkippedBlocks
         /\ skippedRun <= Collar =>
              HeardBlocks' = (HeardBlocks \cup (n - skippedRun + 1 .. n)) \cup {n + 1}
         /\ skippedRun > Collar =>
              HeardBlocks' = (HeardBlocks \cup (n - Collar + Warmup + 1 .. n)) \cup {n + 1}
<1> DEFINE a == n - skippedRun
<1>1. n \in Nat /\ skippedRun \in Nat /\ a \in 0 .. n /\ n - a = skippedRun
      /\ MaxBlocks \in Nat /\ Collar \in Nat /\ Warmup \in Nat /\ Warmup < Collar
  BY HeardBefore, CollarAssumption DEF TypeOK
<1>4. Len(D) = n /\ (\A y \in a + 1 .. n : ~D[y]) /\ (a = 0 \/ D[a])
  BY DEF SleepInv
<1> HIDE DEF a
<1>5. E \in Seq(BOOLEAN) /\ Len(E) = n + 1 /\ \A y \in 1 .. n : E[y] = D[y]
  BY DEF Extends
<1>7. SleepInv'
  <2>1. n' <= MaxBlocks /\ n' - skippedRun' = n + 1 /\ n' - skippedRun' + 1 .. n' = {}
    BY <1>1
  <2>2. decisions' \in Seq(BOOLEAN) /\ Len(decisions') = n' /\ decisions'[n + 1]
    BY <1>5
  <2> QED BY <2>1, <2>2 DEF SleepInv
<1>8. /\ \A x \in 1 .. a : HeardOf(E, n + 1, x) <=> HeardOf(D, n, x)
      /\ \A x \in a + 1 .. n : HeardOf(E, n + 1, x) <=>
                                 (skippedRun <= Collar \/ x > n - Collar + Warmup)
      /\ HeardOf(E, n + 1, n + 1)
  <2>1. ASSUME NEW x \in 1 .. a PROVE HeardOf(E, n + 1, x) <=> HeardOf(D, n, x)
    BY <1>1, <1>4, HeardStays
  <2>2. ASSUME NEW x \in a + 1 .. n
        PROVE  HeardOf(E, n + 1, x) <=> (skippedRun <= Collar \/ x > n - Collar + Warmup)
    BY <1>1, <1>4, WakeHears
  <2>3. HeardOf(E, n + 1, n + 1)
    BY DEF HeardOf
  <2> QED BY <2>1, <2>2, <2>3
<1>9. HeardBlocks = {x \in 1 .. a : HeardOf(D, n, x)}
  <2>1. HeardBlocks = {x \in 1 .. n : HeardOf(D, n, x)}
    BY HeardIs, Zenon DEF HeardBlocks
  <2>2. HeardBlocks \in SUBSET (1 .. a)
    BY HeardBefore DEF a
  <2> QED BY <1>1, <2>1, <2>2
<1>10. HeardBlocks' = {x \in 1 .. n + 1 : HeardOf(E, n + 1, x)}
  <2>1. \A x : Heard(x)' <=> HeardOf(E, n + 1, x)
    BY Zenon DEF Heard, HeardOf, SleepEnd, SleepEndOf, SleepStart, SleepStartOf
  <2> QED BY <2>1, Zenon DEF HeardBlocks
<1>11. ASSUME skippedRun <= Collar
       PROVE  HeardBlocks' = (HeardBlocks \cup (a + 1 .. n)) \cup {n + 1}
  BY <1>1, <1>8, <1>9, <1>10, <1>11
<1>12. ASSUME skippedRun > Collar
       PROVE  HeardBlocks' = (HeardBlocks \cup (n - Collar + Warmup + 1 .. n)) \cup {n + 1}
  <2>1. n - Collar + Warmup + 1 > a
    BY <1>1, <1>12
  <2> QED BY <1>1, <1>8, <1>9, <1>10, <1>12, <2>1
<1>13. SkippedBlocks' = SkippedBlocks
  <2>1. SkippedBlocks' = {x \in 1 .. n + 1 : ~E[x]}
    BY DEF SkippedBlocks
  <2>2. SkippedBlocks = {x \in 1 .. n : ~D[x]}
    BY DEF SkippedBlocks
  <2> QED BY <1>1, <1>5, <2>1, <2>2
<1> QED BY <1>7, <1>11, <1>12, <1>13 DEF a

LEMMA MoreThanWarm ==
  ASSUME NEW d, NEW p \in Int, NEW k \in Nat, k >= Warmup + 1, NEW H, NEW S,
         DecoderAt(d, p, k, H, S)
  PROVE  DecoderAt(d, p, Warmup + 1, H, S)
<1>1. WindowEnds(d.history, p, Warmup + 1)
  BY CollarAssumption DEF DecoderAt, WindowEnds
<1> QED BY <1>1 DEF DecoderAt

(* The decoder of the next state.                                          *)
LEMMA DecoderNext ==
  ASSUME UNCHANGED air, NEW e, NEW p, NEW k, NEW H, NEW S, DecoderAt(e, p, k, H, S),
         history' = e.history, prev' = e.prev, dutyPrev' = e.dutyPrev,
         out' = e.out, obs' = e.obs
  PROVE  DecoderAt(decoderState, p, k, H, S)'
<1>1. \A x : AudibleAt(x)' = AudibleAt(x)
  BY DEF AudibleAt
<1>2. LogEntries' = LogEntries
  BY DEF LogEntries
<1>3. LogExact(out, H, S)'
  BY <1>1, <1>2 DEF LogExact, DecoderAt
<1>4. WindowEnds(history, p, k)'
  BY DEF WindowEnds, DecoderAt
<1>5. prev' = IF p \in H THEN AudibleAt(p)' ELSE {}
  BY <1>1 DEF DecoderAt
<1>6. dutyPrev' = prev' /\ obs' = out'
  BY DEF DecoderAt
<1> QED BY <1>3, <1>4, <1>5, <1>6 DEF DecoderAt, decoderState

LEMMA SkippedSuperset ==
  ASSUME NEW d, NEW p, NEW k, NEW H, NEW S, NEW T, DecoderAt(d, p, k, H, S),
         \A y \in H : y \in S <=> y \in T
  PROVE  DecoderAt(d, p, k, H, T)
  BY DEF DecoderAt, LogExact

LEMMA HeardNext ==
  ASSUME TypeOK, CollarInv, HeardInv, NEW decode \in BOOLEAN, ProcessBlock(decode)
  PROVE  HeardInv'
<1> DEFINE a == n - skippedRun
<1>1. /\ n' = n + 1 /\ FinishBlock(n + 1, decode) /\ air' = air /\ n < MaxBlocks
      /\ decisions' = Append(decisions, decode) /\ (Gated \/ decode)
  BY BlockStep DEF ProcessBlock
<1>2. CollarTail /\ SleepInv /\ AirOK
  BY DEF CollarInv, HeardInv
<1>3. HeardBlocks \in SUBSET (1 .. a) /\ a \in 0 .. n /\ a \in Nat
  BY <1>2, HeardBefore DEF TypeOK
<1>4. n \in Nat /\ skippedRun \in Nat /\ n - a = skippedRun /\ a + skippedRun = n
      /\ Collar \in Nat /\ Warmup \in Nat /\ Warmup < Collar
  BY CollarAssumption DEF TypeOK
<1>5. PICK H : H = HeardBlocks
  OBVIOUS
<1>6. PICK S : S = SkippedBlocks
  OBVIOUS
<1>7. PICK D : D = decisions
  OBVIOUS
<1>8. PICK E : E = Append(D, decode) /\ E = decisions'
  BY <1>1, <1>7
<1>9. Extends(E, D, n) /\ (decode <=> E[n + 1])
  <2>1. D \in Seq(BOOLEAN) /\ Len(D) = n
    BY <1>2, <1>7 DEF SleepInv
  <2> QED BY <1>4, <1>8, <2>1, AppendExtends
<1>10. DecoderAt(decoderState, a, Warmup + 1, H, S)
  BY <1>5, <1>6 DEF HeardInv
<1>11. H \in SUBSET (1 .. a) /\ (a + 1 .. n) \subseteq S /\ n + 1 \notin S
  BY <1>2, <1>3, <1>4, <1>5, <1>6 DEF SleepInv, SkippedBlocks
<1>12. AirOK'
  BY <1>1, <1>2 DEF AirOK
<1>13. CASE ~decode
  <2>1. skippedRun' = skippedRun + 1
    BY <1>1, <1>13 DEF FinishBlock, SkippedRun
  <2>2. /\ SleepInv' /\ n' - skippedRun' = a
        /\ HeardBlocks' = H /\ SkippedBlocks' = S \cup {n + 1}
    BY <1>1, <1>2, <1>5, <1>6, <1>7, <1>8, <1>9, <1>13, <2>1, SkipStep
  <2>3. UNCHANGED decodeVars
    BY <1>13 DEF ProcessBlock, NeedsRebuild, decoderState, decodeVars
  <2>4. PICK T : T = S \cup {n + 1}
    OBVIOUS
  <2>5. DecoderAt(decoderState, a, Warmup + 1, H, T)
    <3>1. \A y \in H : y \in S <=> y \in T
      BY <1>3, <1>4, <1>11, <2>4
    <3> QED BY <1>10, <3>1, SkippedSuperset
  <2>6. PICK e : e = decoderState
    OBVIOUS
  <2>7. PICK p : p = a
    OBVIOUS
  <2>8. DecoderAt(decoderState, p, Warmup + 1, H, T)'
    <3>1. /\ history' = e.history /\ prev' = e.prev /\ dutyPrev' = e.dutyPrev
          /\ out' = e.out /\ obs' = e.obs
      BY <2>3, <2>6 DEF decodeVars, decoderState
    <3>2. DecoderAt(e, p, Warmup + 1, H, T)
      BY <2>5, <2>6, <2>7
    <3> QED BY <1>1, <3>1, <3>2, DecoderNext
  <2> QED BY <1>12, <2>2, <2>4, <2>7, <2>8 DEF HeardInv
<1>14. CASE decode
  <2> DEFINE rebuilt == IF NeedsRebuild(decode) THEN Rebuild(decoderState) ELSE decoderState
             R == IF skippedRun <= Collar THEN H \cup (a + 1 .. n)
                  ELSE H \cup (n - Collar + Warmup + 1 .. n)
  <2>1. skippedRun' = 0
    BY <1>1, <1>14 DEF FinishBlock, SkippedRun
  <2>2. /\ SleepInv' /\ SkippedBlocks' = S /\ HeardBlocks' = R \cup {n + 1}
    <3>1. /\ SleepInv' /\ SkippedBlocks' = SkippedBlocks
          /\ skippedRun <= Collar =>
               HeardBlocks' = (HeardBlocks \cup (n - skippedRun + 1 .. n)) \cup {n + 1}
          /\ skippedRun > Collar =>
               HeardBlocks' = (HeardBlocks \cup (n - Collar + Warmup + 1 .. n)) \cup {n + 1}
      BY <1>1, <1>2, <1>7, <1>8, <1>9, <1>14, <2>1, WakeStep
    <3> QED BY <1>4, <1>5, <1>6, <3>1
  <2>3. \E k \in Nat : k >= Warmup + 1 /\ DecoderAt(rebuilt, n, k, R, S)
    <3>1. CASE ~wasSkipped
      <4>1. skippedRun = 0 /\ a = n /\ R = H /\ rebuilt = decoderState
        BY <1>2, <1>4, <3>1 DEF CollarTail, NeedsRebuild
      <4>2. DecoderAt(rebuilt, n, Warmup + 1, R, S)
        BY <1>10, <4>1
      <4> QED BY <1>4, <4>2
    <3>2. CASE wasSkipped
      <4>1. skippedRun > 0 /\ Gated /\ rebuilt = Rebuild(decoderState)
        BY <1>2, <1>14, <3>2 DEF CollarTail, SleepInv, NeedsRebuild
      <4>2. CASE ShortReplay
        <5>1. skippedRun <= Collar /\ rebuilt = ReplayShort(decoderState)
          BY <1>4, <4>1, <4>2 DEF ShortReplay, Rebuild, TypeOK
        <5> QED BY <1>2, <1>3, <1>10, <1>11, <4>2, <5>1, ReplayShortExact
      <4>3. CASE ~ShortReplay
        <5>1. skippedRun > Collar
          <6>1. ASSUME skippedRun <= collarCount PROVE FALSE
            <7>1. \A k \in 1 .. skippedRun :
                    ~collar[CollarIndex(k)].decoded /\ collar[CollarIndex(k)].rawValid
              BY <1>2, <6>1 DEF CollarTail, TypeOK
            <7> QED BY <4>1, <4>3, <6>1, <7>1 DEF ShortReplay
          <6> QED BY <1>2, <1>4, <6>1 DEF CollarTail, TypeOK
        <5>2. rebuilt = ReplayAll(decoderState) /\ R = H \cup (n - Collar + Warmup + 1 .. n)
          BY <1>4, <4>1, <4>3, <5>1 DEF Rebuild
        <5>3. DecoderAt(rebuilt, n, Collar, R, S)
          BY <1>2, <1>3, <1>10, <1>11, <3>2, <4>3, <5>2, ReplayAllExact
        <5> QED BY <1>4, <5>3
      <4> QED BY <4>2, <4>3
    <3> QED BY <3>1, <3>2
  <2>4. PICK k \in Nat : k >= Warmup + 1 /\ DecoderAt(rebuilt, n, k, R, S)
    BY <2>3
  <2>5. R \in SUBSET (1 .. n)
    BY <1>3, <1>4, <1>11
  <2> HIDE DEF R
  <2>6. PICK e : e = DecodeBlock(rebuilt, n + 1, TRUE, FALSE)
    OBVIOUS
  <2>7. DecoderAt(e, n + 1, k + 1, R \cup {n + 1}, S)
    <3> HIDE DEF rebuilt
    <3>1. k >= Warmup /\ n \in Nat
      BY <1>4, <2>4
    <3>2. DecoderAt(DecodeBlock(rebuilt, n + 1, TRUE, FALSE), n + 1, k + 1, R \cup {n + 1}, S)
      BY <1>2, <1>11, <2>4, <2>5, <3>1, DecodeHeard
    <3> QED BY <2>6, <3>2
  <2>8. DecoderAt(e, n + 1, Warmup + 1, R \cup {n + 1}, S)
    BY <1>4, <2>4, <2>7, MoreThanWarm
  <2>9. /\ history' = e.history /\ prev' = e.prev /\ dutyPrev' = e.dutyPrev
        /\ out' = e.out /\ obs' = e.obs
    <3>1. ~(NeedsRebuild(decode) /\ ~ShortReplay /\ MissingRaw)
      BY RebuildHasRaw DEF CollarInv, NeedsRebuild
    <3> QED BY <1>14, <2>6, <3>1, Zenon DEF ProcessBlock
  <2>10. PICK p : p = n + 1
    OBVIOUS
  <2>11. PICK Q : Q = R \cup {n + 1}
    OBVIOUS
  <2>12. DecoderAt(decoderState, p, Warmup + 1, Q, S)'
    BY <1>1, <2>8, <2>9, <2>10, <2>11, DecoderNext
  <2>13. n' - skippedRun' = p
    BY <1>1, <1>4, <2>1, <2>10
  <2> QED BY <1>12, <2>2, <2>11, <2>12, <2>13 DEF HeardInv
<1> QED BY <1>13, <1>14

(* Init and the step make HeardInv an invariant.                           *)
THEOREM HeardInvariant == Spec => [](TypeOK /\ CollarInv /\ HeardInv)
<1>1. Init => HeardInv
  <2> SUFFICES ASSUME Init PROVE HeardInv
    OBVIOUS
  <2>1. AirOK
    <3>1. PICK b \in Transmissions, c \in Transmissions : air = {b, c}
      BY DEF Init
    <3>2. IsFiniteSet({b} \cup {c})
      BY FS_Singleton, FS_AddElement
    <3>3. air = {b} \cup {c}
      BY <3>1
    <3> QED BY <3>1, <3>2, <3>3 DEF AirOK
  <2>2. SleepInv
    BY CollarAssumption DEF Init, SleepInv
  <2>3. HeardBlocks = {} /\ SkippedBlocks = {}
    BY DEF Init, HeardBlocks, SkippedBlocks
  <2>4. LogExact(out, {}, {}) /\ obs = out
    BY DEF Init, LogExact
  <2>5. WindowEnds(history, 0, Warmup + 1)
    BY CollarAssumption DEF Init, WindowEnds
  <2>6. DecoderAt(decoderState, 0, Warmup + 1, {}, {})
    BY <2>4, <2>5 DEF Init, DecoderAt, decoderState
  <2>7. n - skippedRun = 0
    BY DEF Init
  <2> QED BY <2>1, <2>2, <2>3, <2>6, <2>7 DEF HeardInv
<1>2. TypeOK /\ CollarInv /\ HeardInv /\ [Next]_vars => HeardInv'
  <2> SUFFICES ASSUME TypeOK, CollarInv, HeardInv, [Next]_vars PROVE HeardInv'
    OBVIOUS
  <2>1. CASE Next
    BY <2>1, HeardNext DEF Next
  <2>2. CASE UNCHANGED vars
    <3>1. /\ air' = air /\ n' = n /\ skippedRun' = skippedRun /\ decisions' = decisions
          /\ history' = history /\ prev' = prev /\ dutyPrev' = dutyPrev
          /\ out' = out /\ obs' = obs
      BY <2>2 DEF vars, collarVars, decodeVars
    <3>2. AirOK' /\ SleepInv'
      BY <3>1 DEF HeardInv, AirOK, SleepInv
    <3>3. PICK H : H = HeardBlocks
      OBVIOUS
    <3>4. PICK S : S = SkippedBlocks
      OBVIOUS
    <3>5. HeardBlocks' = H /\ SkippedBlocks' = S
      BY <3>1, <3>3, <3>4 DEF HeardBlocks, SkippedBlocks, Heard, SleepEnd, SleepStart
    <3>6. PICK e : e = decoderState
      OBVIOUS
    <3>7. PICK p : p = n - skippedRun
      OBVIOUS
    <3>8. DecoderAt(e, p, Warmup + 1, H, S)
      BY <3>3, <3>4, <3>6, <3>7 DEF HeardInv
    <3>9. DecoderAt(decoderState, p, Warmup + 1, H, S)'
      BY <3>1, <3>6, <3>8, DecoderNext DEF decoderState
    <3>10. n' - skippedRun' = p
      BY <3>1, <3>7
    <3> QED BY <3>2, <3>5, <3>9, <3>10 DEF HeardInv
  <2> QED BY <2>1, <2>2
<1> QED BY <1>1, <1>2, CollarInvariant, PTL DEF Spec

LEMMA CountOfLog ==
  ASSUME NEW m, NEW H, NEW S, NEW log, LogExact(log, H, S), m \in air
  PROVE  Count(log, m) = IF \E x \in H : m \in AudibleAt(x) THEN 1 ELSE 0
<1> DEFINE I == {i \in DOMAIN log : log[i].msg = m}
<1>1. DOMAIN log \subseteq Nat
  BY DEF LogExact
<1>2. CASE \E x \in H : m \in AudibleAt(x)
  <2>1. PICK i \in DOMAIN log : log[i].msg = m
    BY <1>2 DEF LogExact
  <2>2. \A j \in DOMAIN log : log[j].msg = m => j = i
    <3> SUFFICES ASSUME NEW j \in DOMAIN log, log[j].msg = m, j # i PROVE FALSE
      OBVIOUS
    <3>1. i \in Nat /\ j \in Nat
      BY <1>1
    <3> QED BY <2>1, <3>1 DEF LogExact
  <2>3. I = {i}
    BY <2>1, <2>2
  <2>4. Cardinality(I) = 1
    BY <2>3, FS_Singleton
  <2> QED BY <1>2, <2>4 DEF Count
<1>3. CASE ~\E x \in H : m \in AudibleAt(x)
  <2>1. I = {}
    BY <1>3 DEF LogExact
  <2>2. Cardinality(I) = 0
    BY <2>1, FS_EmptySet
  <2> QED BY <1>3, <2>2 DEF Count
<1> QED BY <1>2, <1>3

LEMMA HeardCounts ==
  ASSUME TypeOK, CollarInv, HeardInv
  PROVE  PublishedExactlyOnce /\ EscapesReported
<1>1. /\ LogExact(out, HeardBlocks, SkippedBlocks) /\ obs = out
  BY DEF HeardInv, DecoderAt, decoderState
<1>2. ASSUME NEW m \in air
      PROVE  (\E x \in HeardBlocks : m \in AudibleAt(x)) <=> (\E x \in Audible(m) : Heard(x))
  <2>1. m.block \in Int /\ n \in Nat /\ n <= MaxBlocks /\ MaxBlocks \in Nat
    BY CollarAssumption DEF HeardInv, AirOK, Transmissions, Blocks, TypeOK, SleepInv
  <2>2. \A x : x \in HeardBlocks /\ m \in AudibleAt(x) <=> x \in Audible(m) /\ Heard(x)
    <3> SUFFICES ASSUME NEW x
                 PROVE  x \in HeardBlocks /\ m \in AudibleAt(x) <=> x \in Audible(m) /\ Heard(x)
      OBVIOUS
    <3>1. x \in HeardBlocks <=> x \in 1 .. n /\ Heard(x)
      BY DEF HeardBlocks
    <3>2. x \in 1 .. n => (m \in AudibleAt(x) <=> x \in Audible(m))
      BY <2>1 DEF AudibleAt, Audible, Blocks
    <3>3. x \in Audible(m) => x \in 1 .. n
      BY <2>1 DEF Audible, Blocks
    <3> QED BY <3>1, <3>2, <3>3
  <2> QED BY <2>2
<1>3. PublishedExactlyOnce
  <2> SUFFICES ASSUME NEW m \in air
               PROVE  Count(out, m) = IF \E x \in Audible(m) : Heard(x) THEN 1 ELSE 0
    BY DEF PublishedExactlyOnce
  <2>1. Count(out, m) = IF \E x \in HeardBlocks : m \in AudibleAt(x) THEN 1 ELSE 0
    BY <1>1, CountOfLog
  <2> QED BY <1>2, <2>1
<1>4. EscapesReported
  <2>1. \A m \in air : Count(obs, m) = Count(out, m)
    BY <1>1
  <2>2. \A i \in DOMAIN obs : obs[i].escaped <=> ~decisions[obs[i].at]
    <3> SUFFICES ASSUME NEW i \in DOMAIN obs PROVE obs[i].escaped <=> ~decisions[obs[i].at]
      OBVIOUS
    <3>1. obs[i].at \in HeardBlocks /\ (obs[i].escaped <=> obs[i].at \in SkippedBlocks)
      BY <1>1 DEF LogExact
    <3>2. obs[i].at \in 1 .. n
      BY <3>1 DEF HeardBlocks
    <3> QED BY <3>1, <3>2 DEF SkippedBlocks
  <2>3. \A i, j \in DOMAIN obs : i < j => obs[i].at <= obs[j].at
    BY <1>1 DEF LogExact
  <2> QED BY <2>1, <2>2, <2>3 DEF EscapesReported
<1> QED BY <1>3, <1>4

(* For every collar, every warm-up longer than nothing, every sequence of  *)
(* scheduler decisions and every pair of transmissions: a transmission in  *)
(* a decoded block, or in a skipped one that the collar still held behind  *)
(* its warm-up when the decoder woke, is printed exactly once by           *)
(* processDecodedMessages, and no other is.                                *)
THEOREM PublishedExactlyOnceThm == Spec => []PublishedExactlyOnce
<1>1. TypeOK /\ CollarInv /\ HeardInv => PublishedExactlyOnce
  BY HeardCounts
<1> QED BY <1>1, HeardInvariant, PTL

(* The scheduler is told of the same transmissions, once, as escapes       *)
(* exactly when their block had been skipped, and in stream order.         *)
THEOREM EscapesReportedThm == Spec => []EscapesReported
<1>1. TypeOK /\ CollarInv /\ HeardInv => EscapesReported
  BY HeardCounts
<1> QED BY <1>1, HeardInvariant, PTL
=============================================================================
