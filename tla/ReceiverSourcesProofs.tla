----------------------- MODULE ReceiverSourcesProofs ------------------------
(***************************************************************************)
(* Proofs about the receiver, for every ring size, collar length and batch *)
(* size it accepts: first about KernelReceiver, the receiver on the        *)
(* driver's ring, then about ReceiverSources, where each source keeps in   *)
(* the composition what was proved of it alone.                            *)
(***************************************************************************)
EXTENDS ReceiverSources, SequenceTheorems, TLAPS

(* What dividing by the batch size means.                                  *)
LEMMA Division ==
  ASSUME NEW a \in Nat
  PROVE  /\ BatchOf(a) \in Nat
         /\ BatchOf(a) * BatchBlocks <= a
         /\ a < BatchOf(a) * BatchBlocks + BatchBlocks
  BY ReceiverAssumption DEF BatchOf

LEMMA Distribute ==
  ASSUME NEW a \in Int, NEW b \in Int
  PROVE  /\ (a + b) * BatchBlocks = a * BatchBlocks + b * BatchBlocks
         /\ (a - b) * BatchBlocks = a * BatchBlocks - b * BatchBlocks
  BY ReceiverAssumption

LEMMA OneBatch ==
  ASSUME NEW a \in Int
  PROVE  /\ a * BatchBlocks \in Int
         /\ (a + 1) * BatchBlocks = a * BatchBlocks + BatchBlocks
         /\ (a - 1) * BatchBlocks = a * BatchBlocks - BatchBlocks
  BY ReceiverAssumption

LEMMA Monotone ==
  ASSUME NEW a \in Int, NEW b \in Int, a <= b
  PROVE  a * BatchBlocks <= b * BatchBlocks
<1>1. (b - a) * BatchBlocks >= 0
  BY ReceiverAssumption
<1> QED BY <1>1, Distribute, OneBatch, ReceiverAssumption

(* A block belongs to the batches its position lies between.               *)
LEMMA BatchBounds ==
  ASSUME NEW b \in Nat, NEW low \in Nat, NEW high \in Nat,
         low * BatchBlocks <= b, b < high * BatchBlocks
  PROVE  low <= BatchOf(b) /\ BatchOf(b) < high
<1> DEFINE q == BatchOf(b)
<1>1. q \in Nat /\ q * BatchBlocks <= b /\ b < q * BatchBlocks + BatchBlocks
  BY Division
<1> HIDE DEF q
<1>2. ASSUME q + 1 <= low PROVE FALSE
  <2>1. (q + 1) * BatchBlocks <= low * BatchBlocks
    BY <1>1, <1>2, Monotone
  <2> QED BY <2>1, <1>1, OneBatch, ReceiverAssumption
<1>3. ASSUME high <= q PROVE FALSE
  <2>1. high * BatchBlocks <= q * BatchBlocks
    BY <1>1, <1>3, Monotone
  <2> QED BY <2>1, <1>1, OneBatch, ReceiverAssumption
<1>4. low <= q /\ q < high
  BY <1>1, <1>2, <1>3
<1> QED BY <1>4 DEF q

(* The batches main.go asks the source to retain cover the collar.         *)
LEMMA RetainCovers ==
  RetainBatches \in Nat /\ Collar <= RetainBatches * BatchBlocks
<1> DEFINE a == Collar + BatchBlocks - 1
<1>1. a \in Nat
  BY ReceiverAssumption
<1>2. RetainBatches = BatchOf(a)
  BY DEF BatchOf, RetainBatches
<1>3. BatchOf(a) \in Nat /\ a < BatchOf(a) * BatchBlocks + BatchBlocks
  BY <1>1, Division
<1>4. BatchOf(a) * BatchBlocks \in Int
  BY <1>3, OneBatch
<1> QED BY <1>2, <1>3, <1>4, ReceiverAssumption

-----------------------------------------------------------------------------
(* The collar after finishBlock: one entry more, or the oldest replaced.   *)
LEMMA RetainEntry ==
  ASSUME NEW entries \in Seq(Entries), NEW entry \in Entries, Len(entries) <= Collar
  PROVE  LET result == Retain(entries, entry)
         IN /\ result \in Seq(Entries)
            /\ Len(result) <= Collar /\ Len(result) <= Len(entries) + 1
            /\ \A i \in 1 .. Len(result) :
                 result[i] = IF i = Len(result) THEN entry
                             ELSE entries[Len(entries) + 1 - Len(result) + i]
<1>1. CASE Collar = 0
  BY <1>1 DEF Retain
<1>2. CASE Collar # 0 /\ Len(entries) < Collar
  BY <1>2, ReceiverAssumption DEF Retain
<1>3. CASE Collar # 0 /\ Len(entries) = Collar
  <2>1. entries # <<>> /\ Len(Tail(entries)) = Len(entries) - 1
        /\ \A i \in 1 .. Len(entries) - 1 : Tail(entries)[i] = entries[i + 1]
    BY <1>3, ReceiverAssumption
  <2>2. Retain(entries, entry) = Append(Tail(entries), entry)
    BY <1>3, ReceiverAssumption DEF Retain
  <2> QED BY <1>3, <2>1, <2>2, ReceiverAssumption
<1> QED BY <1>1, <1>2, <1>3, ReceiverAssumption

(* The retained batches after one more, and without the oldest.            *)
LEMMA QueueEntry ==
  ASSUME NEW q \in Seq(Nat), NEW c \in Nat
  PROVE  /\ Append(q, c) \in Seq(Nat) /\ Len(Append(q, c)) = Len(q) + 1
         /\ \A i \in 1 .. Len(q) + 1 :
              Append(q, c)[i] = IF i = Len(q) + 1 THEN c ELSE q[i]
         /\ Head(Append(q, c)) = IF Len(q) = 0 THEN c ELSE q[1]
         /\ Head(Append(q, c)) \in Nat
         /\ Tail(Append(q, c)) \in Seq(Nat) /\ Len(Tail(Append(q, c))) = Len(q)
         /\ \A i \in 1 .. Len(q) :
              Tail(Append(q, c))[i] = IF i = Len(q) THEN c ELSE q[i + 1]
<1>1. /\ Append(q, c) \in Seq(Nat) /\ Len(Append(q, c)) = Len(q) + 1
      /\ \A i \in 1 .. Len(q) + 1 :
           Append(q, c)[i] = IF i = Len(q) + 1 THEN c ELSE q[i]
  OBVIOUS
<1> DEFINE a == Append(q, c)
<1>2. a \in Seq(Nat) /\ Len(a) = Len(q) + 1 /\ Len(q) \in Nat
  BY <1>1
<1> HIDE DEF a
<1>3. Head(a) = a[1] /\ Tail(a) \in Seq(Nat) /\ Len(Tail(a)) = Len(q)
      /\ \A i \in 1 .. Len(q) : Tail(a)[i] = a[i + 1]
  BY <1>2
<1>4. Len(q) \in Nat /\ (Len(q) # 0 => q[1] \in Nat)
  OBVIOUS
<1>5. \A i \in 1 .. Len(q) + 1 : a[i] = IF i = Len(q) + 1 THEN c ELSE q[i]
  BY <1>1 DEF a
<1>6. Head(a) = IF Len(q) = 0 THEN c ELSE q[1]
  BY <1>3, <1>4, <1>5
<1>7. \A i \in 1 .. Len(q) : Tail(a)[i] = IF i = Len(q) THEN c ELSE q[i + 1]
  <2> TAKE i \in 1 .. Len(q)
  <2>1. Tail(a)[i] = a[i + 1]
    BY <1>3
  <2>2. i + 1 \in 1 .. Len(q) + 1 /\ (i + 1 = Len(q) + 1 <=> i = Len(q))
    BY <1>4
  <2>3. a[i + 1] = IF i + 1 = Len(q) + 1 THEN c ELSE q[i + 1]
    BY <1>5, <2>2
  <2> QED BY <2>1, <2>2, <2>3
<1> QED BY <1>1, <1>3, <1>4, <1>6, <1>7 DEF a

LEMMA TypeStep ==
  ASSUME TypeOK, ReceiverInv, [Next]_vars
  PROVE  TypeOK'
<1> USE ReceiverAssumption
    DEF TypeOK, ringVars, sourceVars, mainVars, Ring!Slots
<1>1. CASE CheckContext
  BY <1>1 DEF CheckContext, Exit
<1>2. CASE ExchangeRelease
  <2>1. released' \in Nat /\ UNCHANGED <<claimed, writable, stopped>>
    BY <1>2 DEF ExchangeRelease, Ring!GiveBack
  <2>2. pc' \in {"wait", "exited"} /\ failed' \in BOOLEAN
        /\ ctxDone' \in BOOLEAN /\ UNCHANGED <<closing, mapped>>
    BY <1>2 DEF ExchangeRelease, Exit
  <2> QED BY <1>2, <2>1, <2>2 DEF ExchangeRelease
<1>3. CASE ExchangeClaim
  BY <1>3 DEF ExchangeClaim, Ring!Take
<1>4. CASE ExchangeInvalid
  BY <1>4 DEF ExchangeInvalid, Ring!Take, Exit
<1>5. CASE ExchangeFails
  BY <1>5 DEF ExchangeFails, Exit
<1>6. ASSUME NEW decode \in BOOLEAN, ProcessBlock(decode)
      PROVE  TypeOK'
  <2>1. current \in Nat
    BY <1>6 DEF ProcessBlock, MoreBlocks, ReceiverInv, QueueInv
  <2>2. BlockNumber \in Nat
    BY <2>1 DEF BlockNumber
  <2>3. [block |-> BlockNumber, rawValid |-> ~decode] \in Entries
    BY <2>2 DEF Entries
  <2>4. collar' \in Seq(Entries)
    BY <1>6, <2>3, RetainEntry DEF ProcessBlock, MoreBlocks, ReceiverInv, CollarInv
  <2> QED BY <1>6, <2>4 DEF ProcessBlock, MoreBlocks
<1>7. CASE FinishBatch \/ AbortBatch
  <2>1. current \in Nat
    BY <1>7 DEF FinishBatch, AbortBatch, ReceiverInv, QueueInv
  <2>2. Append(held, current) \in Seq(Nat)
        /\ Head(Append(held, current)) \in Nat /\ Tail(Append(held, current)) \in Seq(Nat)
    BY <2>1, QueueEntry
  <2>3. held' \in Seq(Nat) /\ pending' \in Nat \cup {None}
        /\ current' \in Nat \cup {None} /\ failed' \in BOOLEAN
    BY <1>7, <2>2 DEF FinishBatch, AbortBatch, ReleaseBatch
  <2> QED BY <1>7, <2>3 DEF FinishBatch, AbortBatch, Exit
<1>8. CASE CloseBegin \/ CancelSource \/ WaitReader \/ CloseSource
  BY <1>8 DEF CloseBegin, CancelSource, WaitReader, CloseSource, Ring!Stop
<1>9. CASE Device \/ Unplug
  BY <1>9 DEF Device, Unplug, Ring!Device, Ring!Stop
<1>10. CASE UNCHANGED vars
  BY <1>10 DEF vars
<1> QED
  BY <1>1, <1>2, <1>3, <1>4, <1>5, <1>6, <1>7, <1>8, <1>9, <1>10
  DEF Next, ReaderStep, MainStep

-----------------------------------------------------------------------------
(* The contract of the driver keeps the device off the held slots.         *)
LEMMA ExclusiveStep ==
  ASSUME TypeOK, SlotsExclusive,
         Ring!Take \/ Ring!GiveBack \/ Ring!Device \/ Ring!Stop \/ UNCHANGED ringVars
  PROVE  SlotsExclusive'
<1> USE DEF SlotsExclusive, Ring!HeldSlots
<1>1. released \in Nat /\ claimed \in Nat
  BY DEF TypeOK
<1>2. CASE Ring!Take
  <2>1. \A q \in released' .. (claimed' - 1) : q \in released .. (claimed - 1) \/ q = claimed
    BY <1>1, <1>2 DEF Ring!Take
  <2> QED BY <1>2, <2>1 DEF Ring!Take
<1>3. CASE Ring!GiveBack
  <2>1. \A q \in released' .. (claimed' - 1) : q \in released .. (claimed - 1)
    BY <1>1, <1>3 DEF Ring!GiveBack
  <2> QED BY <1>3, <2>1 DEF Ring!GiveBack
<1>4. CASE Ring!Device
  BY <1>4 DEF Ring!Device
<1>5. CASE Ring!Stop \/ UNCHANGED ringVars
  BY <1>5 DEF Ring!Stop, ringVars
<1> QED BY <1>2, <1>3, <1>4, <1>5

(* While the reader runs, the retained batches cover the collar.           *)
LEMMA CollarCovered ==
  ASSUME TypeOK, QueueInv, CollarInv, pc # "exited"
  PROVE  CollarHeld
<1> SUFFICES ASSUME NEW i \in 1 .. Len(collar)
             PROVE  /\ released <= BatchOf(collar[i].block)
                    /\ BatchOf(collar[i].block) < claimed
  BY DEF CollarHeld
<1> DEFINE b == collar[i].block
<1>0. collar[i] \in Entries
  BY DEF TypeOK
<1>1. b \in Nat /\ released \in Nat /\ claimed \in Nat /\ Len(collar) \in Nat
      /\ Len(held) \in Nat /\ offset \in 0 .. BatchBlocks /\ Top \in Int
  BY <1>0 DEF TypeOK, Top, Entries
<1>2. b = Total - Len(collar) + i - 1 /\ Len(collar) <= Collar
  BY DEF CollarInv
<1>3. Top * BatchBlocks \in Int /\ claimed * BatchBlocks \in Int
      /\ (claimed - 1) * BatchBlocks = claimed * BatchBlocks - BatchBlocks
  BY <1>1, OneBatch, ReceiverAssumption
<1>4. Total \in Int /\ Top * BatchBlocks <= Total /\ Total <= claimed * BatchBlocks
  BY <1>1, <1>3, ReceiverAssumption DEF Total, Top
<1>5. b < claimed * BatchBlocks /\ Top * BatchBlocks - Collar <= b
  <2> DEFINE low == Top * BatchBlocks
  <2> DEFINE high == claimed * BatchBlocks
  <2>1. low \in Int /\ high \in Int
    BY <1>3
  <2>2. low <= Total /\ Total <= high /\ Total \in Int
    BY <1>4
  <2>3. Collar \in Nat
    BY ReceiverAssumption
  <2> HIDE DEF low, high, b
  <2>4. b < high /\ low - Collar <= b
    BY <1>1, <1>2, <2>1, <2>2, <2>3
  <2> QED BY <2>4 DEF low, high
<1>6. released * BatchBlocks <= b
  <2>1. CASE Len(held) < RetainBatches
    <3>1. released = 0
      BY <2>1 DEF QueueInv
    <3> QED BY <3>1, <1>1, ReceiverAssumption
  <2>2. CASE Len(held) = RetainBatches
    <3>1. released <= Top - RetainBatches
      BY <2>2, <1>1, RetainCovers DEF QueueInv
    <3>2. released * BatchBlocks <= (Top - RetainBatches) * BatchBlocks
      BY <3>1, <1>1, RetainCovers, Monotone
    <3>3. (Top - RetainBatches) * BatchBlocks
            = Top * BatchBlocks - RetainBatches * BatchBlocks
          /\ RetainBatches * BatchBlocks \in Int /\ released * BatchBlocks \in Int
      BY <1>1, RetainCovers, Distribute, OneBatch, ReceiverAssumption
    <3> QED BY <3>2, <3>3, <1>1, <1>3, <1>5, RetainCovers, ReceiverAssumption
  <2> QED BY <2>1, <2>2, <1>1, RetainCovers DEF QueueInv
<1> QED BY <1>1, <1>5, <1>6, BatchBounds

(* Each step of the reader keeps the queue and the collar in step.         *)
LEMMA QueueStep ==
  ASSUME TypeOK, ReceiverInv, [Next]_vars
  PROVE  QueueInv' /\ CollarInv'
<1> USE DEF ringVars, sourceVars, mainVars
<1>1. /\ released \in Nat /\ claimed \in Nat /\ Len(held) \in Nat
      /\ RetainBatches \in Nat /\ None \notin Nat
  BY RetainCovers, ReceiverAssumption DEF TypeOK
<1>2. ASSUME UNCHANGED <<released, claimed, held, pending, current, offset, collar>>,
             \/ pc' = pc
             \/ pc' = "exited"
             \/ pc = "check" /\ pc' = "exchange"
             \/ pc = "exchange" /\ pc' = "wait" /\ pending = None
      PROVE  QueueInv' /\ CollarInv'
  BY <1>2 DEF ReceiverInv, QueueInv, CollarInv, Top, Total
<1>3. ASSUME pc' = "exited" PROVE QueueInv' /\ CollarInv'
  BY <1>3 DEF QueueInv, CollarInv
<1>4. CASE CheckContext
  BY <1>4, <1>2, <1>3 DEF CheckContext, Exit
<1>5. CASE ExchangeRelease
  <2>1. CASE pending = None
    BY <1>5, <1>2, <2>1 DEF ExchangeRelease
  <2>2. CASE pending # None /\ pending = released
    <3>1. /\ pc' = "wait" /\ released' = released + 1
          /\ UNCHANGED <<claimed, held, pending, current, offset, collar>>
      BY <1>5, <2>2 DEF ExchangeRelease, Ring!GiveBack
    <3>2. QueueInv'
      BY <1>1, <1>5, <2>2, <3>1 DEF ExchangeRelease, ReceiverInv, QueueInv, Top
    <3>3. CollarInv'
      BY <1>5, <3>1 DEF ExchangeRelease, ReceiverInv, CollarInv, Total, Top
    <3> QED BY <3>2, <3>3
  <2>3. CASE pending # None /\ pending # released
    BY <1>5, <1>3, <2>3 DEF ExchangeRelease, Exit
  <2> QED BY <2>1, <2>2, <2>3
<1>6. CASE ExchangeClaim
  <2>1. /\ pc = "wait" /\ pc' = "process" /\ claimed' = claimed + 1 /\ pending' = None
        /\ current' = claimed /\ offset' = 0 /\ UNCHANGED <<released, held, collar>>
    BY <1>6 DEF ExchangeClaim, Ring!Take
  <2>2. QueueInv'
    BY <1>1, <2>1 DEF ReceiverInv, QueueInv, Top
  <2>3. Top' = Top /\ Total' = Total
    BY <1>1, <2>1, OneBatch DEF Total, Top
  <2>4. CollarInv'
    BY <2>1, <2>3 DEF ReceiverInv, CollarInv
  <2> QED BY <2>2, <2>4
<1>7. CASE ExchangeInvalid \/ ExchangeFails \/ AbortBatch
  BY <1>7, <1>3 DEF ExchangeInvalid, ExchangeFails, AbortBatch, Exit
<1>8. ASSUME NEW decode \in BOOLEAN, ProcessBlock(decode)
      PROVE  QueueInv' /\ CollarInv'
  <2>1. QueueInv'
    BY <1>8 DEF ProcessBlock, MoreBlocks, ReceiverInv, QueueInv, Top
  <2>2. current = Top /\ current \in Nat /\ offset \in Nat /\ Top' = Top
    BY <1>8 DEF ProcessBlock, MoreBlocks, TypeOK, ReceiverInv, QueueInv, Top
  <2>3. Top * BatchBlocks \in Int
    BY <2>2, OneBatch
  <2>4. BlockNumber = Total /\ Total' = Total + 1 /\ Total \in Int
    BY <1>8, <2>2, <2>3 DEF ProcessBlock, MoreBlocks, BlockNumber, Total
  <2> DEFINE entry == [block |-> BlockNumber, rawValid |-> ~decode]
  <2>5. entry \in Entries /\ entry.block = Total
    BY <2>2, <2>4, ReceiverAssumption DEF BlockNumber, Entries
  <2>6. /\ collar \in Seq(Entries) /\ Len(collar) <= Collar
        /\ \A i \in 1 .. Len(collar) : collar[i].block = Total - Len(collar) + i - 1
    BY <1>8 DEF TypeOK, ReceiverInv, CollarInv, ProcessBlock, MoreBlocks
  <2>7. collar' = Retain(collar, entry)
    BY <1>8 DEF ProcessBlock, MoreBlocks
  <2> HIDE DEF entry
  <2>8. /\ collar' \in Seq(Entries) /\ Len(collar') <= Collar /\ Len(collar') <= Len(collar) + 1
        /\ \A i \in 1 .. Len(collar') :
             collar'[i] = IF i = Len(collar') THEN entry
                          ELSE collar[Len(collar) + 1 - Len(collar') + i]
    BY <2>5, <2>6, <2>7, RetainEntry
  <2>9. ASSUME NEW i \in 1 .. Len(collar')
        PROVE  collar'[i].block = Total' - Len(collar') + i - 1
    <3>1. Len(collar) \in Nat /\ Len(collar') \in Nat
      BY <2>6, <2>8
    <3>2. CASE i = Len(collar')
      BY <2>4, <2>5, <2>8, <3>1, <3>2
    <3>3. CASE i # Len(collar')
      <4>1. Len(collar) + 1 - Len(collar') + i \in 1 .. Len(collar)
        BY <2>8, <3>1, <3>3
      <4>2. collar'[i] = collar[Len(collar) + 1 - Len(collar') + i]
        BY <2>8, <3>3
      <4>3. collar[Len(collar) + 1 - Len(collar') + i].block
              = Total - Len(collar) + (Len(collar) + 1 - Len(collar') + i) - 1
        BY <2>6, <4>1
      <4> QED BY <2>4, <3>1, <4>2, <4>3
    <3> QED BY <3>2, <3>3
  <2> QED BY <2>1, <2>8, <2>9 DEF CollarInv
<1>9. CASE FinishBatch
  <2>1. pc = "process" /\ pending = None /\ current = claimed - 1 /\ current \in Nat
        /\ offset = BatchBlocks /\ UNCHANGED <<released, claimed, offset, collar>>
    BY <1>9, <1>1 DEF FinishBatch, TypeOK, ReceiverInv, QueueInv, Top
  <2> DEFINE queue == Append(held, current)
  <2>2. /\ pc' = "check" /\ current' = None
        /\ IF Len(queue) <= RetainBatches
             THEN held' = queue /\ pending' = None
             ELSE held' = Tail(queue) /\ pending' = Head(queue)
    BY <1>9, <2>1 DEF FinishBatch, ReleaseBatch, ReceiverInv, NoReleaseRefused
  <2>3. /\ \A i \in 1 .. Len(held) : held[i] = claimed - 1 - Len(held) + i - 1
        /\ Len(held) <= RetainBatches /\ released = claimed - 1 - Len(held)
        /\ Len(held) < RetainBatches => released = 0
    BY <2>1 DEF ReceiverInv, QueueInv, Top
  <2>4. held \in Seq(Nat)
    BY DEF TypeOK
  <2>5. /\ Len(queue) = Len(held) + 1
        /\ \A i \in 1 .. Len(held) + 1 :
             queue[i] = IF i = Len(held) + 1 THEN current ELSE held[i]
        /\ Head(queue) = IF Len(held) = 0 THEN current ELSE held[1]
        /\ Head(queue) \in Nat
        /\ Len(Tail(queue)) = Len(held)
        /\ \A i \in 1 .. Len(held) :
             Tail(queue)[i] = IF i = Len(held) THEN current ELSE held[i + 1]
    BY <2>1, <2>4, QueueEntry
  <2> HIDE DEF queue
  <2>6. QueueInv'
    <3> SUFFICES /\ Len(held') <= RetainBatches
                 /\ \A i \in 1 .. Len(held') : held'[i] = claimed - Len(held') + i - 1
                 /\ pending' # None =>
                      Len(held') = RetainBatches /\ pending' = claimed - Len(held') - 1
                 /\ released = IF pending' # None THEN pending' ELSE claimed - Len(held')
                 /\ Len(held') < RetainBatches => released = 0
      BY <2>1, <2>2 DEF QueueInv, Top
    <3>1. CASE Len(queue) <= RetainBatches
      <4>1. held' = queue /\ pending' = None
        BY <2>2, <3>1
      <4>2. ASSUME NEW i \in 1 .. Len(held) + 1
            PROVE  queue[i] = claimed - (Len(held) + 1) + i - 1
        <5>1. CASE i = Len(held) + 1
          BY <1>1, <2>1, <2>5, <5>1
        <5>2. CASE i # Len(held) + 1
          <6>1. i \in 1 .. Len(held)
            BY <1>1, <5>2
          <6> QED BY <1>1, <2>3, <2>5, <5>2, <6>1
        <5> QED BY <5>1, <5>2
      <4>3. Len(held') = Len(held) + 1 /\ Len(held) < RetainBatches
        BY <1>1, <2>5, <3>1, <4>1
      <4>4. \A i \in 1 .. Len(held') : held'[i] = claimed - Len(held') + i - 1
        BY <4>1, <4>2, <4>3
      <4>5. released = claimed - Len(held') /\ released = 0
        BY <1>1, <2>3, <4>3
      <4> QED BY <1>1, <4>1, <4>3, <4>4, <4>5
    <3>2. CASE ~(Len(queue) <= RetainBatches)
      <4>1. held' = Tail(queue) /\ pending' = Head(queue) /\ Len(held) = RetainBatches
        BY <1>1, <2>2, <2>3, <2>5, <3>2
      <4>2. ASSUME NEW i \in 1 .. Len(held)
            PROVE  Tail(queue)[i] = claimed - Len(held) + i - 1
        <5>1. CASE i = Len(held)
          BY <1>1, <2>1, <2>5, <5>1
        <5>2. CASE i # Len(held)
          <6>1. i + 1 \in 1 .. Len(held)
            BY <1>1, <5>2
          <6>2. held[i + 1] = claimed - 1 - Len(held) + (i + 1) - 1
            BY <2>3, <6>1
          <6> QED BY <1>1, <2>5, <5>2, <6>2
        <5> QED BY <5>1, <5>2
      <4>3. Head(queue) = claimed - Len(held) - 1
        <5>1. CASE Len(held) = 0
          BY <1>1, <2>1, <2>5, <5>1
        <5>2. CASE Len(held) # 0
          <6>1. held[1] = claimed - 1 - Len(held) + 1 - 1
            BY <1>1, <2>3, <5>2
          <6> QED BY <1>1, <2>5, <5>2, <6>1
        <5> QED BY <5>1, <5>2
      <4>4. Len(held') = Len(held) /\ released = claimed - Len(held) - 1
        BY <1>1, <2>3, <2>5, <4>1
      <4>5. \A i \in 1 .. Len(held') : held'[i] = claimed - Len(held') + i - 1
        BY <4>1, <4>2, <4>4
      <4>6. pending' = released /\ pending' # None
        BY <1>1, <2>5, <4>1, <4>3, <4>4
      <4>7. Len(held') <= RetainBatches /\ Len(held') = RetainBatches
        BY <1>1, <4>1, <4>4
      <4>8. pending' = claimed - Len(held') - 1
        BY <4>4, <4>6
      <4>9. ~(Len(held') < RetainBatches)
        BY <1>1, <4>7
      <4> QED BY <4>5, <4>6, <4>7, <4>8, <4>9
    <3> QED BY <3>1, <3>2
  <2>7. (claimed - 1) * BatchBlocks = claimed * BatchBlocks - BatchBlocks
        /\ claimed * BatchBlocks \in Int
    BY <1>1, OneBatch, ReceiverAssumption
  <2>8. Total' = Total
    BY <2>1, <2>2, <2>7, ReceiverAssumption DEF Total, Top
  <2>9. CollarInv'
    BY <2>1, <2>2, <2>8 DEF ReceiverInv, CollarInv
  <2> QED BY <2>6, <2>9
<1>10. CASE CloseBegin \/ CancelSource \/ WaitReader \/ CloseSource
  BY <1>10, <1>2 DEF CloseBegin, CancelSource, WaitReader, CloseSource, Ring!Stop
<1>11. CASE Device \/ Unplug \/ UNCHANGED vars
  BY <1>11, <1>2 DEF Device, Unplug, Ring!Device, Ring!Stop, vars
<1> QED
  BY <1>4, <1>5, <1>6, <1>7, <1>8, <1>9, <1>10, <1>11
  DEF Next, ReaderStep, MainStep

(* Every step keeps the whole invariant.                                   *)
LEMMA ReceiverStep ==
  ASSUME TypeOK, ReceiverInv, [Next]_vars
  PROVE  ReceiverInv'
<1> USE DEF ringVars, sourceVars, mainVars
<1>1. QueueInv' /\ CollarInv'
  BY QueueStep
<1>2. SlotsExclusive'
  <2>1. Ring!Take \/ Ring!GiveBack \/ Ring!Device \/ Ring!Stop \/ UNCHANGED ringVars
    BY DEF Next, ReaderStep, MainStep, CheckContext, ExchangeRelease, ExchangeClaim,
       ExchangeInvalid, ExchangeFails, ProcessBlock, MoreBlocks, FinishBatch, AbortBatch,
       CloseBegin, CancelSource, WaitReader, CloseSource, Device, Unplug, vars
  <2> QED BY <2>1, ExclusiveStep DEF ReceiverInv
<1>3. CollarHeld'
  <2>1. CASE pc' # "exited"
    <3>1. TypeOK'
      BY TypeStep
    <3>2. (TypeOK /\ QueueInv /\ CollarInv /\ pc # "exited" => CollarHeld)'
      BY CollarCovered, PTL
    <3> QED BY <1>1, <2>1, <3>1, <3>2
  <2>2. CASE pc' = "exited"
    <3>1. released' = released /\ claimed' \in {claimed, claimed + 1} /\ collar' = collar
      BY <2>2 DEF Next, ReaderStep, MainStep, CheckContext, ExchangeRelease,
         ExchangeClaim, ExchangeInvalid, ExchangeFails, ProcessBlock, MoreBlocks, FinishBatch,
         AbortBatch, CloseBegin, CancelSource, WaitReader, CloseSource, Device,
         Unplug, vars, Exit, Ring!Take, Ring!Stop, Ring!Device
    <3>2. \A i \in 1 .. Len(collar) : BatchOf(collar[i].block) \in Nat
      <4> TAKE i \in 1 .. Len(collar)
      <4>1. collar[i] \in Entries
        BY DEF TypeOK
      <4> QED BY <4>1, Division DEF Entries
    <3>3. claimed \in Nat
      BY DEF TypeOK
    <3> QED BY <3>1, <3>2, <3>3 DEF ReceiverInv, CollarHeld, BatchOf
  <2> QED BY <2>1, <2>2
<1>4. CloseInv'
  BY DEF Next, ReaderStep, MainStep, CheckContext, ExchangeRelease, ExchangeClaim,
     ExchangeInvalid, ExchangeFails, ProcessBlock, MoreBlocks, FinishBatch, AbortBatch,
     CloseBegin, CancelSource, WaitReader, CloseSource, Device, Unplug, vars,
     Exit, ReceiverInv, CloseInv, TypeOK
<1>5. NoReleaseRefused'
  <2>1. CASE ExchangeRelease
    BY <2>1 DEF ExchangeRelease, ReceiverInv, QueueInv, NoReleaseRefused
  <2>2. CASE FinishBatch \/ AbortBatch
    BY <2>2 DEF FinishBatch, AbortBatch, ReleaseBatch, ReceiverInv, QueueInv,
       NoReleaseRefused
  <2>3. CASE UNCHANGED failed
    BY <2>3 DEF ReceiverInv, NoReleaseRefused
  <2> QED
    BY <2>1, <2>2, <2>3 DEF Next, ReaderStep, MainStep, CheckContext, ExchangeClaim,
       ExchangeInvalid, ExchangeFails, ProcessBlock, MoreBlocks, CloseBegin, CancelSource,
       WaitReader, CloseSource, Device, Unplug, vars
<1> QED BY <1>1, <1>2, <1>3, <1>4, <1>5 DEF ReceiverInv

LEMMA ReceiverInit == Init => TypeOK /\ ReceiverInv
<1> SUFFICES ASSUME Init PROVE TypeOK /\ ReceiverInv
  OBVIOUS
<1>1. TypeOK
  <2>1. held \in Seq(Nat) /\ collar \in Seq(Entries)
    BY DEF Init
  <2>2. released \in Nat /\ claimed \in Nat /\ offset \in 0 .. BatchBlocks
    BY ReceiverAssumption DEF Init, Ring!Init
  <2> QED BY <2>1, <2>2 DEF Init, Ring!Init, TypeOK
<1> USE ReceiverAssumption DEF Init, Ring!Init
<1>2. RetainBatches \in Nat /\ Len(held) = 0
  BY RetainCovers
<1>3. QueueInv
  <2>1. Top = 0
    BY DEF Top
  <2>2. \A i \in 1 .. Len(held) : FALSE
    BY <1>2
  <2>3. pc = "check" /\ current = None /\ pending = None /\ released = 0
    OBVIOUS
  <2> HIDE ReceiverAssumption DEF Init, Ring!Init
  <2>4. Len(held) <= RetainBatches
    BY <1>2
  <2>5. released = Top - Len(held)
    BY <1>2, <2>1, <2>3
  <2> QED BY <2>2, <2>3, <2>4, <2>5 DEF QueueInv
<1>4. CollarInv /\ CollarHeld
  BY DEF CollarInv, CollarHeld
<1>5. SlotsExclusive /\ CloseInv /\ NoReleaseRefused
  BY DEF SlotsExclusive, CloseInv, NoReleaseRefused
<1> QED BY <1>1, <1>3, <1>4, <1>5 DEF ReceiverInv

(* The state keeps its types, and the inductive invariant holds, in every  *)
(* behaviour of the receiver.                                              *)
THEOREM ReceiverInvariant == Spec => [](TypeOK /\ ReceiverInv)
<1>1. Init => TypeOK /\ ReceiverInv
  BY ReceiverInit
<1>2. TypeOK /\ ReceiverInv /\ [Next]_vars => (TypeOK /\ ReceiverInv)'
  BY TypeStep, ReceiverStep
<1> QED BY <1>1, <1>2, PTL DEF Spec

(* Zero-copy collar: for every collar length, batch size and ring size the *)
(* receiver accepts, a skipped block the collar may replay is in a slot    *)
(* the process still holds and the device cannot be writing to.            *)
THEOREM CollarOwnedThm == Spec => []CollarOwned
<1>1. TypeOK /\ ReceiverInv => CollarOwned
  <2> SUFFICES ASSUME TypeOK, ReceiverInv, NEW i \in DOMAIN collar
               PROVE  /\ released <= BatchOf(collar[i].block)
                      /\ BatchOf(collar[i].block) < claimed
                      /\ BatchOf(collar[i].block) % N \notin writable
    BY DEF CollarOwned
  <2>1. i \in 1 .. Len(collar) /\ collar[i] \in Entries
    BY DEF TypeOK
  <2> DEFINE q == BatchOf(collar[i].block)
  <2>2. q \in Nat /\ released <= q /\ q < claimed /\ released \in Nat /\ claimed \in Nat
    BY <2>1, Division DEF ReceiverInv, CollarHeld, Entries, TypeOK
  <2> HIDE DEF q
  <2>3. q % N \in Ring!HeldSlots
    BY <2>2 DEF Ring!HeldSlots
  <2>4. q % N \notin writable
    BY <2>3 DEF ReceiverInv, SlotsExclusive
  <2> QED BY <2>2, <2>4 DEF q
<1> QED BY <1>1, ReceiverInvariant, PTL

(* Releases are queued in the order the driver accepts them.               *)
THEOREM NoReleaseRefusedThm == Spec => []NoReleaseRefused
<1>1. TypeOK /\ ReceiverInv => NoReleaseRefused
  BY DEF ReceiverInv
<1> QED BY <1>1, ReceiverInvariant, PTL

(* The slot-count check of newDirectRTLSource is enough: the device always *)
(* has a slot to write to, two while the receiver waits.                   *)
THEOREM DeviceFedThm == Spec => []DeviceFed
<1>1. TypeOK /\ ReceiverInv => DeviceFed
  BY RetainCovers, ReceiverAssumption
  DEF ReceiverInv, QueueInv, DeviceFed, Top, TypeOK
<1> QED BY <1>1, ReceiverInvariant, PTL

(* The slots are unmapped only after the reader has ended.                 *)
THEOREM MappedWhileReadingThm == Spec => []MappedWhileReading
<1>1. TypeOK /\ ReceiverInv => MappedWhileReading
  BY DEF ReceiverInv, CloseInv, MappedWhileReading
<1> QED BY <1>1, ReceiverInvariant, PTL

-----------------------------------------------------------------------------
(* The composed receiver.                                                  *)

Ringed == INSTANCE DirectRingProofs WITH
  ctxDone <- threadDone, closing <- threadClosing, MaxBatches <- N + 1

(* The actions of the reader thread's ring are those DirectRingProofs is   *)
(* about.                                                                  *)
LEMMA SameReader == Thread!ReaderStep <=> Ringed!ReaderStep
  BY DEF Thread!ReaderStep, Ringed!ReaderStep, Thread!ReaderAcquire, Ringed!ReaderAcquire,
     Thread!ReadReturns, Ringed!ReadReturns, Thread!ReadAbandoned, Ringed!ReadAbandoned,
     Thread!ReadCompletes, Ringed!ReadCompletes, Thread!ReadFails, Ringed!ReadFails,
     Thread!ReaderEnds, Ringed!ReaderEnds, Thread!Broadcast, Ringed!Broadcast,
     Thread!NextSlot, Ringed!NextSlot, Thread!flagVars, Ringed!flagVars,
     Thread!countVars, Ringed!countVars, Thread!mainVars, Ringed!mainVars,
     Thread!ringVars, Ringed!ringVars

LEMMA SameReceiver == Thread!ReceiverStep <=> Ringed!ReceiverStep
  BY DEF Thread!ReceiverStep, Ringed!ReceiverStep, Thread!CheckContext, Ringed!CheckContext,
     Thread!TakeBatch, Ringed!TakeBatch, Thread!DiscardBatch, Ringed!DiscardBatch,
     Thread!FinishBatch, Ringed!FinishBatch, Thread!ReleaseSlot, Ringed!ReleaseSlot,
     Thread!FailNext, Ringed!FailNext, Thread!Exit, Ringed!Exit,
     Thread!Broadcast, Ringed!Broadcast,
     Thread!NextSlot, Ringed!NextSlot, Thread!flagVars, Ringed!flagVars,
     Thread!countVars, Ringed!countVars, Thread!mainVars, Ringed!mainVars,
     Thread!ringVars, Ringed!ringVars

LEMMA SameNext == Thread!Next <=> Ringed!Next
  BY SameReader, SameReceiver
  DEF Thread!Next, Ringed!Next, Thread!CloseBegin, Ringed!CloseBegin,
     Thread!MainStep, Ringed!MainStep, Thread!CancelSource, Ringed!CancelSource,
     Thread!WaitReceiver, Ringed!WaitReceiver, Thread!JoinAndFree, Ringed!JoinAndFree,
     Thread!MainStay, Ringed!MainStay, Thread!SpuriousWakeup, Ringed!SpuriousWakeup,
     Thread!Threads, Ringed!Threads,
     Thread!Broadcast, Ringed!Broadcast,
     Thread!flagVars, Ringed!flagVars,
     Thread!countVars, Ringed!countVars, Thread!mainVars, Ringed!mainVars,
     Thread!ringVars, Ringed!ringVars

LEMMA SameSafe == Thread!RingSafe <=> Ringed!RingSafe
  BY DEF Thread!RingSafe, Ringed!RingSafe, Thread!TypeOK, Ringed!TypeOK,
     Thread!InOrder, Ringed!InOrder, Thread!NoLostWakeup, Ringed!NoLostWakeup,
     Thread!NotBothAsleep, Ringed!NotBothAsleep, Thread!FreedUnused, Ringed!FreedUnused,
     Thread!ErrorsAreReal, Ringed!ErrorsAreReal, Thread!Slots, Ringed!Slots,
     Thread!Threads, Ringed!Threads

(* A behaviour of the composed receiver is one of the reader thread's ring *)
(* as far as the ring's variables go.                                      *)
THEOREM RunsThread == SourcesSpec => Ringed!Spec
<1>1. SourcesInit => Ringed!Init
  BY DEF SourcesInit, Thread!Init, Ringed!Init, Thread!Slots, Ringed!Slots
<1>2. [SourcesNext]_all => [Ringed!Next]_(Ringed!vars)
  <2> SUFFICES ASSUME [SourcesNext]_all PROVE [Ringed!Next]_(Ringed!vars)
    OBVIOUS
  <2>1. Thread!Next \/ UNCHANGED threadVars
    BY DEF SourcesNext, all, Opening, EarlyRead, ThreadFrame, KernelFrame, TcpFrame, Thread!Next
  <2>2. UNCHANGED threadVars => UNCHANGED Ringed!vars
    BY DEF threadVars, Ringed!vars, Ringed!ringVars, Ringed!flagVars, Ringed!countVars,
       Ringed!mainVars
  <2> QED BY <2>1, <2>2, SameNext
<1> QED BY <1>1, <1>2, PTL DEF SourcesSpec, Ringed!Spec

(* In the composed receiver too: the reader thread's ring delivers batches *)
(* in order, loses no wakeup and frees nothing in use.                     *)
THEOREM RingSafeThm == SourcesSpec => []RingSafe
<1>1. Ringed!RingAssumption
  BY SourcesAssumption DEF Thread!RingAssumption, Ringed!RingAssumption
<1>2. Ringed!Spec => []Ringed!RingSafe
  BY <1>1, Ringed!RingSafeThm
<1>3. RingSafe <=> Ringed!RingSafe
  BY SameSafe DEF RingSafe
<1> QED BY <1>2, <1>3, RunsThread, PTL

(* The receiver proved against BatchStream may run on this ring.           *)
THEOREM RingContractThm == SourcesSpec => RingContract
<1>1. Ringed!RingAssumption
  BY SourcesAssumption DEF Thread!RingAssumption, Ringed!RingAssumption
<1>2. Ringed!Spec => Ringed!Contract
  BY <1>1, Ringed!ContractThm
<1>3. Ringed!Contract => Thread!Contract
  <2>1. Ringed!Stream!Init => Thread!Stream!Init
    BY DEF Ringed!Stream!Init, Thread!Stream!Init, Ringed!Slots, Thread!Slots
  <2>2. [Ringed!Stream!Next]_(Ringed!Stream!streamVars)
         => [Thread!Stream!Next]_(Thread!Stream!streamVars)
    BY DEF Ringed!Stream!Next, Thread!Stream!Next, Ringed!Slots, Thread!Slots,
       Ringed!Stream!streamVars, Thread!Stream!streamVars,
       Ringed!Stream!Take, Thread!Stream!Take, Ringed!Stream!GiveBack, Thread!Stream!GiveBack,
       Ringed!Stream!Device, Thread!Stream!Device, Ringed!Stream!Stop, Thread!Stream!Stop,
       Ringed!Stream!Restart, Thread!Stream!Restart, Ringed!Stream!Slots, Thread!Stream!Slots,
       Ringed!Stream!HeldSlots, Thread!Stream!HeldSlots
  <2> QED BY <2>1, <2>2, PTL DEF Ringed!Contract, Thread!Contract, Ringed!Stream!Spec, Thread!Stream!Spec
<1> QED BY <1>2, <1>3, RunsThread, PTL DEF RingContract
-----------------------------------------------------------------------------
(* Opening and closing the SDR.                                            *)

OpenNames == {"alloc", "mutex", "cond", "device"}
ConfigNames ==
  {"xtalfreq", "freqcorrection", "samplerate", "centerfreq", "gainmode", "tunergain",
   "gainbyindex", "testmode", "agcmode", "directsampling", "offsettuning", "tunertype"}

\* Neither ring has been set up, or it has been undone.
NoRing ==
  /\ ~active /\ ~started /\ ~slotsPtr
  /\ slotCount = 0 /\ mappedSlots = 0 /\ buffers = 0

\* The driver streams into mapped slots.
KernelRingUp ==
  /\ active /\ started /\ ~slotsPtr /\ buffers = 0
  /\ resources = OpenNames \cup {"node", "tables", "streaming"}
  /\ slotCount >= RetainBatches + 2 /\ mappedSlots = slotCount

\* The reader thread fills allocated slots.
ThreadRingUp ==
  /\ ~active /\ started /\ slotsPtr
  /\ slotCount = 0 /\ mappedSlots = 0
  /\ resources = OpenNames \cup {"slots", "thread"}

(* What is held, and what the pointers and flags that rtlamr_direct_close  *)
(* tests say, at every step of opening.                                    *)
SetupInv ==
  /\ Setup!TypeOK /\ ~misused
  /\ at \in OpenNames => NoRing
  /\ at = "alloc" => resources = {}
  /\ at = "mutex" => resources = {"alloc"}
  /\ at = "cond" => resources = {"alloc", "mutex"}
  /\ at = "device" => resources = {"alloc", "mutex", "cond"}
  /\ at \in ConfigNames \cup {"reset", "attach", "slots", "abort"} =>
       NoRing /\ resources = OpenNames
  /\ at \in {"node", "info", "tables", "map", "start"} =>
       /\ active /\ ~started /\ ~slotsPtr /\ buffers = 0
       /\ resources = OpenNames \cup (IF at = "node" THEN {} ELSE {"node"})
                                \cup (IF at \in {"map", "start"} THEN {"tables"} ELSE {})
  /\ at \in {"tables", "map", "start"} => slotCount >= RetainBatches + 2
  /\ at \in {"node", "info", "tables"} => mappedSlots = 0
  /\ at \in {"node", "info"} => slotCount = 0
  /\ at = "map" => mappedSlots < slotCount
  /\ at = "start" => mappedSlots = slotCount
  /\ at = "adopt" => KernelRingUp
  /\ at \in {"buffers", "thread"} =>
       /\ ~active /\ ~started /\ slotsPtr /\ slotCount = 0 /\ mappedSlots = 0
       /\ resources = OpenNames \cup {"slots"}
  /\ at = "buffers" => buffers < N
  /\ at \in {"collar", "ready"} => KernelRingUp \/ ThreadRingUp
  /\ at = "ready" /\ borrowed => active
  /\ at \in {"failed", "closed"} => NoRing /\ resources = {}
  /\ Setup!ModuleOptional
  /\ at \in OpenNames \cup ConfigNames
            \cup {"reset", "attach", "slots", "abort", "node", "info", "tables", "map", "start",
                  "adopt", "buffers", "thread", "collar", "ready", "failed", "closed"}

(* The order of the steps.                                                 *)
LEMMA OpenOrder ==
  /\ Setup!Names(Setup!OpenSteps) = OpenNames
  /\ \A last :
       /\ Setup!After(Setup!OpenSteps, "alloc", last) = "mutex"
       /\ Setup!After(Setup!OpenSteps, "mutex", last) = "cond"
       /\ Setup!After(Setup!OpenSteps, "cond", last) = "device"
       /\ Setup!After(Setup!OpenSteps, "device", last) = last
  /\ Setup!Undone("alloc") = {} /\ Setup!Undone("mutex") = {"alloc"}
  /\ Setup!Undone("cond") = {"alloc", "mutex"}
  /\ Setup!Undone("device") = {"alloc", "mutex", "cond"}
<1> DEFINE s == Setup!OpenSteps
<1>1. /\ DOMAIN s = 1 .. 4 /\ Len(s) = 4
      /\ s[1] = "alloc" /\ s[2] = "mutex" /\ s[3] = "cond" /\ s[4] = "device"
  BY DEF Setup!OpenSteps
<1>2. /\ Setup!StepOf(s, "alloc") = 1 /\ Setup!StepOf(s, "mutex") = 2
      /\ Setup!StepOf(s, "cond") = 3 /\ Setup!StepOf(s, "device") = 4
  BY <1>1 DEF Setup!StepOf
<1>3. Setup!Names(s) = OpenNames
  BY <1>1 DEF Setup!Names, OpenNames
<1> QED BY <1>1, <1>2, <1>3 DEF Setup!After, Setup!Undone

LEMMA ConfigOrder ==
  /\ Setup!Names(Setup!ConfigSteps) = ConfigNames
  /\ Setup!ConfigSteps[1] \in ConfigNames
  /\ \A last : \A name \in ConfigNames :
       Setup!After(Setup!ConfigSteps, name, last) \in ConfigNames \cup {last}
<1> DEFINE s == Setup!ConfigSteps
<1>1. /\ DOMAIN s = 1 .. 12 /\ Len(s) = 12
      /\ s[1] = "xtalfreq" /\ s[2] = "freqcorrection" /\ s[3] = "samplerate"
      /\ s[4] = "centerfreq" /\ s[5] = "gainmode" /\ s[6] = "tunergain"
      /\ s[7] = "gainbyindex" /\ s[8] = "testmode" /\ s[9] = "agcmode"
      /\ s[10] = "directsampling" /\ s[11] = "offsettuning" /\ s[12] = "tunertype"
  BY DEF Setup!ConfigSteps
<1> HIDE DEF s
<1>2. Setup!Names(s) = ConfigNames
  BY <1>1 DEF Setup!Names, ConfigNames
<1>3. ASSUME NEW name \in ConfigNames, NEW last
      PROVE  Setup!After(s, name, last) \in ConfigNames \cup {last}
  <2>1. PICK i \in DOMAIN s : s[i] = name
    BY <1>2 DEF Setup!Names
  <2>2. Setup!StepOf(s, name) \in DOMAIN s /\ s[Setup!StepOf(s, name)] = name
    BY <2>1 DEF Setup!StepOf
  <2>3. \A k \in DOMAIN s : s[k] \in ConfigNames
    BY <1>2 DEF Setup!Names
  <2> QED BY <1>1, <2>2, <2>3 DEF Setup!After
<1> QED BY <1>1, <1>2, <1>3 DEF s, ConfigNames

(* Closing the source releases what is held, each once.                    *)
LEMMA CloseReleases ==
  ASSUME SetupInv, Setup!CloseSource,
         \/ NoRing /\ resources = OpenNames
         \/ KernelRingUp \/ ThreadRingUp
  PROVE  /\ NoRing' /\ resources' = {} /\ ~misused'
         /\ {attached', active', started', slotsPtr', misused'} \subseteq BOOLEAN
<1> USE DEF NoRing, OpenNames
<1>1. CASE NoRing /\ resources = OpenNames
  BY <1>1 DEF Setup!CloseSource, Setup!Release, Setup!ringVars, SetupInv, Setup!TypeOK
<1>2. CASE KernelRingUp
  BY <1>2 DEF KernelRingUp, Setup!CloseSource, Setup!KernelCleanup, Setup!Detached,
     Setup!Release, SetupInv, Setup!TypeOK
<1>3. CASE ThreadRingUp
  BY <1>3 DEF ThreadRingUp, Setup!CloseSource, Setup!Release, Setup!ringVars, SetupInv,
     Setup!TypeOK
<1> QED BY <1>1, <1>2, <1>3

LEMMA FailCloses ==
  ASSUME SetupInv, NEW name, Setup!FailClosed(name), NoRing, resources = OpenNames,
         name \notin Setup!KernelSteps \cup {"adopt"}
  PROVE  SetupInv'
<1>1. /\ NoRing' /\ resources' = {} /\ ~misused'
      /\ {attached', active', started', slotsPtr', misused'} \subseteq BOOLEAN
  BY CloseReleases DEF Setup!FailClosed
<1>2. /\ at' = "failed" /\ cause' = cause \cup {name}
      /\ UNCHANGED <<attempt, borrowed>>
  BY DEF Setup!FailClosed
<1>3. Setup!TypeOK'
  BY <1>1, <1>2, SourcesAssumption DEF SetupInv, Setup!TypeOK, NoRing, Setup!Resources,
     Thread!RingAssumption
<1>4. Setup!ModuleOptional'
  BY <1>2 DEF Setup!ModuleOptional
<1> QED BY <1>1, <1>2, <1>3, <1>4 DEF SetupInv, OpenNames, ConfigNames

(* Opening, configuring and resetting the device.                          *)
LEMMA OpenStep ==
  ASSUME SetupInv,
         \/ \E name \in Setup!Names(Setup!OpenSteps) :
              Setup!OpenStep(name) \/ Setup!OpenFails(name)
         \/ \E name \in Setup!Names(Setup!ConfigSteps) :
              Setup!Configure(name) \/ Setup!ConfigureFails(name)
         \/ Setup!Reset
  PROVE  SetupInv'
<1> USE DEF NoRing
<1>1. ASSUME NEW name \in OpenNames, Setup!OpenStep(name)
      PROVE  SetupInv'
  <2>1. /\ (name = "alloc" => at' = "mutex") /\ (name = "mutex" => at' = "cond")
        /\ (name = "cond" => at' = "device") /\ (name = "device" => at' \in ConfigNames)
    BY <1>1, OpenOrder, ConfigOrder DEF Setup!OpenStep
  <2>2. Setup!TypeOK' /\ Setup!ModuleOptional'
    BY <1>1, <2>1, OpenOrder DEF Setup!OpenStep, SetupInv, Setup!TypeOK, Setup!ModuleOptional,
       OpenNames, ConfigNames, Setup!Resources
  <2> QED BY <1>1, <2>1, <2>2 DEF Setup!OpenStep, SetupInv, OpenNames, ConfigNames
<1>2. ASSUME NEW name \in OpenNames, Setup!OpenFails(name)
      PROVE  SetupInv'
  <2>1. resources = Setup!Undone(name) /\ NoRing
    BY <1>2, OpenOrder DEF Setup!OpenFails, SetupInv, OpenNames
  <2>2. resources' = {} /\ misused' = FALSE /\ at' = "failed"
    BY <1>2, <2>1 DEF Setup!OpenFails, Setup!Release, SetupInv
  <2>3. Setup!TypeOK' /\ Setup!ModuleOptional'
    BY <1>2, <2>2 DEF Setup!OpenFails, Setup!ringVars, SetupInv, Setup!TypeOK, OpenNames,
       Setup!ModuleOptional, Setup!KernelSteps
  <2> QED BY <1>2, <2>1, <2>2, <2>3 DEF Setup!OpenFails, Setup!ringVars, SetupInv, OpenNames,
      ConfigNames
<1>3. ASSUME NEW name \in ConfigNames, Setup!Configure(name)
      PROVE  SetupInv'
  <2>1. at' \in ConfigNames \cup {"reset"}
    BY <1>3, ConfigOrder DEF Setup!Configure, Setup!AfterConfig
  <2>2. Setup!TypeOK' /\ Setup!ModuleOptional'
    BY <1>3, <2>1 DEF Setup!Configure, Setup!ringVars, SetupInv, Setup!TypeOK,
       Setup!ModuleOptional, ConfigNames
  <2> QED BY <1>3, <2>1, <2>2 DEF Setup!Configure, Setup!ringVars, SetupInv, OpenNames, ConfigNames
<1>4. ASSUME NEW name \in ConfigNames, Setup!ConfigureFails(name)
      PROVE  SetupInv'
  BY <1>4, FailCloses DEF Setup!ConfigureFails, SetupInv, ConfigNames, Setup!KernelSteps
<1>5. CASE Setup!Reset
  <2>1. at = "reset" /\ at' \in {"attach", "slots"}
    BY <1>5 DEF Setup!Reset
  <2>2. Setup!TypeOK' /\ Setup!ModuleOptional'
    BY <1>5, <2>1 DEF Setup!Reset, Setup!ringVars, SetupInv, Setup!TypeOK, Setup!ModuleOptional
  <2> QED BY <1>5, <2>1, <2>2 DEF Setup!Reset, Setup!ringVars, SetupInv, OpenNames, ConfigNames
<1> QED BY <1>1, <1>2, <1>3, <1>4, <1>5, OpenOrder, ConfigOrder

(* Setting up the kernel ring.                                             *)
LEMMA KernelStep ==
  ASSUME SetupInv,
         \/ Setup!Attach \/ Setup!OpenNode \/ Setup!RetryNode
         \/ (\E count \in SlotCounts : Setup!AcceptGeometry(count))
         \/ Setup!AllocTables \/ Setup!MapSlot \/ Setup!StartRing \/ Setup!AdoptRing
  PROVE  SetupInv'
<1> USE DEF NoRing, KernelRingUp, Setup!KernelStep, Setup!ringVars
<1>0. /\ Setup!TypeOK /\ RetainBatches \in Nat /\ Setup!RetainBatches = RetainBatches
      /\ SlotCounts \subseteq Nat /\ Attempts \in Nat
  BY SourcesAssumption, RetainCovers DEF SetupInv, Setup!RetainBatches, RetainBatches
<1>1. CASE Setup!Attach
  <2>1. Setup!TypeOK' /\ Setup!ModuleOptional'
    BY <1>0, <1>1 DEF Setup!Attach, SetupInv, Setup!TypeOK, Setup!ModuleOptional
  <2> QED BY <1>1, <2>1 DEF Setup!Attach, SetupInv, OpenNames, ConfigNames
<1>2. CASE Setup!OpenNode
  <2>1. Setup!TypeOK' /\ Setup!ModuleOptional'
    BY <1>0, <1>2 DEF Setup!OpenNode, SetupInv, Setup!TypeOK, Setup!ModuleOptional, Setup!Resources
  <2> QED BY <1>2, <2>1 DEF Setup!OpenNode, SetupInv, OpenNames, ConfigNames
<1>3. CASE Setup!RetryNode
  <2>1. Setup!TypeOK' /\ Setup!ModuleOptional'
    BY <1>0, <1>3 DEF Setup!RetryNode, SetupInv, Setup!TypeOK, Setup!ModuleOptional
  <2> QED BY <1>3, <2>1 DEF Setup!RetryNode, SetupInv, OpenNames, ConfigNames
<1>4. ASSUME NEW count \in SlotCounts, Setup!AcceptGeometry(count)
      PROVE  SetupInv'
  <2>1. Setup!TypeOK' /\ Setup!ModuleOptional'
    BY <1>0, <1>4 DEF Setup!AcceptGeometry, SetupInv, Setup!TypeOK, Setup!ModuleOptional
  <2> QED BY <1>0, <1>4, <2>1 DEF Setup!AcceptGeometry, SetupInv, OpenNames, ConfigNames
<1>5. CASE Setup!AllocTables
  <2>1. slotCount \in Nat /\ 0 < slotCount /\ mappedSlots = 0
    BY <1>0, <1>5 DEF Setup!AllocTables, SetupInv, Setup!TypeOK
  <2>2. Setup!TypeOK' /\ Setup!ModuleOptional'
    BY <1>0, <1>5 DEF Setup!AllocTables, SetupInv, Setup!TypeOK, Setup!ModuleOptional,
       Setup!Resources
  <2> QED BY <1>5, <2>1, <2>2 DEF Setup!AllocTables, SetupInv, OpenNames, ConfigNames
<1>6. CASE Setup!MapSlot
  <2>1. /\ slotCount \in Nat /\ mappedSlots \in Nat /\ mappedSlots < slotCount
        /\ mappedSlots' = mappedSlots + 1 /\ UNCHANGED slotCount
    BY <1>0, <1>6 DEF Setup!MapSlot, SetupInv, Setup!TypeOK
  <2>2. Setup!TypeOK' /\ Setup!ModuleOptional'
    BY <1>0, <1>6, <2>1 DEF Setup!MapSlot, SetupInv, Setup!TypeOK, Setup!ModuleOptional
  <2> QED BY <1>6, <2>1, <2>2 DEF Setup!MapSlot, SetupInv, OpenNames, ConfigNames
<1>7. CASE Setup!StartRing
  <2>1. Setup!TypeOK' /\ Setup!ModuleOptional'
    BY <1>0, <1>7 DEF Setup!StartRing, SetupInv, Setup!TypeOK, Setup!ModuleOptional,
       Setup!Resources
  <2> QED BY <1>7, <2>1 DEF Setup!StartRing, SetupInv, OpenNames, ConfigNames
<1>8. CASE Setup!AdoptRing
  <2>1. at = "adopt" /\ KernelRingUp
    BY <1>8 DEF Setup!AdoptRing, SetupInv
  <2>2. /\ at' = "collar"
        /\ UNCHANGED <<resources, slotsPtr, active, attached, slotCount, mappedSlots, started,
                       buffers, attempt, borrowed, cause, misused>>
    BY <1>0, <1>8, <2>1 DEF Setup!AdoptRing
  <2>3. Setup!TypeOK' /\ Setup!ModuleOptional'
    BY <1>0, <2>2 DEF Setup!TypeOK, Setup!ModuleOptional
  <2> QED BY <2>1, <2>2, <2>3 DEF SetupInv, OpenNames, ConfigNames
<1> QED BY <1>1, <1>2, <1>3, <1>4, <1>5, <1>6, <1>7, <1>8

(* A kernel step fails and the thread ring takes over, or fails too.       *)
LEMMA FallbackStep ==
  ASSUME SetupInv,
         \/ (\E name \in Setup!KernelSteps : Setup!KernelFails(name))
         \/ Setup!AllocSlots \/ Setup!AllocBuffer \/ Setup!CreateThread
         \/ (\E name \in Setup!StartSteps : Setup!StartFails(name))
         \/ Setup!StartAborted
  PROVE  SetupInv'
<1> USE DEF NoRing, ThreadRingUp, Setup!ringVars
<1>0. Setup!TypeOK /\ N \in Nat
  BY ReceiverAssumption DEF SetupInv
<1>1. ASSUME NEW name \in Setup!KernelSteps, Setup!KernelFails(name)
      PROVE  SetupInv'
  <2>1. /\ NoRing' /\ resources' = OpenNames /\ at' = "slots"
        /\ {attached', active', started', slotsPtr', misused'} \subseteq BOOLEAN
    <3>1. at = name /\ name \in {"attach", "node", "info", "tables", "map", "start"}
      BY <1>1 DEF Setup!KernelFails, Setup!KernelSteps
    <3>2. ~started /\ ~slotsPtr /\ buffers = 0 /\ resources \ {"node", "tables"} = OpenNames
      BY <3>1 DEF SetupInv, OpenNames
    <3>3. ~active' /\ slotCount' = 0 /\ mappedSlots' = 0 /\ {attached', active'} \subseteq BOOLEAN
      BY <1>0, <1>1, <3>1 DEF Setup!KernelFails, Setup!KernelCleanup, Setup!Detached, SetupInv,
         Setup!TypeOK
    <3> QED BY <1>0, <1>1, <3>2, <3>3 DEF Setup!KernelFails, Setup!TypeOK
  <2>2. Setup!TypeOK' /\ Setup!ModuleOptional'
    BY <1>0, <1>1, <2>1 DEF Setup!KernelFails, Setup!TypeOK, Setup!ModuleOptional
  <2> QED BY <1>1, <2>1, <2>2 DEF Setup!KernelFails, SetupInv, OpenNames, ConfigNames
<1>2. CASE Setup!AllocSlots
  <2>1. Setup!TypeOK' /\ Setup!ModuleOptional'
    BY <1>0, <1>2 DEF Setup!AllocSlots, SetupInv, Setup!TypeOK, Setup!ModuleOptional,
       Setup!Resources
  <2> QED BY <1>2, <2>1, SourcesAssumption DEF Setup!AllocSlots, SetupInv, OpenNames, ConfigNames,
          Thread!RingAssumption
<1>3. CASE Setup!AllocBuffer
  <2>1. buffers \in Nat /\ buffers < N /\ buffers' = buffers + 1
    BY <1>0, <1>3 DEF Setup!AllocBuffer, SetupInv, Setup!TypeOK
  <2>2. Setup!TypeOK' /\ Setup!ModuleOptional'
    BY <1>0, <1>3, <2>1 DEF Setup!AllocBuffer, SetupInv, Setup!TypeOK, Setup!ModuleOptional
  <2> QED BY <1>0, <1>3, <2>1, <2>2 DEF Setup!AllocBuffer, SetupInv, OpenNames, ConfigNames
<1>4. CASE Setup!CreateThread
  <2>1. Setup!TypeOK' /\ Setup!ModuleOptional'
    BY <1>0, <1>4 DEF Setup!CreateThread, SetupInv, Setup!TypeOK, Setup!ModuleOptional,
       Setup!Resources
  <2> QED BY <1>4, <2>1 DEF Setup!CreateThread, SetupInv, OpenNames, ConfigNames
<1>5. ASSUME NEW name \in {"buffers", "thread"}, Setup!StartFails(name)
      PROVE  SetupInv'
  <2>0. /\ resources' = resources \ {"slots"} /\ slotsPtr' = FALSE /\ buffers' = 0 /\ at' = "abort"
        /\ UNCHANGED <<active, attached, slotCount, mappedSlots, started, attempt, borrowed, misused>>
    BY <1>5 DEF Setup!StartFails, Setup!ResetPointer
  <2>1. Setup!TypeOK' /\ Setup!ModuleOptional'
    <3>1. resources' \subseteq Setup!Resources
      BY <1>0, <2>0 DEF Setup!TypeOK
    <3>2. /\ slotsPtr' \in BOOLEAN /\ active' \in BOOLEAN /\ started' \in BOOLEAN
          /\ attached' \in BOOLEAN /\ borrowed' \in BOOLEAN /\ misused' \in BOOLEAN
      BY <1>0, <2>0 DEF Setup!TypeOK
    <3>3. /\ slotCount' \in {0} \cup SlotCounts /\ mappedSlots' \in 0 .. slotCount'
          /\ buffers' \in 0 .. N /\ attempt' \in 0 .. (Attempts - 1)
      BY <1>0, <2>0 DEF Setup!TypeOK
    <3> QED BY <2>0, <3>1, <3>2, <3>3 DEF Setup!TypeOK, Setup!ModuleOptional
  <2> QED BY <1>5, <2>1 DEF Setup!StartFails, Setup!ResetPointer, SetupInv, OpenNames, ConfigNames
<1>6. ASSUME NEW name \in {"reset", "slots"}, Setup!StartFails(name)
      PROVE  SetupInv'
  BY <1>6, FailCloses DEF Setup!StartFails, SetupInv, Setup!KernelSteps
<1>7. CASE Setup!StartAborted
  BY <1>7, FailCloses DEF Setup!StartAborted, SetupInv, Setup!KernelSteps
<1> QED BY <1>1, <1>2, <1>3, <1>4, <1>5, <1>6, <1>7 DEF Setup!StartSteps

(* The collar borrows the kernel ring's pages, which cover it.             *)
LEMMA ReadyStep ==
  ASSUME SetupInv, Setup!ConfigureCollar \/ Setup!Close
  PROVE  SetupInv'
<1>0. Setup!TypeOK /\ Setup!RetainBatches = RetainBatches /\ N \in Nat
  BY ReceiverAssumption DEF SetupInv, Setup!RetainBatches, RetainBatches
<1>1. CASE Setup!ConfigureCollar
  <2> DEFINE lent == RetainBatches * BatchBlocks
  <2>1. Setup!RetainedInputBlocks = IF active THEN lent ELSE 0
    BY <1>0 DEF Setup!RetainedInputBlocks
  <2>2. lent \in Int /\ Collar \in Int /\ Collar <= lent
    BY RetainCovers, ReceiverAssumption
  <2> HIDE DEF lent
  <2>3. at' = "ready" /\ borrowed' \in BOOLEAN /\ (borrowed' => active)
    <3>1. Setup!RetainedInputBlocks > 0 => active /\ Setup!RetainedInputBlocks >= Collar
      BY <2>1, <2>2
    <3>2. CASE Setup!RetainedInputBlocks > 0
      BY <1>1, <3>1, <3>2 DEF Setup!ConfigureCollar
    <3>3. CASE ~(Setup!RetainedInputBlocks > 0)
      BY <1>1, <3>3 DEF Setup!ConfigureCollar
    <3> QED BY <3>2, <3>3
  <2>4. /\ at = "collar"
        /\ UNCHANGED <<resources, slotsPtr, active, attached, slotCount, mappedSlots, started,
                       buffers, attempt, cause, misused>>
    BY <1>1 DEF Setup!ConfigureCollar, Setup!ringVars
  <2>5. Setup!TypeOK' /\ Setup!ModuleOptional'
    BY <1>0, <2>3, <2>4 DEF Setup!TypeOK, Setup!ModuleOptional
  <2> QED BY <2>3, <2>4, <2>5 DEF SetupInv, OpenNames, ConfigNames, KernelRingUp, ThreadRingUp
<1>2. CASE Setup!Close
  <2>1. /\ NoRing' /\ resources' = {} /\ ~misused'
        /\ {attached', active', started', slotsPtr', misused'} \subseteq BOOLEAN
    BY <1>2, CloseReleases DEF Setup!Close, SetupInv
  <2>2. at' = "closed" /\ UNCHANGED <<attempt, borrowed, cause>>
    BY <1>2 DEF Setup!Close
  <2>3. Setup!TypeOK' /\ Setup!ModuleOptional'
    BY <1>0, <2>1, <2>2 DEF Setup!TypeOK, Setup!ModuleOptional, NoRing
  <2> QED BY <2>1, <2>2, <2>3 DEF SetupInv, OpenNames, ConfigNames
<1> QED BY <1>1, <1>2

(* Closing runs at the end of Receiver.Close, opening before Run: the      *)
(* invariant holds through both, whichever ring came up in between.        *)
THEOREM SetupInvariant == SourcesSpec => []SetupInv
<1>1. SourcesInit => SetupInv
  <2> SUFFICES ASSUME SourcesInit PROVE SetupInv
    OBVIOUS
  <2>1. Attempts \in Nat \ {0} /\ N \in Nat
    BY SourcesAssumption, ReceiverAssumption
  <2>2. Setup!TypeOK
    <3>1. /\ resources = {} /\ slotCount = 0 /\ mappedSlots = 0 /\ buffers = 0 /\ attempt = 0
          /\ slotsPtr = FALSE /\ active = FALSE /\ started = FALSE /\ attached = TRUE
          /\ borrowed = FALSE /\ misused = FALSE
      BY DEF SourcesInit, Setup!Init
    <3>2. 0 \in 0 .. 0 /\ 0 \in 0 .. N /\ 0 \in 0 .. (Attempts - 1)
      BY <2>1
    <3> QED BY <3>1, <3>2, Zenon DEF Setup!TypeOK
  <2> QED BY <2>2 DEF SourcesInit, Setup!Init, SetupInv, NoRing, OpenNames, ConfigNames,
          Setup!ModuleOptional
<1>2. SetupInv /\ [SourcesNext]_all => SetupInv'
  <2> SUFFICES ASSUME SetupInv, [SourcesNext]_all PROVE SetupInv'
    OBVIOUS
  <2>1. Setup!Next \/ UNCHANGED setupVars
    BY DEF SourcesNext, all, Opening, EarlyRead, ThreadFrame, KernelFrame, TcpFrame, Setup!Next
  <2>2. CASE UNCHANGED setupVars
    BY <2>2 DEF setupVars, SetupInv, Setup!TypeOK, NoRing, KernelRingUp, ThreadRingUp,
       Setup!ModuleOptional
  <2>3. CASE Setup!Next
    BY <2>3, OpenStep, KernelStep, FallbackStep, ReadyStep DEF Setup!Next
  <2> QED BY <2>1, <2>2, <2>3
<1> QED BY <1>1, <1>2, PTL DEF SourcesSpec

(* For every slot count the driver may report, every collar and batch size *)
(* and every sequence of failures: what was acquired is released once, the *)
(* module's failures never stop the start, and one ring streams, with all  *)
(* the pages the collar borrows.                                           *)
THEOREM SetupCleanThm == SourcesSpec => []SetupClean
<1>1. SetupInv => SetupClean
  <2> SUFFICES ASSUME SetupInv PROVE SetupClean
    OBVIOUS
  <2>1. Setup!NothingLeaked /\ Setup!NothingFreedTwice
    BY DEF SetupInv, NoRing, KernelRingUp, ThreadRingUp, OpenNames, ConfigNames,
       Setup!NothingLeaked, Setup!NothingFreedTwice
  <2>2. ASSUME at = "ready"
        PROVE  Setup!OneRing
    <3>1. CASE ThreadRingUp
      BY <2>2, <3>1 DEF SetupInv, ThreadRingUp, OpenNames, Setup!OneRing
    <3>2. CASE KernelRingUp
      <4>1. slotCount \in Int /\ RetainBatches \in Int /\ RetainBatches <= slotCount - 2
        BY <3>2, SourcesAssumption, RetainCovers DEF SetupInv, Setup!TypeOK, KernelRingUp
      <4>2. RetainBatches * BatchBlocks <= (slotCount - 2) * BatchBlocks
        BY <4>1, Monotone
      <4>3. /\ (slotCount - 2) * BatchBlocks \in Int /\ RetainBatches * BatchBlocks \in Int
            /\ Collar \in Int
        BY <4>1, ReceiverAssumption
      <4>4. (slotCount - 2) * BatchBlocks >= Collar
        BY <4>2, <4>3, RetainCovers
      <4> QED BY <3>2, <4>4 DEF KernelRingUp, OpenNames, Setup!OneRing
    <3> QED BY <2>2, <3>1, <3>2 DEF SetupInv
  <2> QED BY <2>1, <2>2 DEF SetupInv, SetupClean, Setup!SetupClean, Setup!OneRing
<1> QED BY <1>1, SetupInvariant, PTL

-----------------------------------------------------------------------------
(* A behaviour of the composed receiver is one of the receiver on the      *)
(* kernel ring as far as its variables go, so what was proved of it holds: *)
(* no batch goes back while the collar points into it, no release is       *)
(* refused, the device is never starved by retained batches and no page is *)
(* read after it was unmapped.                                             *)
THEOREM KernelInSources ==
  SourcesSpec => [](CollarOwned /\ NoReleaseRefused /\ DeviceFed /\ MappedWhileReading)
<1>1. SourcesSpec => Spec
  <2>1. SourcesInit => Init
    BY DEF SourcesInit
  <2>2. [SourcesNext]_all => [Next]_vars
    BY DEF SourcesNext, all, Opening, EarlyRead, ThreadFrame, KernelFrame, TcpFrame
  <2> QED BY <2>1, <2>2, PTL DEF SourcesSpec, Spec
<1> QED BY <1>1, CollarOwnedThm, NoReleaseRefusedThm, DeviceFedThm, MappedWhileReadingThm, PTL
-----------------------------------------------------------------------------
(* The TCP source and the capture.                                         *)

LEMMA StreamConstants ==
  /\ BlockBytes \in Nat \ {0} /\ Blocks \in Nat \ {0} /\ SampleRate \in Nat \ {0}
  /\ Duration \in Nat \ {0} /\ Second \in Nat \ {0} /\ Half \in Nat \ {0} /\ StreamBytes \in Nat
  BY SourcesAssumption DEF Tcp!StreamAssumption

LEMMA Product ==
  ASSUME NEW a \in Nat \ {0}, NEW b \in Nat \ {0}
  PROVE  a * b \in Nat \ {0} /\ b <= a * b
<1> DEFINE c == a - 1
<1>1. c \in Nat /\ a = c + 1
  OBVIOUS
<1> HIDE DEF c
<1>2. (c + 1) * b = c * b + b /\ c * b \in Nat
  BY <1>1
<1> QED BY <1>1, <1>2

LEMMA Scaled ==
  ASSUME NEW a \in Nat, NEW b \in Nat, NEW d \in Nat, a <= b
  PROVE  a * d \in Nat /\ b * d \in Nat /\ a * d <= b * d
<1> DEFINE c == b - a
<1>1. c \in Nat /\ b = a + c
  OBVIOUS
<1> HIDE DEF c
<1>2. b * d = a * d + c * d /\ c * d \in Nat /\ a * d \in Nat
  BY <1>1
<1> QED BY <1>2

LEMMA ScaledNext ==
  ASSUME NEW a \in Nat, NEW b \in Nat, NEW d \in Nat, a < b
  PROVE  (a + 1) * d = a * d + d /\ a * d \in Nat /\ b * d \in Nat /\ a * d + d <= b * d
<1>1. a + 1 \in Nat /\ a + 1 <= b
  OBVIOUS
<1>2. (a + 1) * d = a * d + d /\ a * d \in Nat
  OBVIOUS
<1> QED BY <1>1, <1>2, Scaled

LEMMA Divided ==
  ASSUME NEW a \in Nat, NEW d \in Nat \ {0}
  PROVE  /\ a \div d \in Nat /\ a % d \in 0 .. (d - 1)
         /\ a = (a \div d) * d + (a % d)
  OBVIOUS

LEMMA DividedOnce ==
  ASSUME NEW a \in Nat, NEW d \in Nat \ {0}, NEW q \in Nat, NEW r \in 0 .. (d - 1), a = q * d + r
  PROVE  a % d = r
  OBVIOUS

(* Integers in range are what they are.                                    *)
LEMMA WrapsNot ==
  ASSUME NEW x \in Int, 0 <= x + Half, x < Half
  PROVE  Tcp!Wrap(x) = x
<1> DEFINE y == x + Half
           m == 2 * Half
<1>1. y \in Nat /\ m \in Nat \ {0} /\ y \in 0 .. (m - 1) /\ y = 0 * m + y /\ y - Half = x
  BY StreamConstants
<1> HIDE DEF y, m
<1>2. y % m = y
  BY <1>1, DividedOnce
<1>3. Tcp!Wrap(x) = (y % m) - Half
  BY DEF Tcp!Wrap, y, m
<1> QED BY <1>1, <1>2, <1>3

(* The bytes of the capture, times a second in nanoseconds, fit an int64:  *)
(* at 2.4 million samples a second, up to half an hour of them.  flags.go  *)
(* sets no limit.                                                          *)
CaptureFits ==
  LET scaled == SampleRate * 2 * Duration + Second - 1
  IN  scaled < Half /\ scaled \div Second + BlockBytes - 1 < Half

(* newBlockCapture's two roundings give the least number of blocks that    *)
(* covers the duration.                                                    *)
LEMMA CaptureSize ==
  ASSUME CaptureFits
  PROVE  LET c == Tcp!CaptureBlocks
         IN  /\ c \in Nat \ {0} /\ c < Half
             /\ c * BlockBytes * Second >= SampleRate * 2 * Duration
             /\ (c - 1) * BlockBytes * Second < SampleRate * 2 * Duration
<1> DEFINE x == SampleRate * 2 * Duration
           scaled == SampleRate * 2 * Duration + Second - 1
           t == scaled \div Second
           r == scaled % Second
           padded == t + BlockBytes - 1
           c == padded \div BlockBytes
           s == padded % BlockBytes
<1> USE StreamConstants
<1>1. x \in Nat \ {0}
  <2>1. SampleRate * 2 \in Nat \ {0}
    OBVIOUS
  <2> QED BY <2>1, Product
<1>2. scaled = x + Second - 1
  OBVIOUS
<1> HIDE DEF x
<1>3. scaled \in Nat /\ scaled < Half
  <2>1. scaled < Half
    BY DEF CaptureFits
  <2> QED BY <1>1, <1>2, <2>1
<1> HIDE DEF scaled
<1>4. t \in Nat /\ r \in 0 .. (Second - 1) /\ scaled = t * Second + r
  BY <1>3, Divided, Zenon
<1>5. padded < Half
  BY DEF CaptureFits, scaled
<1> HIDE DEF t, r
<1>6. padded \in Nat
  BY <1>4
<1>7. padded = t + BlockBytes - 1
  OBVIOUS
<1> HIDE DEF padded
<1>8. c \in Nat /\ s \in 0 .. (BlockBytes - 1) /\ padded = c * BlockBytes + s
  BY <1>6, Divided, Zenon
<1>9. Tcp!CaptureBlocks = c
  <2>1. Tcp!Wrap(scaled) = scaled /\ Tcp!Wrap(padded) = padded
    BY <1>3, <1>5, <1>6, WrapsNot
  <2>2. Tcp!Quotient(scaled, Second) = t /\ Tcp!Quotient(padded, BlockBytes) = c
    BY <1>3, <1>6 DEF Tcp!Quotient, t
  <2>3. Tcp!CaptureBlocks = Tcp!Quotient(Tcp!Wrap(Tcp!Quotient(Tcp!Wrap(scaled), Second)
                                                    + BlockBytes - 1), BlockBytes)
    BY DEF Tcp!CaptureBlocks, scaled
  <2> QED BY <1>7, <2>1, <2>2, <2>3
<1> HIDE DEF c, s
<1>10. t * Second \in Nat /\ t * Second >= x /\ t * Second <= x + Second - 1 /\ t # 0
  <2>1. t * Second \in Nat
    BY <1>4
  <2>2. t * Second >= x /\ t * Second <= x + Second - 1
    BY <1>1, <1>2, <1>4, <2>1
  <2>3. t = 0 => t * Second = 0
    OBVIOUS
  <2> QED BY <1>1, <2>1, <2>2, <2>3
<1>11. c * BlockBytes \in Nat /\ c * BlockBytes >= t /\ c * BlockBytes <= t + BlockBytes - 1 /\ c # 0
  <2>1. c * BlockBytes \in Nat
    BY <1>8
  <2>2. c * BlockBytes >= t /\ c * BlockBytes <= t + BlockBytes - 1
    BY <1>4, <1>7, <1>8, <2>1
  <2>3. c = 0 => c * BlockBytes = 0
    OBVIOUS
  <2> QED BY <1>4, <1>10, <2>1, <2>2, <2>3
<1>12. c < Half
  <2>1. c <= BlockBytes * c /\ BlockBytes * c = c * BlockBytes
    BY <1>8, <1>11, Product
  <2> QED BY <1>4, <1>5, <1>7, <1>8, <1>11, <2>1
<1>13. c * BlockBytes * Second >= x
  <2> DEFINE b == c * BlockBytes
  <2>1. t * Second <= b * Second /\ b * Second \in Nat
    <3>1. b \in Nat /\ t <= b
      BY <1>4, <1>11
    <3> HIDE DEF b
    <3> QED BY <1>4, <3>1, Scaled
  <2> HIDE DEF b
  <2>2. b * Second >= x
    BY <1>1, <1>10, <2>1
  <2> QED BY <2>2 DEF b
<1>14. (c - 1) * BlockBytes * Second < x
  <2> DEFINE b == (c - 1) * BlockBytes
  <2>1. b = c * BlockBytes - BlockBytes
    BY <1>8
  <2>2. b \in Nat
    BY <1>8, <1>11
  <2> HIDE DEF b
  <2>3. b <= t - 1 /\ t - 1 \in Nat
    BY <1>4, <1>10, <1>11, <2>1
  <2>4. b * Second <= (t - 1) * Second /\ b * Second \in Nat
    BY <2>2, <2>3, Scaled
  <2>5. (t - 1) * Second = t * Second - Second
    BY <1>4
  <2>6. b * Second < x
    BY <1>1, <1>10, <2>4, <2>5
  <2> QED BY <2>6 DEF b
<1> QED BY <1>8, <1>9, <1>11, <1>12, <1>13, <1>14 DEF x

(* While Run is going, the buffer starts at block q of the stream and      *)
(* holds the last bytes received; of its w whole blocks p are processed,   *)
(* and an unfinished capture holds all blocks up to there.                 *)
Aligned(q, p, w) ==
  /\ got - Len(buffer) = q * BlockBytes
  /\ IF tcpRecv = "process"
       THEN /\ tcpOffset = p * BlockBytes /\ batchBytes = w * BlockBytes /\ p <= w
            /\ Len(buffer) < w * BlockBytes + BlockBytes
       ELSE p = 0 /\ w = 0 /\ Len(buffer) < BlockBytes
  /\ remaining # 0 => Len(file) = q + p

RunInv ==
  tcpRecv # "exited" =>
    /\ \E q, p, w \in Nat : Aligned(q, p, w)
    /\ \A i \in 1 .. Len(buffer) : buffer[i] = got - Len(buffer) + i - 1
    /\ tcpErr = "none"

CaptureInv ==
  /\ remaining \in Nat /\ remaining + Len(file) = Tcp!CaptureBlocks
  /\ \A i \in 1 .. Len(file) : file[i] = (i - 1) * BlockBytes
  /\ remaining = 0 => synced \/ tcpErr = "process"

(* Where errors come from.                                                 *)
ConnInv ==
  /\ "cancel" \in conn \/ tcpClosing # "no" => tcpDone
  /\ pendingErr \/ tcpErr = "source" => "peer" \in conn
  /\ tcpRecv = "failed" => "peer" \in conn \/ tcpDone
  /\ tcpErr = "source" => Len(buffer) < BlockBytes

StreamInv == Tcp!TypeOK /\ RunInv /\ CaptureInv /\ ConnInv

(* The parts of the state they are about.                                  *)
bufferVars == <<buffer, batchBytes, got, tcpOffset>>
fileVars == <<remaining, file, synced>>

(* A step that leaves buffer and file alone, and may end Run.              *)
LEMMA QuietStep ==
  ASSUME StreamInv, UNCHANGED bufferVars, UNCHANGED fileVars, Tcp!TypeOK', ConnInv',
         \/ tcpRecv' = "exited"
         \/ tcpErr' = tcpErr /\ (tcpRecv' = "process" <=> tcpRecv = "process") /\ tcpRecv # "exited",
         tcpErr = "process" => tcpErr' = "process"
  PROVE  StreamInv'
<1>1. RunInv'
  <2> SUFFICES ASSUME tcpRecv' # "exited" PROVE RunInv'
    BY DEF RunInv
  <2>1. tcpErr' = tcpErr /\ (tcpRecv' = "process" <=> tcpRecv = "process") /\ tcpRecv # "exited"
    OBVIOUS
  <2>2. \A q, p, w : Aligned(q, p, w) => Aligned(q, p, w)'
    BY <2>1 DEF Aligned, bufferVars, fileVars
  <2> QED BY <2>1, <2>2 DEF StreamInv, RunInv, bufferVars
<1>2. CaptureInv'
  BY DEF StreamInv, CaptureInv, fileVars
<1> QED BY <1>1, <1>2 DEF StreamInv

(* The actions that touch neither buffer nor file.                         *)
LEMMA ControlSteps ==
  ASSUME StreamInv,
         \/ Tcp!CheckContext \/ Tcp!NextHeldBack \/ Tcp!ReadNothing \/ Tcp!FailNext
         \/ Tcp!Break \/ Tcp!CloseBegin \/ Tcp!Cancel \/ Tcp!WaitReceiver
  PROVE  StreamInv'
<1> USE DEF Tcp!Exit, Tcp!sourceVars, Tcp!captureVars, Tcp!mainVars
<1>0. Tcp!TypeOK /\ ConnInv /\ (tcpErr # "none" => tcpRecv = "exited")
  BY DEF StreamInv, RunInv
<1>1. Tcp!TypeOK'
  <2>1. UNCHANGED <<buffer, batchBytes, batchActive, got, tcpOffset, remaining, file, synced>>
    BY DEF Tcp!CheckContext, Tcp!NextHeldBack, Tcp!ReadNothing, Tcp!FailNext, Tcp!Break,
       Tcp!CloseBegin, Tcp!Cancel, Tcp!WaitReceiver
  <2>2. /\ pendingErr' \in BOOLEAN /\ conn' \subseteq {"peer", "cancel"} /\ tcpDone' \in BOOLEAN
        /\ tcpRecv' \in {"check", "next", "process", "failed", "stalled", "exited"}
        /\ tcpErr' \in {"none", "source", "noprogress", "process"}
        /\ tcpClosing' \in {"no", "cancel", "wait", "closed"}
    BY <1>0 DEF Tcp!TypeOK, Tcp!CheckContext, Tcp!NextHeldBack, Tcp!ReadNothing, Tcp!FailNext,
       Tcp!Break, Tcp!CloseBegin, Tcp!Cancel, Tcp!WaitReceiver
  <2> QED BY <1>0, <2>1, <2>2 DEF Tcp!TypeOK
<1>2. ConnInv'
  <2>1. CASE Tcp!CheckContext
    BY <1>0, <2>1 DEF ConnInv, Tcp!CheckContext
  <2>2. CASE Tcp!NextHeldBack
    BY <1>0, <2>2 DEF ConnInv, Tcp!NextHeldBack
  <2>3. CASE Tcp!ReadNothing
    <3>1. ~tcpDone /\ conn # {} => "peer" \in conn
      BY <1>0 DEF ConnInv, Tcp!TypeOK
    <3> QED BY <1>0, <2>3, <3>1 DEF ConnInv, Tcp!ReadNothing, Tcp!TypeOK
  <2>4. CASE Tcp!Break \/ Tcp!CloseBegin \/ Tcp!Cancel \/ Tcp!WaitReceiver
    BY <1>0, <2>4
       DEF ConnInv, Tcp!Break, Tcp!CloseBegin, Tcp!Cancel, Tcp!WaitReceiver
  <2>5. CASE Tcp!FailNext
    <3>1. Len(buffer) < BlockBytes
      BY <2>5 DEF StreamInv, RunInv, Aligned, Tcp!FailNext
    <3> QED BY <1>0, <2>5, <3>1 DEF ConnInv, Tcp!FailNext, Tcp!TypeOK
  <2> QED BY <2>1, <2>2, <2>3, <2>4, <2>5
<1>3. UNCHANGED bufferVars /\ UNCHANGED fileVars
  BY DEF bufferVars, fileVars, Tcp!CheckContext, Tcp!NextHeldBack, Tcp!ReadNothing, Tcp!FailNext,
     Tcp!Break, Tcp!CloseBegin, Tcp!Cancel, Tcp!WaitReceiver
<1>4. \/ tcpRecv' = "exited"
      \/ tcpErr' = tcpErr /\ (tcpRecv' = "process" <=> tcpRecv = "process") /\ tcpRecv # "exited"
  BY DEF Tcp!CheckContext, Tcp!NextHeldBack, Tcp!ReadNothing, Tcp!FailNext, Tcp!Break,
     Tcp!CloseBegin, Tcp!Cancel, Tcp!WaitReceiver
<1>5. tcpErr = "process" => tcpErr' = "process"
  BY <1>0 DEF Tcp!CheckContext, Tcp!NextHeldBack, Tcp!ReadNothing, Tcp!FailNext, Tcp!Break,
     Tcp!CloseBegin, Tcp!Cancel, Tcp!WaitReceiver
<1> QED BY <1>1, <1>2, <1>3, <1>4, <1>5, QuietStep

(* A Read appends what it returned, and whole blocks become a batch.       *)
LEMMA ReadStep ==
  ASSUME StreamInv, NEW n \in 1 .. Tcp!Capacity, NEW broken \in BOOLEAN, Tcp!Read(n, broken)
  PROVE  StreamInv'
<1> USE DEF Tcp!mainVars, Tcp!captureVars
<1> DEFINE l == Len(buffer')
<1>0. Tcp!TypeOK /\ RunInv /\ CaptureInv /\ ConnInv /\ Tcp!Capacity \in Nat
  BY StreamConstants DEF StreamInv, Tcp!Capacity
<1>1. /\ tcpRecv = "next" /\ n <= Tcp!Capacity - Len(buffer) /\ got + n <= StreamBytes
      /\ broken => "peer" \in conn
      /\ buffer' = buffer \o [i \in 1 .. n |-> got + i - 1] /\ got' = got + n
      /\ Tcp!Deliver(buffer', broken) /\ UNCHANGED <<conn, remaining, file, synced>> /\ ~pendingErr
      /\ UNCHANGED <<tcpDone, tcpErr, tcpClosing>>
  BY DEF Tcp!Read
<1>2. buffer \in Seq(Nat) /\ Len(buffer) \in Nat /\ got \in Nat /\ tcpErr = "none"
  BY <1>0, <1>1 DEF Tcp!TypeOK, RunInv
<1>3. /\ buffer' \in Seq(Nat) /\ l = Len(buffer) + n
      /\ \A i \in 1 .. l : buffer'[i] = got' - l + i - 1
  <2> DEFINE more == [i \in 1 .. n |-> got + i - 1]
  <2>1. more \in Seq(Nat) /\ Len(more) = n /\ \A i \in 1 .. n : more[i] = got + i - 1
    BY <1>2
  <2>2. buffer' = buffer \o more
    BY <1>1
  <2> HIDE DEF more
  <2>3. buffer' \in Seq(Nat) /\ l = Len(buffer) + n
    <3>1. buffer \o more \in Seq(Nat) /\ Len(buffer \o more) = Len(buffer) + Len(more)
      BY <1>2, <2>1, ConcatProperties
    <3> QED BY <2>1, <2>2, <3>1
  <2>4. \A i \in 1 .. Len(buffer) : buffer[i] = got - Len(buffer) + i - 1
    BY <1>0, <1>1 DEF RunInv
  <2>5. ASSUME NEW i \in 1 .. l PROVE buffer'[i] = got' - l + i - 1
    <3>1. buffer'[i] = IF i <= Len(buffer) THEN buffer[i] ELSE more[i - Len(buffer)]
      BY <1>2, <2>1, <2>2, <2>3
    <3>2. CASE i <= Len(buffer)
      <4>1. buffer'[i] = got - Len(buffer) + i - 1
        BY <1>2, <2>4, <3>1, <3>2
      <4> QED BY <1>1, <1>2, <2>3, <4>1
    <3>3. CASE ~(i <= Len(buffer))
      <4>1. i - Len(buffer) \in 1 .. n
        BY <1>2, <2>3, <3>3
      <4>2. buffer'[i] = got + (i - Len(buffer)) - 1
        BY <2>1, <3>1, <3>3, <4>1
      <4> QED BY <1>1, <1>2, <2>3, <4>2
    <3> QED BY <3>2, <3>3
  <2> QED BY <2>3, <2>5
<1>4. PICK q \in Nat : /\ got - Len(buffer) = q * BlockBytes
                       /\ remaining # 0 => Len(file) = q
  BY <1>0, <1>1 DEF RunInv, Aligned, Tcp!TypeOK
<1>5. l \in Nat /\ l <= Tcp!Capacity /\ got' \in 0 .. StreamBytes /\ got' - l = q * BlockBytes
  BY <1>0, <1>1, <1>2, <1>3, <1>4, StreamConstants
<1> HIDE DEF l
<1>6. CASE l >= BlockBytes
  <2>0. /\ l \div BlockBytes \in Nat /\ l % BlockBytes \in 0 .. (BlockBytes - 1)
        /\ l = (l \div BlockBytes) * BlockBytes + (l % BlockBytes)
    BY <1>5, StreamConstants, Divided, Zenon
  <2>1. PICK w \in Nat, r \in 0 .. (BlockBytes - 1) : r = l % BlockBytes /\ l = w * BlockBytes + r
    BY <2>0, Zenon
  <2>2. /\ batchBytes' = l - r /\ batchActive' = TRUE /\ pendingErr' = broken /\ tcpOffset' = 0
        /\ tcpRecv' = "process"
    BY <1>1, <1>6, <2>1 DEF Tcp!Deliver, l
  <2>3. w * BlockBytes \in Nat /\ batchBytes' = w * BlockBytes /\ batchBytes' \in 0 .. l
        /\ l < w * BlockBytes + BlockBytes
    BY <1>5, <2>1, <2>2, StreamConstants
  <2>4. Tcp!TypeOK'
    BY <1>0, <1>1, <1>3, <1>5, <2>2, <2>3 DEF Tcp!TypeOK, l
  <2>5. Aligned(q, 0, w)'
    <3>1. 0 * BlockBytes = 0 /\ q + 0 = q
      BY StreamConstants
    <3>2. got' - Len(buffer') = q * BlockBytes /\ Len(buffer') < w * BlockBytes + BlockBytes
      BY <1>5, <2>3 DEF l
    <3>3. remaining' # 0 => Len(file)' = q + 0
      BY <1>1, <1>4, <3>1
    <3>4. tcpOffset' = 0 * BlockBytes /\ 0 <= w
      BY <2>2, <3>1
    <3> QED BY <2>2, <2>3, <3>2, <3>3, <3>4, Zenon DEF Aligned
  <2>6. RunInv'
    <3>1. \E a, b, c \in Nat : Aligned(a, b, c)'
      BY <2>5
    <3> QED BY <1>1, <1>2, <1>3, <2>2, <3>1 DEF RunInv, l
  <2>7. CaptureInv' /\ ConnInv'
    BY <1>0, <1>1, <1>2, <2>2 DEF CaptureInv, ConnInv
  <2> QED BY <2>4, <2>6, <2>7 DEF StreamInv
<1>7. CASE ~(l >= BlockBytes)
  <2>1. /\ UNCHANGED <<batchBytes, batchActive, pendingErr, tcpOffset>>
        /\ tcpRecv' \in {"next", "failed"} /\ (tcpRecv' = "failed" => "peer" \in conn)
    BY <1>1, <1>2, <1>7 DEF Tcp!Deliver, l
  <2>2. l < BlockBytes
    BY <1>5, <1>7, StreamConstants
  <2>3. batchBytes \in 0 .. l
    BY <1>0, <1>2, <1>3, <1>5 DEF Tcp!TypeOK
  <2>4. Tcp!TypeOK'
    BY <1>0, <1>1, <1>3, <1>5, <2>1, <2>3 DEF Tcp!TypeOK, l
  <2>5. Aligned(q, 0, 0)'
    BY <1>1, <1>4, <1>5, <2>1, <2>2 DEF Aligned, l
  <2>6. RunInv'
    BY <1>1, <1>2, <1>3, <2>1, <2>5 DEF RunInv, l
  <2>7. CaptureInv' /\ ConnInv'
    BY <1>0, <1>1, <1>2, <2>1, <2>2 DEF CaptureInv, ConnInv, l
  <2> QED BY <2>4, <2>6, <2>7 DEF StreamInv
<1> QED BY <1>6, <1>7

(* Release keeps what is behind the batch.                                 *)
LEMMA ReleaseFacts ==
  ASSUME Tcp!TypeOK, Tcp!Release
  PROVE  /\ buffer' \in Seq(Nat) /\ Len(buffer') = Len(buffer) - batchBytes
         /\ Len(buffer') \in Nat /\ Len(buffer') <= Tcp!Capacity
         /\ \A i \in 1 .. Len(buffer') : buffer'[i] = buffer[batchBytes + i]
         /\ batchBytes' = 0 /\ batchActive' = FALSE /\ UNCHANGED <<pendingErr, got>>
<1> DEFINE tail == SubSeq(buffer, batchBytes + 1, Len(buffer))
<1>0. Tcp!Capacity \in Nat
  BY StreamConstants DEF Tcp!Capacity
<1>1. /\ buffer \in Seq(Nat) /\ Len(buffer) \in Nat /\ batchBytes \in 0 .. Len(buffer)
      /\ Len(buffer) <= Tcp!Capacity
  BY DEF Tcp!TypeOK
<1>2. batchBytes + 1 \in Int /\ \A i \in batchBytes + 1 .. Len(buffer) : buffer[i] \in Nat
  BY <1>1
<1>3. /\ tail \in Seq(Nat)
      /\ Len(tail) = IF batchBytes + 1 <= Len(buffer) THEN Len(buffer) - (batchBytes + 1) + 1 ELSE 0
      /\ \A i \in 1 .. Len(buffer) - (batchBytes + 1) + 1 : tail[i] = buffer[batchBytes + 1 + i - 1]
  BY <1>1, <1>2, SubSeqProperties
<1>4. buffer' = tail /\ batchBytes' = 0 /\ batchActive' = FALSE /\ UNCHANGED <<pendingErr, got>>
  BY DEF Tcp!Release
<1> HIDE DEF tail
<1>5. Len(tail) = Len(buffer) - batchBytes /\ Len(tail) \in Nat /\ Len(tail) <= Tcp!Capacity
  BY <1>0, <1>1, <1>3
<1>6. ASSUME NEW i \in 1 .. Len(tail) PROVE tail[i] = buffer[batchBytes + i]
  <2>1. i \in 1 .. Len(buffer) - (batchBytes + 1) + 1 /\ batchBytes + 1 + i - 1 = batchBytes + i
    BY <1>1, <1>5
  <2> QED BY <1>3, <2>1
<1> QED BY <1>3, <1>4, <1>5, <1>6

(* The blocks of a batch.                                                  *)
LEMMA InBatch ==
  ASSUME StreamInv, tcpRecv = "process"
  PROVE  /\ tcpErr = "none" /\ Tcp!TypeOK /\ CaptureInv /\ ConnInv
         /\ \E q, p, w \in Nat :
              /\ Aligned(q, p, w) /\ p * BlockBytes \in Nat /\ w * BlockBytes \in Nat
              /\ got - Len(buffer) = q * BlockBytes /\ q * BlockBytes \in Nat
              /\ tcpOffset = p * BlockBytes /\ batchBytes = w * BlockBytes /\ p <= w
              /\ Len(buffer) < w * BlockBytes + BlockBytes
              /\ remaining # 0 => Len(file) = q + p
<1>1. tcpErr = "none" /\ Tcp!TypeOK /\ CaptureInv /\ ConnInv
  BY DEF StreamInv, RunInv
<1>2. PICK q, p, w \in Nat : Aligned(q, p, w)
  BY DEF StreamInv, RunInv
<1>3. p * BlockBytes \in Nat /\ w * BlockBytes \in Nat /\ q * BlockBytes \in Nat
  BY StreamConstants
<1> QED BY <1>1, <1>2, <1>3 DEF Aligned

(* The end of a batch: by its last block, by an error or by a failed sync. *)
LEMMA FinishStep ==
  ASSUME StreamInv, Tcp!FinishBatch
  PROVE  StreamInv'
<1>1. /\ tcpRecv = "process" /\ tcpOffset = batchBytes /\ Tcp!Release /\ tcpRecv' = "check"
      /\ UNCHANGED <<conn, tcpOffset, remaining, file, synced, tcpDone, tcpErr, tcpClosing>>
  BY DEF Tcp!FinishBatch, Tcp!captureVars, Tcp!mainVars
<1>2. tcpErr = "none" /\ Tcp!TypeOK /\ CaptureInv /\ ConnInv
  BY <1>1, InBatch
<1>3. PICK q, p, w \in Nat :
              /\ p * BlockBytes \in Nat /\ w * BlockBytes \in Nat
              /\ got - Len(buffer) = q * BlockBytes /\ q * BlockBytes \in Nat
              /\ tcpOffset = p * BlockBytes /\ batchBytes = w * BlockBytes /\ p <= w
              /\ Len(buffer) < w * BlockBytes + BlockBytes
              /\ remaining # 0 => Len(file) = q + p
  BY <1>1, InBatch
<1>4. /\ buffer' \in Seq(Nat) /\ Len(buffer') = Len(buffer) - batchBytes
      /\ Len(buffer') \in Nat /\ Len(buffer') <= Tcp!Capacity
      /\ \A i \in 1 .. Len(buffer') : buffer'[i] = buffer[batchBytes + i]
      /\ batchBytes' = 0 /\ batchActive' = FALSE /\ UNCHANGED <<pendingErr, got>>
  BY <1>1, <1>2, ReleaseFacts
<1>5. p = w
  <2>1. CASE p < w
    <3>1. p * BlockBytes + BlockBytes <= w * BlockBytes
      BY <2>1, StreamConstants, ScaledNext
    <3>2. p * BlockBytes = w * BlockBytes
      BY <1>1, <1>3
    <3> QED BY <1>3, <3>1, <3>2, StreamConstants
  <2> QED BY <1>3, <2>1
<1>6. Len(buffer) \in Nat /\ got \in Nat /\ batchBytes \in 0 .. Len(buffer)
  BY <1>2 DEF Tcp!TypeOK
<1>7. got' - Len(buffer') = (q + w) * BlockBytes /\ Len(buffer') < BlockBytes
  <2>1. (q + w) * BlockBytes = q * BlockBytes + w * BlockBytes
    BY StreamConstants
  <2> QED BY <1>3, <1>4, <1>6, <2>1, StreamConstants
<1>8. Tcp!TypeOK'
  <2>1. PICK l \in Nat : l = Len(buffer')
    BY <1>4
  <2>2. 0 \in 0 .. l
    OBVIOUS
  <2>3. batchBytes' \in 0 .. l /\ batchActive' \in BOOLEAN
    BY <1>4, <2>2, Zenon
  <2> QED BY <1>1, <1>2, <1>4, <2>1, <2>3 DEF Tcp!TypeOK
<1>9. Aligned(q + w, 0, 0)'
  <2>1. remaining' # 0 => Len(file)' = (q + w) + 0
    BY <1>1, <1>3, <1>5
  <2> QED BY <1>1, <1>7, <2>1 DEF Aligned
<1>10. \A i \in 1 .. Len(buffer') : buffer'[i] = got' - Len(buffer') + i - 1
  <2> TAKE i \in 1 .. Len(buffer')
  <2>1. batchBytes + i \in 1 .. Len(buffer)
    BY <1>4, <1>6
  <2>2. buffer[batchBytes + i] = got - Len(buffer) + (batchBytes + i) - 1
    BY <1>1, <2>1 DEF StreamInv, RunInv
  <2> QED BY <1>4, <1>6, <2>2
<1>11. RunInv'
  <2>1. \E a, b, c \in Nat : Aligned(a, b, c)'
    BY <1>3, <1>9
  <2> QED BY <1>1, <1>2, <1>10, <2>1 DEF RunInv
<1>12. CaptureInv' /\ ConnInv'
  BY <1>1, <1>2, <1>4 DEF CaptureInv, ConnInv
<1> QED BY <1>8, <1>11, <1>12 DEF StreamInv

(* The next block goes to the capture, if that is not complete.            *)
LEMMA CaptureFacts ==
  ASSUME CaptureFits, StreamInv, tcpRecv = "process", tcpOffset < batchBytes, remaining # 0
  PROVE  LET next == Append(file, buffer[tcpOffset + 1])
         IN  /\ next \in Seq(Nat) /\ Len(next) = Len(file) + 1
             /\ \A i \in 1 .. Len(next) : next[i] = (i - 1) * BlockBytes
             /\ Tcp!Wrap(remaining - 1) = remaining - 1 /\ remaining - 1 \in Nat
             /\ remaining - 1 + Len(next) = Tcp!CaptureBlocks
<1> DEFINE first == buffer[tcpOffset + 1]
           next == Append(file, first)
<1>1. PICK q, p, w \in Nat :
              /\ p * BlockBytes \in Nat /\ w * BlockBytes \in Nat
              /\ got - Len(buffer) = q * BlockBytes /\ q * BlockBytes \in Nat
              /\ tcpOffset = p * BlockBytes /\ batchBytes = w * BlockBytes /\ p <= w
              /\ remaining # 0 => Len(file) = q + p
  BY InBatch
<1>2. /\ Tcp!TypeOK /\ remaining \in Nat /\ remaining + Len(file) = Tcp!CaptureBlocks
      /\ \A i \in 1 .. Len(file) : file[i] = (i - 1) * BlockBytes
  BY DEF StreamInv, CaptureInv
<1>3. /\ file \in Seq(Nat) /\ Len(file) \in Nat /\ Len(buffer) \in Nat /\ got \in Nat
      /\ tcpOffset \in Nat /\ batchBytes \in 0 .. Len(buffer)
  BY <1>2 DEF Tcp!TypeOK
<1>4. first = Len(file) * BlockBytes /\ first \in Nat
  <2>1. tcpOffset + 1 \in 1 .. Len(buffer)
    BY <1>3
  <2>2. first = got - Len(buffer) + (tcpOffset + 1) - 1
    BY <2>1 DEF StreamInv, RunInv
  <2>3. (q + p) * BlockBytes = q * BlockBytes + p * BlockBytes
    BY StreamConstants
  <2> HIDE DEF first
  <2>4. first = q * BlockBytes + p * BlockBytes
    BY <1>1, <1>3, <2>2
  <2> QED BY <1>1, <2>3, <2>4
<1> HIDE DEF first
<1>5. /\ next \in Seq(Nat) /\ Len(next) = Len(file) + 1
      /\ \A i \in 1 .. Len(file) : next[i] = file[i]
      /\ next[Len(file) + 1] = first
  BY <1>3, <1>4, AppendProperties
<1> HIDE DEF next
<1>6. ASSUME NEW i \in 1 .. Len(next) PROVE next[i] = (i - 1) * BlockBytes
  <2>1. CASE i \in 1 .. Len(file)
    BY <1>2, <1>5, <2>1
  <2>2. CASE i = Len(file) + 1
    <3>1. i - 1 = Len(file)
      BY <1>3, <2>2
    <3> QED BY <1>4, <1>5, <2>2, <3>1
  <2> QED BY <1>3, <1>5, <2>1, <2>2
<1>7. Tcp!Wrap(remaining - 1) = remaining - 1 /\ remaining - 1 \in Nat
  <2>1. Tcp!CaptureBlocks \in Nat /\ Tcp!CaptureBlocks < Half
    BY CaptureSize
  <2>2. remaining - 1 \in Int /\ 0 <= remaining - 1 /\ remaining - 1 < Half /\ 0 <= remaining - 1 + Half
    BY <1>2, <1>3, <2>1, StreamConstants
  <2> QED BY <2>2, WrapsNot
<1>8. remaining - 1 + Len(next) = Tcp!CaptureBlocks
  BY <1>2, <1>3, <1>5
<1> QED BY <1>5, <1>6, <1>7, <1>8 DEF next, first

LEMMA ProcessStep ==
  ASSUME CaptureFits, StreamInv, Tcp!ProcessBlock
  PROVE  StreamInv'
<1>1. /\ tcpRecv = "process" /\ tcpOffset < batchBytes /\ tcpOffset' = tcpOffset + BlockBytes
      /\ UNCHANGED <<buffer, batchBytes, batchActive, pendingErr, got, conn, tcpRecv,
                     tcpDone, tcpErr, tcpClosing>>
      /\ IF remaining = 0 THEN UNCHANGED <<remaining, file, synced>>
                          ELSE Tcp!WriteBlock(buffer[tcpOffset + 1])
  BY DEF Tcp!ProcessBlock, Tcp!sourceVars, Tcp!captureVars, Tcp!mainVars
<1>2. tcpErr = "none" /\ Tcp!TypeOK /\ CaptureInv /\ ConnInv
  BY <1>1, InBatch
<1>3. PICK q, p, w \in Nat :
              /\ p * BlockBytes \in Nat /\ w * BlockBytes \in Nat
              /\ got - Len(buffer) = q * BlockBytes /\ q * BlockBytes \in Nat
              /\ tcpOffset = p * BlockBytes /\ batchBytes = w * BlockBytes /\ p <= w
              /\ Len(buffer) < w * BlockBytes + BlockBytes
              /\ remaining # 0 => Len(file) = q + p
  BY <1>1, InBatch
<1>4. p < w
  BY <1>1, <1>3
<1>5. (p + 1) * BlockBytes = p * BlockBytes + BlockBytes /\ p * BlockBytes + BlockBytes <= w * BlockBytes
  BY <1>4, StreamConstants, ScaledNext
<1>6. tcpOffset' = (p + 1) * BlockBytes /\ tcpOffset' \in 0 .. Tcp!Capacity
  <2>1. Tcp!Capacity \in Nat /\ Len(buffer) \in Nat /\ batchBytes <= Len(buffer)
        /\ Len(buffer) <= Tcp!Capacity /\ batchBytes \in Nat
    BY <1>2, StreamConstants DEF Tcp!TypeOK, Tcp!Capacity
  <2> QED BY <1>1, <1>3, <1>5, <2>1, StreamConstants
<1>7. /\ file' \in Seq(Nat) /\ synced' \in BOOLEAN /\ remaining' \in -Half .. (Half - 1)
      /\ CaptureInv'
      /\ remaining' # 0 => Len(file)' = q + (p + 1)
  <2>1. CASE remaining = 0
    BY <1>1, <1>2, <2>1 DEF Tcp!TypeOK, CaptureInv
  <2>2. CASE remaining # 0
    <3> DEFINE next == Append(file, buffer[tcpOffset + 1])
    <3>1. file' = next /\ remaining' = Tcp!Wrap(remaining - 1) /\ synced' = (remaining' = 0)
      BY <1>1, <2>2 DEF Tcp!WriteBlock
    <3>2. /\ next \in Seq(Nat) /\ Len(next) = Len(file) + 1
          /\ \A i \in 1 .. Len(next) : next[i] = (i - 1) * BlockBytes
          /\ Tcp!Wrap(remaining - 1) = remaining - 1 /\ remaining - 1 \in Nat
          /\ remaining - 1 + Len(next) = Tcp!CaptureBlocks
      BY <1>1, <2>2, CaptureFacts
    <3> HIDE DEF next
    <3>3. remaining' = remaining - 1 /\ remaining' \in Nat
      BY <3>1, <3>2
    <3>4. synced' \in BOOLEAN /\ (remaining' = 0 => synced')
      BY <3>1
    <3>5. CaptureInv'
      <4>1. remaining' + Len(file') = Tcp!CaptureBlocks
        BY <3>1, <3>2, <3>3
      <4> QED BY <3>1, <3>2, <3>3, <3>4, <4>1
              DEF CaptureInv, Tcp!CaptureBlocks, Tcp!Quotient, Tcp!Wrap
    <3>6. remaining' \in -Half .. (Half - 1)
      BY <1>2, <3>2, <3>3, StreamConstants DEF Tcp!TypeOK
    <3>7. Len(file)' = q + (p + 1)
      <4>1. Len(file) = q + p
        BY <1>3, <2>2, Zenon
      <4>2. Len(next) = (q + p) + 1
        BY <3>2, <4>1, Zenon
      <4>3. (q + p) + 1 = q + (p + 1)
        OBVIOUS
      <4> QED BY <3>1, <4>2, <4>3, Zenon
    <3> QED BY <3>1, <3>2, <3>4, <3>5, <3>6, <3>7
  <2> QED BY <2>1, <2>2
<1>8. Tcp!TypeOK'
  BY <1>1, <1>2, <1>6, <1>7 DEF Tcp!TypeOK
<1>9. Aligned(q, p + 1, w)'
  <2>1. p + 1 <= w
    BY <1>4
  <2> QED BY <1>1, <1>3, <1>6, <1>7, <2>1, Zenon DEF Aligned
<1>10. RunInv'
  <2>1. \E a, b, c \in Nat : Aligned(a, b, c)'
    BY <1>9
  <2> QED BY <1>1, <2>1 DEF RunInv, StreamInv
<1>11. ConnInv'
  BY <1>1, <1>2 DEF ConnInv
<1> QED BY <1>7, <1>8, <1>10, <1>11 DEF StreamInv

(* An error while the batch is processed ends Run.                         *)
LEMMA AbortSteps ==
  ASSUME CaptureFits, StreamInv, Tcp!SyncFails \/ Tcp!AbortBatch
  PROVE  StreamInv'
<1>1. /\ tcpRecv = "process" /\ Tcp!Release /\ tcpRecv' = "exited" /\ tcpDone' = TRUE
      /\ tcpErr' = "process" /\ UNCHANGED <<tcpClosing, conn, tcpOffset, synced>>
  BY DEF Tcp!SyncFails, Tcp!AbortBatch, Tcp!Exit, Tcp!captureVars
<1>2. Tcp!TypeOK /\ CaptureInv /\ ConnInv
  BY <1>1, InBatch
<1>3. /\ buffer' \in Seq(Nat) /\ Len(buffer') \in Nat /\ Len(buffer') <= Tcp!Capacity
      /\ batchBytes' = 0 /\ batchActive' = FALSE /\ UNCHANGED <<pendingErr, got>>
  BY <1>1, <1>2, ReleaseFacts
<1>4. file' \in Seq(Nat) /\ remaining' \in -Half .. (Half - 1) /\ CaptureInv'
  <2>1. CASE Tcp!AbortBatch
    BY <1>1, <1>2, <2>1 DEF Tcp!AbortBatch, Tcp!captureVars, Tcp!TypeOK, CaptureInv
  <2>2. CASE Tcp!SyncFails
    <3> DEFINE next == Append(file, buffer[tcpOffset + 1])
    <3>1. file' = next /\ remaining = 1 /\ remaining' = 0 /\ tcpOffset < batchBytes
      BY <2>2 DEF Tcp!SyncFails
    <3>2. /\ next \in Seq(Nat) /\ \A i \in 1 .. Len(next) : next[i] = (i - 1) * BlockBytes
          /\ remaining - 1 + Len(next) = Tcp!CaptureBlocks
      BY <1>1, <3>1, CaptureFacts
    <3> HIDE DEF next
    <3>3. remaining' + Len(file') = Tcp!CaptureBlocks
      BY <3>1, <3>2
    <3>4. CaptureInv'
      BY <1>1, <3>1, <3>2, <3>3 DEF CaptureInv, Tcp!CaptureBlocks, Tcp!Quotient, Tcp!Wrap
    <3>5. remaining' \in -Half .. (Half - 1)
      BY <3>1, StreamConstants
    <3> QED BY <3>1, <3>2, <3>4, <3>5
  <2> QED BY <2>1, <2>2
<1>5. Tcp!TypeOK'
  <2>1. PICK l \in Nat : l = Len(buffer')
    BY <1>3
  <2>2. 0 \in 0 .. l
    OBVIOUS
  <2>3. batchBytes' \in 0 .. l /\ batchActive' \in BOOLEAN
    BY <1>3, <2>2, Zenon
  <2> QED BY <1>1, <1>2, <1>3, <1>4, <2>1, <2>3 DEF Tcp!TypeOK
<1>6. RunInv' /\ ConnInv'
  BY <1>1, <1>2, <1>3 DEF RunInv, ConnInv
<1> QED BY <1>4, <1>5, <1>6 DEF StreamInv

(* The stream reaches the receiver, and the capture, whole and in order,   *)
(* however the peer cuts it up and whenever it breaks or is closed; its    *)
(* error follows its data, and the capture is of the duration asked for if *)
(* that fits an int64.                                                     *)
THEOREM StreamInvariant ==
  ASSUME CaptureFits
  PROVE  SourcesSpec => []StreamInv
<1>1. SourcesInit => StreamInv
  <2> SUFFICES ASSUME SourcesInit PROVE StreamInv
    OBVIOUS
  <2>1. /\ buffer = <<>> /\ batchBytes = 0 /\ batchActive = FALSE /\ pendingErr = FALSE
        /\ got = 0 /\ conn = {} /\ tcpOffset = 0
        /\ remaining = Tcp!CaptureBlocks /\ file = <<>> /\ synced = FALSE
        /\ tcpRecv = "check" /\ tcpDone = FALSE /\ tcpErr = "none" /\ tcpClosing = "no"
    BY DEF SourcesInit, Tcp!Init
  <2>2. Tcp!CaptureBlocks \in Nat \ {0} /\ Tcp!CaptureBlocks < Half
    BY CaptureSize
  <2>3. Tcp!Capacity \in Nat
    BY StreamConstants DEF Tcp!Capacity
  <2>4. Tcp!TypeOK
    <3>1. /\ Len(buffer) = 0 /\ buffer \in Seq(Nat) /\ file \in Seq(Nat) /\ conn \subseteq {"peer", "cancel"}
      BY <2>1
    <3>2. /\ 0 \in 0 .. 0 /\ 0 \in 0 .. StreamBytes /\ 0 \in 0 .. Tcp!Capacity /\ 0 <= Tcp!Capacity
          /\ remaining \in -Half .. (Half - 1)
      BY <2>1, <2>2, <2>3, StreamConstants
    <3> QED BY <2>1, <3>1, <3>2, Zenon DEF Tcp!TypeOK
  <2>5. Aligned(0, 0, 0)
    <3>1. 0 * BlockBytes = 0
      BY StreamConstants
    <3> QED BY <2>1, <3>1, StreamConstants DEF Aligned
  <2>6. RunInv
    BY <2>1, <2>5 DEF RunInv
  <2>7. CaptureInv /\ ConnInv
    BY <2>1, <2>2 DEF CaptureInv, ConnInv
  <2> QED BY <2>4, <2>6, <2>7 DEF StreamInv
<1>2. StreamInv /\ [SourcesNext]_all => StreamInv'
  <2> SUFFICES ASSUME StreamInv, [SourcesNext]_all PROVE StreamInv'
    OBVIOUS
  <2>1. Tcp!Next \/ UNCHANGED tcpVars
    BY DEF SourcesNext, all, Opening, EarlyRead, ThreadFrame, KernelFrame, TcpFrame, Tcp!Next
  <2>2. CASE UNCHANGED tcpVars
    BY <2>2 DEF tcpVars, StreamInv, Tcp!TypeOK, RunInv, Aligned, CaptureInv, ConnInv
  <2>3. CASE Tcp!Next
    BY <2>3, ControlSteps, ReadStep, FinishStep, ProcessStep, AbortSteps DEF Tcp!Next, Tcp!Reads
  <2> QED BY <2>1, <2>2, <2>3
<1> QED BY <1>1, <1>2, PTL DEF SourcesSpec

(* receiver_source.go and continuous_capture.go lose, repeat and reorder   *)
(* no byte of the stream and report its error after its data.              *)
THEOREM StreamExactThm ==
  ASSUME CaptureFits
  PROVE  SourcesSpec => []StreamExact
<1>1. StreamInv => StreamExact
  <2> SUFFICES ASSUME StreamInv PROVE StreamExact
    OBVIOUS
  <2>1. Tcp!TypeOK /\ Tcp!ErrorAfterData /\ Tcp!ErrorsAreReal
    BY DEF StreamInv, ConnInv, Tcp!ErrorAfterData, Tcp!ErrorsAreReal
  <2>2. DOMAIN buffer = 1 .. Len(buffer) /\ DOMAIN file = 1 .. Len(file)
    BY <2>1 DEF Tcp!TypeOK
  <2>3. Tcp!InSequence
    <3> SUFFICES ASSUME tcpRecv # "exited" PROVE Tcp!InSequence
      BY DEF Tcp!InSequence
    <3>1. PICK q \in Nat : got - Len(buffer) = q * BlockBytes
      BY DEF StreamInv, RunInv, Aligned
    <3>2. q * BlockBytes \in Nat /\ q * BlockBytes = q * BlockBytes + 0 /\ 0 \in 0 .. (BlockBytes - 1)
      BY StreamConstants
    <3>3. (q * BlockBytes) % BlockBytes = 0
      BY <3>2, StreamConstants, DividedOnce
    <3> QED BY <2>2, <3>1, <3>3 DEF StreamInv, RunInv, Tcp!InSequence
  <2>4. Tcp!CaptureExact
    <3>1. remaining = 0 => Len(file) = Tcp!CaptureBlocks /\ (synced \/ tcpErr = "process")
      BY <2>1 DEF StreamInv, CaptureInv, Tcp!TypeOK
    <3>2. remaining = 0 =>
             /\ Len(file) * BlockBytes * Second >= SampleRate * 2 * Duration
             /\ (Len(file) - 1) * BlockBytes * Second < SampleRate * 2 * Duration
      BY <3>1, CaptureSize
    <3> QED BY <2>2, <3>1, <3>2 DEF StreamInv, CaptureInv, Tcp!CaptureExact
  <2> QED BY <2>1, <2>3, <2>4 DEF StreamExact, Tcp!StreamExact
<1> QED BY <1>1, StreamInvariant, PTL
=============================================================================
