-------------------------- MODULE DirectRingProofs --------------------------
(***************************************************************************)
(* Proofs about DirectRing for every number of buffers and batches.        *)
(***************************************************************************)
EXTENDS DirectRing, TLAPS

(* The slot k places after slot s.                                         *)
Place(s, k) == IF s + k >= N THEN s + k - N ELSE s + k

(* The counts and the two indices of the ring.                             *)
CountInv ==
  /\ taken = IF recv \in {"process", "discard"} THEN returned + 1 ELSE returned
  /\ taken <= filled /\ filled <= returned + N
  /\ consumer = returned % N
  /\ producer = IF filled = returned + N THEN consumer ELSE Place(consumer, filled - returned)
  /\ thread = "reading" => filled < returned + N

(* The slot k places after the consumer's: the batches in the ring occupy  *)
(* the slots from the consumer on, in sequence; first the one the receiver *)
(* holds, then the ready ones, then the slot the reader fills; the rest is *)
(* free.                                                                   *)
SlotInv(k) ==
  LET s == Place(consumer, k)
  IN  /\ state[s] = IF k < taken - returned THEN "claimed"
                    ELSE IF k < filled - returned THEN "ready"
                    ELSE IF k = filled - returned /\ thread = "reading" THEN "filling"
                    ELSE "free"
      /\ k < filled - returned => batch[s] = returned + k

OrderInv == CountInv /\ \A k \in 0 .. (N - 1) : SlotInv(k)

(* A thread that sleeps is at its wait, and waits for what has not come.   *)
SleepInv ==
  /\ NoLostWakeup
  /\ "reader" \in asleep => thread = "idle"
  /\ "receiver" \in asleep => recv = "next"

(* The order of Close, and who may end whom.                               *)
CloseInv ==
  /\ closing # "no" => ctxDone
  /\ stopping => closing \in {"wait", "join", "freed"}
  /\ thread = "leaving" => stopping
  /\ readDone => readResult = "failed" \/ stopping
  /\ closing \in {"join", "freed"} => recv = "exited"
  /\ closing = "freed" => thread = "ended"
  /\ recv = "failed" => readResult = "failed" \/ ctxDone
  /\ ErrorsAreReal

ThreadInv == TypeOK /\ OrderInv /\ SleepInv /\ CloseInv

-----------------------------------------------------------------------------
(* Slot arithmetic: the next slot, and the slot of the next batch.         *)
LEMMA NextSlotIs ==
  ASSUME RingAssumption, NEW s \in Slots
  PROVE  NextSlot(s) = IF s + 1 = N THEN 0 ELSE s + 1
<1>1. CASE s + 1 = N
  BY <1>1, N % N = 0 DEF NextSlot, RingAssumption, Slots
<1>2. CASE s + 1 # N
  BY <1>2, (s + 1) % N = s + 1 DEF NextSlot, RingAssumption, Slots
<1> QED BY <1>1, <1>2

LEMMA SlotOfNext ==
  ASSUME RingAssumption, NEW a \in Nat
  PROVE  a % N \in Slots /\ (a + 1) % N = NextSlot(a % N)
<1> DEFINE q == a \div N
           r == a % N
<1>1. q \in Int /\ r \in Slots /\ a = N * q + r
  BY DEF RingAssumption, Slots
<1> HIDE DEF q, r
<1>2. a + 1 = N * q + (r + 1) /\ N * (q + 1) = N * q + N /\ N * q \in Int
  BY <1>1 DEF RingAssumption, Slots
<1>3. CASE r + 1 = N
  <2>1. a + 1 = N * (q + 1) + 0
    BY <1>1, <1>2, <1>3 DEF RingAssumption
  <2>2. (a + 1) % N = 0
    BY <1>1, <2>1 DEF RingAssumption
  <2> QED BY <1>1, <1>3, <2>2, NextSlotIs DEF r
<1>4. CASE r + 1 # N
  <2>1. r + 1 \in 0 .. (N - 1)
    BY <1>1, <1>4 DEF RingAssumption, Slots
  <2>2. \A b \in Nat, u \in 0 .. (N - 1) : b = N * q + u => b % N = u
    BY <1>1 DEF RingAssumption
  <2>3. (a + 1) % N = r + 1
    BY <1>2, <2>1, <2>2
  <2> QED BY <1>1, <1>4, <2>3, NextSlotIs DEF r
<1> QED BY <1>3, <1>4

(* Different places are different slots, every slot is some place, and     *)
(* moving the base by one slot moves every place.                          *)
LEMMA Places ==
  ASSUME RingAssumption, NEW s \in Slots
  PROVE  /\ Place(s, 0) = s
         /\ \A k \in 0 .. (N - 1) : Place(s, k) \in Slots
         /\ \A k, j \in 0 .. (N - 1) : Place(s, k) = Place(s, j) => k = j
         /\ \A t \in Slots : \E k \in 0 .. (N - 1) : Place(s, k) = t
         /\ \A k \in 0 .. (N - 1) :
              NextSlot(Place(s, k)) = IF k = N - 1 THEN s ELSE Place(s, k + 1)
         /\ \A k \in 0 .. (N - 1) :
              Place(NextSlot(s), k) = IF k = N - 1 THEN s ELSE Place(s, k + 1)
<1> USE DEF Place, Slots, RingAssumption
<1>1. \A t \in Slots : \E k \in 0 .. (N - 1) : Place(s, k) = t
  <2> TAKE t \in Slots
  <2> DEFINE k == IF t >= s THEN t - s ELSE t - s + N
  <2>1. k \in 0 .. (N - 1) /\ Place(s, k) = t
    OBVIOUS
  <2> QED BY <2>1
<1>2. \A k \in 0 .. (N - 1) : Place(s, k) \in Slots
  OBVIOUS
<1>3. \A k \in 0 .. (N - 1) : NextSlot(Place(s, k)) = IF k = N - 1 THEN s ELSE Place(s, k + 1)
  BY <1>2, NextSlotIs
<1>4. \A k \in 0 .. (N - 1) : Place(NextSlot(s), k) = IF k = N - 1 THEN s ELSE Place(s, k + 1)
  BY NextSlotIs
<1> QED BY <1>1, <1>2, <1>3, <1>4

(* No step leaves the types of the state.                                  *)
LEMMA TypeStep ==
  ASSUME RingAssumption, TypeOK, [Next]_vars
  PROVE  TypeOK'
<1> USE DEF TypeOK, ringVars, flagVars, countVars, mainVars
<1>1. \A s \in Slots : NextSlot(s) \in Slots
  BY NextSlotIs DEF Slots, RingAssumption
<1>2. CASE ReaderAcquire
  BY <1>2, ZenonT(60) DEF ReaderAcquire, Threads
<1>3. CASE ReadReturns
  <2>1. CASE ReadAbandoned
    BY <2>1 DEF ReadAbandoned
  <2>2. ASSUME NEW short \in BOOLEAN, ReadCompletes(short) PROVE TypeOK'
    BY <1>1, <2>2 DEF ReadCompletes, Broadcast
  <2>3. CASE ReadFails
    BY <2>3 DEF ReadFails, Broadcast
  <2> QED BY <1>3, <2>1, <2>2, <2>3 DEF ReadReturns
<1>4. CASE ReaderEnds
  BY <1>4 DEF ReaderEnds, Broadcast
<1>5. CASE CheckContext
  BY <1>5, ZenonT(60) DEF CheckContext, Exit
<1>6. CASE TakeBatch
  <2>1. CASE state[consumer] = "ready"
    BY <1>6, <2>1 DEF TakeBatch
  <2>2. CASE state[consumer] # "ready" /\ (readDone \/ stopping)
    BY <1>6, <2>2 DEF TakeBatch
  <2>3. CASE state[consumer] # "ready" /\ ~readDone /\ ~stopping
    BY <1>6, <2>3 DEF TakeBatch, Threads
  <2> QED BY <2>1, <2>2, <2>3
<1>7. CASE DiscardBatch \/ \E keepRunning \in BOOLEAN : FinishBatch(keepRunning)
  <2>1. ReleaseSlot /\ UNCHANGED <<batch, ragged, producer, flagVars, thread, filled, taken>>
    BY <1>7 DEF DiscardBatch, FinishBatch
  <2>2. /\ state' \in [Slots -> {"free", "filling", "ready", "claimed"}]
        /\ consumer' \in Slots /\ returned' \in Nat /\ asleep' \subseteq Threads
    BY <1>1, <2>1 DEF ReleaseSlot, Broadcast
  <2>3. /\ recv' \in {"check", "refused", "exited"} /\ ctxDone' \in BOOLEAN
        /\ err' \in {"none", "source", "ragged", "process"} /\ closing' = closing
    BY <1>7 DEF DiscardBatch, FinishBatch, Exit
  <2> QED BY <2>1, <2>2, <2>3
<1>8. CASE CloseBegin \/ MainStep
  <2>1. CASE CloseBegin
    BY <2>1 DEF CloseBegin, MainStay
  <2>2. CASE CancelSource
    BY <2>2 DEF CancelSource, MainStay, Broadcast
  <2>3. CASE WaitReceiver
    BY <2>3 DEF WaitReceiver, MainStay
  <2>4. CASE JoinAndFree
    BY <2>4 DEF JoinAndFree, MainStay
  <2> QED BY <1>8, <2>1, <2>2, <2>3, <2>4 DEF MainStep
<1>9. CASE (\E t \in Threads : SpuriousWakeup(t)) \/ UNCHANGED vars
  BY <1>9 DEF SpuriousWakeup, vars
<1>10. CASE FailNext
  BY <1>10 DEF FailNext, Exit
<1> QED BY <1>2, <1>3, <1>4, <1>5, <1>6, <1>7, <1>8, <1>9, <1>10
        DEF Next, ReaderStep, ReceiverStep

(* The order of Close and the reasons of errors.                           *)
LEMMA CloseStep ==
  ASSUME TypeOK, CloseInv, [Next]_vars
  PROVE  CloseInv'
<1> USE DEF TypeOK, CloseInv, ErrorsAreReal, ringVars, flagVars, countVars, mainVars
<1>1. CASE ReaderStep
  BY <1>1 DEF ReaderStep, ReaderAcquire, ReadReturns, ReadAbandoned, ReadCompletes, ReadFails, ReaderEnds
<1>2. CASE CheckContext
  BY <1>2 DEF CheckContext, Exit
<1>3. CASE TakeBatch
  BY <1>3 DEF TakeBatch
<1>4. CASE DiscardBatch \/ \E keepRunning \in BOOLEAN : FinishBatch(keepRunning)
  BY <1>4 DEF DiscardBatch, FinishBatch, ReleaseSlot, Exit
<1>5. CASE CloseBegin \/ MainStep
  BY <1>5 DEF CloseBegin, MainStep, CancelSource, WaitReceiver, JoinAndFree, MainStay
<1>6. CASE (\E t \in Threads : SpuriousWakeup(t)) \/ UNCHANGED vars
  BY <1>6 DEF SpuriousWakeup, vars
<1>7. CASE FailNext
  BY <1>7 DEF FailNext, Exit
<1> QED BY <1>1, <1>2, <1>3, <1>4, <1>5, <1>6, <1>7 DEF Next, ReceiverStep

(* No wakeup is lost.                                                      *)
LEMMA SleepStep ==
  ASSUME TypeOK, SleepInv, [Next]_vars
  PROVE  SleepInv'
<1> USE DEF TypeOK, SleepInv, NoLostWakeup, ringVars, flagVars, countVars, mainVars
<1>1. CASE ReaderAcquire
  BY <1>1 DEF ReaderAcquire
<1>2. CASE ReadAbandoned
  BY <1>2 DEF ReadAbandoned
<1>3. CASE (\E short \in BOOLEAN : ReadCompletes(short)) \/ ReadFails \/ ReaderEnds
  BY <1>3 DEF ReadCompletes, ReadFails, ReaderEnds, Broadcast
<1>4. CASE CheckContext
  BY <1>4 DEF CheckContext, Exit
<1>5. CASE TakeBatch
  BY <1>5 DEF TakeBatch
<1>6. CASE DiscardBatch \/ \E keepRunning \in BOOLEAN : FinishBatch(keepRunning)
  BY <1>6 DEF DiscardBatch, FinishBatch, ReleaseSlot, Broadcast
<1>7. CASE CloseBegin \/ MainStep
  BY <1>7 DEF CloseBegin, MainStep, CancelSource, WaitReceiver, JoinAndFree, MainStay, Broadcast
<1>8. CASE (\E t \in Threads : SpuriousWakeup(t)) \/ UNCHANGED vars
  BY <1>8 DEF SpuriousWakeup, vars
<1>9. CASE FailNext
  BY <1>9 DEF FailNext, Exit
<1> QED BY <1>1, <1>2, <1>3, <1>4, <1>5, <1>6, <1>7, <1>8, <1>9
        DEF Next, ReaderStep, ReadReturns, ReceiverStep

-----------------------------------------------------------------------------
(* The ring stays in order.                                                *)

(* A step that leaves the ring and its users' places alone.                *)
LEMMA OrderSame ==
  ASSUME OrderInv, UNCHANGED <<ringVars, countVars>>,
         thread' = "reading" <=> thread = "reading",
         recv' \in {"process", "discard"} <=> recv \in {"process", "discard"}
  PROVE  OrderInv'
  BY DEF OrderInv, CountInv, SlotInv, ringVars, countVars

(* One place of the ring changes.                                          *)
LEMMA OtherPlaces ==
  ASSUME RingAssumption, TypeOK, NEW j \in 0 .. (N - 1)
  PROVE  \A k \in 0 .. (N - 1) :
           Place(consumer, k) \in Slots /\ (Place(consumer, k) = Place(consumer, j) => k = j)
<1>1. consumer \in Slots
  BY DEF TypeOK
<1> QED BY <1>1, Places

LEMMA OneState ==
  ASSUME RingAssumption, TypeOK, NEW j \in 0 .. (N - 1), NEW v,
         state' = [state EXCEPT ![Place(consumer, j)] = v]
  PROVE  \A k \in 0 .. (N - 1) :
           state'[Place(consumer, k)] = IF k = j THEN v ELSE state[Place(consumer, k)]
  BY OtherPlaces DEF TypeOK

LEMMA OneBatch ==
  ASSUME RingAssumption, TypeOK, NEW j \in 0 .. (N - 1), NEW v,
         batch' = [batch EXCEPT ![Place(consumer, j)] = v]
  PROVE  \A k \in 0 .. (N - 1) :
           batch'[Place(consumer, k)] = IF k = j THEN v ELSE batch[Place(consumer, k)]
  BY OtherPlaces DEF TypeOK

(* The reader marks, gives up or completes the slot it fills.              *)
LEMMA OrderReader ==
  ASSUME RingAssumption, TypeOK, OrderInv, ReaderStep
  PROVE  OrderInv'
<1> USE DEF ringVars, flagVars, countVars
<1> DEFINE j == filled - returned
<1>0. /\ consumer \in Slots /\ filled \in Nat /\ returned \in Nat /\ taken \in Nat /\ N \in Nat
      /\ returned <= taken /\ taken <= filled
  BY DEF TypeOK, OrderInv, CountInv, RingAssumption
<1>1. CASE ReaderAcquire
  <2>1. CASE stopping \/ state[producer] # "free"
    BY <1>1, <2>1, OrderSame DEF ReaderAcquire
  <2>2. CASE ~stopping /\ state[producer] = "free"
    <3>1. j \in 0 .. (N - 1) /\ producer = Place(consumer, j)
      <4>1. CASE j = N
        <5>1. producer = Place(consumer, 0) /\ 0 \in 0 .. (N - 1)
          BY <1>0, <4>1, Places DEF OrderInv, CountInv, RingAssumption
        <5>2. state[Place(consumer, 0)] \in {"claimed", "ready"}
          BY <1>0, <4>1, <5>1 DEF OrderInv, SlotInv, RingAssumption
        <5> QED BY <2>2, <5>1, <5>2
      <4> QED BY <1>0, <4>1 DEF OrderInv, CountInv
    <3>2. \A k \in 0 .. (N - 1) :
            state'[Place(consumer, k)] = IF k = j THEN "filling" ELSE state[Place(consumer, k)]
      BY <1>1, <2>2, <3>1, OneState DEF ReaderAcquire
    <3> QED BY <1>0, <1>1, <2>2, <3>1, <3>2 DEF ReaderAcquire, OrderInv, CountInv, SlotInv
  <2> QED BY <2>1, <2>2
<1>2. ASSUME thread = "reading"
      PROVE  j \in 0 .. (N - 1) /\ producer = Place(consumer, j)
  BY <1>0, <1>2 DEF OrderInv, CountInv
<1>3. CASE ReadAbandoned \/ ReadFails
  <2>1. \A k \in 0 .. (N - 1) :
          state'[Place(consumer, k)] = IF k = j THEN "free" ELSE state[Place(consumer, k)]
    BY <1>2, <1>3, OneState DEF ReadAbandoned, ReadFails
  <2> QED BY <1>0, <1>2, <1>3, <2>1 DEF ReadAbandoned, ReadFails, OrderInv, CountInv, SlotInv
<1>4. ASSUME NEW short \in BOOLEAN, ReadCompletes(short)
      PROVE  OrderInv'
  <2>1. j \in 0 .. (N - 1) /\ producer = Place(consumer, j)
    BY <1>2, <1>4 DEF ReadCompletes
  <2>2. \A k \in 0 .. (N - 1) :
          /\ state'[Place(consumer, k)] = IF k = j THEN "ready" ELSE state[Place(consumer, k)]
          /\ batch'[Place(consumer, k)] = IF k = j THEN filled ELSE batch[Place(consumer, k)]
    <3>1. /\ state' = [state EXCEPT ![Place(consumer, j)] = "ready"]
          /\ batch' = [batch EXCEPT ![Place(consumer, j)] = filled]
      BY <1>4, <2>1 DEF ReadCompletes
    <3>2. \A k \in 0 .. (N - 1) :
            state'[Place(consumer, k)] = IF k = j THEN "ready" ELSE state[Place(consumer, k)]
      BY <2>1, <3>1, OneState
    <3>3. \A k \in 0 .. (N - 1) :
            batch'[Place(consumer, k)] = IF k = j THEN filled ELSE batch[Place(consumer, k)]
      BY <2>1, <3>1, OneBatch
    <3> QED BY <3>2, <3>3
  <2>3. CountInv'
    <3>1. producer' = IF j = N - 1 THEN consumer ELSE Place(consumer, j + 1)
      BY <1>0, <1>4, <2>1, Places DEF ReadCompletes
    <3>2. filled' = filled + 1 /\ filled' - returned = j + 1
      BY <1>0, <1>4 DEF ReadCompletes
    <3> QED BY <1>0, <1>4, <2>1, <3>1, <3>2 DEF ReadCompletes, OrderInv, CountInv
  <2>4. \A k \in 0 .. (N - 1) : SlotInv(k)'
    BY <1>0, <1>4, <2>1, <2>2 DEF ReadCompletes, OrderInv, SlotInv
  <2> QED BY <2>3, <2>4 DEF OrderInv
<1>5. CASE ReaderEnds
  BY <1>5, OrderSame DEF ReaderEnds
<1> QED BY <1>1, <1>3, <1>4, <1>5 DEF ReaderStep, ReadReturns

(* The receiver claims the oldest ready slot and returns the one it holds. *)
LEMMA OrderReceiver ==
  ASSUME RingAssumption, TypeOK, OrderInv, ReceiverStep
  PROVE  OrderInv'
<1> USE DEF ringVars, flagVars, countVars
<1>0. /\ consumer \in Slots /\ filled \in Nat /\ returned \in Nat /\ taken \in Nat /\ N \in Nat
      /\ returned <= taken /\ taken <= filled /\ filled <= returned + N
      /\ 0 \in 0 .. (N - 1) /\ Place(consumer, 0) = consumer
  BY Places DEF TypeOK, OrderInv, CountInv, RingAssumption
<1>1. CASE CheckContext
  BY <1>1, OrderSame DEF CheckContext, Exit
<1>2. CASE TakeBatch
  <2>1. CASE state[consumer] # "ready"
    BY <1>2, <2>1, OrderSame DEF TakeBatch
  <2>2. CASE state[consumer] = "ready"
    <3>1. taken = returned /\ filled > taken
      BY <1>0, <1>2, <2>2 DEF TakeBatch, OrderInv, CountInv, SlotInv
    <3>2. \A k \in 0 .. (N - 1) :
            state'[Place(consumer, k)] = IF k = 0 THEN "claimed" ELSE state[Place(consumer, k)]
      BY <1>0, <1>2, <2>2, OneState DEF TakeBatch
    <3>3. taken' = returned + 1 /\ recv' \in {"process", "discard"}
      BY <1>2, <2>2, <3>1 DEF TakeBatch
    <3> QED BY <1>0, <1>2, <2>2, <3>1, <3>2, <3>3 DEF TakeBatch, OrderInv, CountInv, SlotInv
  <2> QED BY <2>1, <2>2
<1>3. CASE DiscardBatch \/ \E keepRunning \in BOOLEAN : FinishBatch(keepRunning)
  <2>1. /\ recv \in {"process", "discard"} /\ recv' \notin {"process", "discard"}
        /\ ReleaseSlot /\ UNCHANGED <<batch, producer, thread, filled, taken>>
    BY <1>3 DEF DiscardBatch, FinishBatch, Exit
  <2>2. taken = returned + 1 /\ filled >= returned + 1 /\ returned' = returned + 1
    BY <1>0, <2>1 DEF OrderInv, CountInv, ReleaseSlot
  <2>3. consumer' = NextSlot(consumer) /\ consumer' = returned' % N /\ consumer' \in Slots
    BY <1>0, <2>1, <2>2, SlotOfNext, NextSlotIs DEF ReleaseSlot, OrderInv, CountInv, Slots
  <2>4. \A k \in 0 .. (N - 1) :
          Place(consumer', k) = IF k = N - 1 THEN consumer ELSE Place(consumer, k + 1)
    <3>1. \A k \in 0 .. (N - 1) :
            Place(NextSlot(consumer), k) = IF k = N - 1 THEN consumer ELSE Place(consumer, k + 1)
      BY <1>0, Places
    <3> QED BY <2>3, <3>1
  <2>5. \A k \in 0 .. (N - 1) :
          state'[Place(consumer, k)] = IF k = 0 THEN "free" ELSE state[Place(consumer, k)]
    BY <1>0, <2>1, OneState DEF ReleaseSlot
  <2>6. CountInv'
    <3>1. filled - returned' = (filled - returned) - 1
      BY <1>0, <2>2
    <3>2. CASE filled = returned + N
      BY <1>0, <2>1, <2>2, <2>3, <2>4, <3>1, <3>2 DEF OrderInv, CountInv, RingAssumption
    <3>3. CASE filled < returned + N
      <4>1. filled - returned' \in 0 .. (N - 1) /\ filled - returned' # N - 1
        BY <1>0, <2>2, <3>3
      <4>2. Place(consumer', filled - returned') = Place(consumer, filled - returned)
        BY <1>0, <2>4, <3>1, <4>1
      <4> QED BY <1>0, <2>1, <2>2, <2>3, <3>3, <4>2 DEF OrderInv, CountInv, RingAssumption
    <3> QED BY <1>0, <3>2, <3>3
  <2>7. ASSUME NEW k \in 0 .. (N - 1)
        PROVE  SlotInv(k)'
    <3>1. CASE k = N - 1
      BY <1>0, <2>1, <2>2, <2>4, <2>5, <3>1 DEF OrderInv, SlotInv, CountInv
    <3>2. CASE k # N - 1
      <4>1. k + 1 \in 0 .. (N - 1) /\ Place(consumer', k) = Place(consumer, k + 1)
        BY <1>0, <2>4, <3>2
      <4>2. state'[Place(consumer', k)] = state[Place(consumer, k + 1)]
        BY <1>0, <2>5, <4>1
      <4>3. SlotInv(k + 1)
        BY <4>1 DEF OrderInv
      <4> QED BY <1>0, <2>1, <2>2, <4>1, <4>2, <4>3 DEF SlotInv
    <3> QED BY <3>1, <3>2
  <2> QED BY <2>6, <2>7 DEF OrderInv
<1>4. CASE FailNext
  BY <1>4, OrderSame DEF FailNext, Exit
<1> QED BY <1>1, <1>2, <1>3, <1>4 DEF ReceiverStep

LEMMA OrderStep ==
  ASSUME RingAssumption, TypeOK, OrderInv, [Next]_vars
  PROVE  OrderInv'
<1> USE DEF ringVars, flagVars, countVars
<1>1. CASE CloseBegin \/ MainStep
  BY <1>1, OrderSame DEF CloseBegin, MainStep, CancelSource, WaitReceiver, JoinAndFree, MainStay
<1>2. CASE (\E t \in Threads : SpuriousWakeup(t)) \/ UNCHANGED vars
  BY <1>2, OrderSame DEF SpuriousWakeup, vars
<1> QED BY <1>1, <1>2, OrderReader, OrderReceiver DEF Next

LEMMA ThreadInit ==
  ASSUME RingAssumption, Init
  PROVE  ThreadInv
<1>1. TypeOK
  <2>1. 0 \in Slots
    BY DEF RingAssumption, Slots
  <2> QED BY <2>1 DEF Init, TypeOK
<1>2. OrderInv
  <2>1. consumer = returned % N /\ consumer \in Slots /\ \A k \in 0 .. (N - 1) : Place(consumer, k) \in Slots
    <3>1. 0 \in Slots /\ 0 % N = 0
      BY DEF RingAssumption, Slots
    <3> QED BY <3>1, Places DEF Init
  <2>2. CountInv
    <3>1. Place(consumer, 0) = consumer
      BY <2>1, Places
    <3> QED BY <2>1, <3>1 DEF Init, CountInv, RingAssumption
  <2> QED BY <2>1, <2>2 DEF Init, OrderInv, SlotInv, RingAssumption
<1>3. SleepInv /\ CloseInv
  BY DEF Init, SleepInv, NoLostWakeup, CloseInv, ErrorsAreReal
<1> QED BY <1>1, <1>2, <1>3 DEF ThreadInv

LEMMA ThreadStep ==
  ASSUME RingAssumption, ThreadInv, [Next]_vars
  PROVE  ThreadInv'
  BY TypeStep, OrderStep, SleepStep, CloseStep DEF ThreadInv

(* The inductive invariant of the ring, its threads and Close.             *)
THEOREM ThreadInvariant ==
  ASSUME RingAssumption
  PROVE  Spec => []ThreadInv
<1>1. Init => ThreadInv
  BY ThreadInit
<1>2. ThreadInv /\ [Next]_vars => ThreadInv'
  BY ThreadStep
<1> QED BY <1>1, <1>2, PTL DEF Spec

(* What the invariant means for the users of the ring.                     *)
LEMMA ThreadSafe ==
  ASSUME RingAssumption, ThreadInv
  PROVE  RingSafe
<1>0. /\ consumer \in Slots /\ filled \in Nat /\ returned \in Nat /\ taken \in Nat /\ N \in Nat
      /\ CountInv /\ 0 \in 0 .. (N - 1) /\ Place(consumer, 0) = consumer
      /\ \A k \in 0 .. (N - 1) : SlotInv(k)
  BY Places DEF ThreadInv, TypeOK, OrderInv, RingAssumption
<1>1. InOrder
  BY <1>0 DEF InOrder, CountInv, SlotInv
<1>2. NotBothAsleep
  <2> SUFFICES ASSUME asleep = Threads PROVE FALSE
    BY DEF NotBothAsleep
  <2>1. /\ thread = "idle" /\ recv = "next"
        /\ state[producer] # "free" /\ state[consumer] # "ready"
    BY DEF ThreadInv, SleepInv, NoLostWakeup, Threads
  <2>2. taken = returned /\ filled = returned
    BY <1>0, <2>1 DEF CountInv, SlotInv
  <2>3. producer = consumer
    BY <1>0, <2>2 DEF CountInv
  <2> QED BY <1>0, <2>1, <2>2, <2>3 DEF SlotInv
<1>3. FreedUnused
  <2> SUFFICES ASSUME closing = "freed", NEW s \in Slots
               PROVE  thread = "ended" /\ recv = "exited" /\ state[s] \notin {"filling", "claimed"}
    BY DEF FreedUnused, ThreadInv, CloseInv
  <2>1. thread = "ended" /\ recv = "exited"
    BY DEF ThreadInv, CloseInv
  <2>2. PICK k \in 0 .. (N - 1) : Place(consumer, k) = s
    BY <1>0, Places
  <2>3. taken = returned
    BY <1>0, <2>1 DEF CountInv
  <2> QED BY <1>0, <2>1, <2>2, <2>3 DEF SlotInv
<1> QED BY <1>1, <1>2, <1>3 DEF RingSafe, ThreadInv, SleepInv, CloseInv

(* For every number of buffers: batches reach the receiver in order, no    *)
(* wakeup is lost, reader and receiver never wait for each other, Close    *)
(* frees nothing in use and reports no error of its own making.            *)
THEOREM RingSafeThm ==
  ASSUME RingAssumption
  PROVE  Spec => []RingSafe
<1>1. ThreadInv => RingSafe
  BY ThreadSafe
<1> QED BY <1>1, ThreadInvariant, PTL

-----------------------------------------------------------------------------
(* Every step of the ring is a step of the contract or changes nothing it  *)
(* speaks of.                                                              *)
LEMMA ContractStep ==
  ASSUME RingAssumption, ThreadInv, ThreadInv', [Next]_vars
  PROVE  [Stream!Next]_(Stream!streamVars)
<1> USE DEF ringVars, flagVars, countVars, mainVars
<1> DEFINE filling == {s \in Slots : state[s] = "filling"}
<1>0. /\ consumer \in Slots /\ filled \in Nat /\ returned \in Nat /\ taken \in Nat /\ N \in Nat
      /\ CountInv /\ 0 \in 0 .. (N - 1) /\ Place(consumer, 0) = consumer
      /\ \A k \in 0 .. (N - 1) : SlotInv(k)
      /\ state \in [Slots -> {"free", "filling", "ready", "claimed"}]
  BY Places DEF ThreadInv, TypeOK, OrderInv, RingAssumption
<1>1. Stream!HeldSlots = {s \in Slots : state[s] = "claimed"}
  <2>1. taken = returned \/ (taken = returned + 1 /\ consumer = returned % N)
    BY <1>0 DEF CountInv
  <2>2. ASSUME NEW s \in Slots
        PROVE  state[s] = "claimed" <=> taken = returned + 1 /\ s = consumer
    <3>1. PICK k \in 0 .. (N - 1) : Place(consumer, k) = s
      BY <1>0, Places
    <3>2. Place(consumer, k) = Place(consumer, 0) => k = 0
      BY <1>0, Places
    <3>3. k = 0 <=> s = consumer
      BY <1>0, <3>1, <3>2
    <3> QED BY <1>0, <2>1, <3>1, <3>3 DEF SlotInv
  <2>3. Stream!HeldSlots = IF taken = returned THEN {} ELSE {consumer}
    <3>1. CASE taken = returned
      BY <1>0, <3>1, returned .. (taken - 1) = {} DEF Stream!HeldSlots
    <3>2. CASE taken = returned + 1 /\ consumer = returned % N
      BY <1>0, <3>2, returned .. (taken - 1) = {returned} DEF Stream!HeldSlots
    <3> QED BY <1>0, <2>1, <3>1, <3>2
  <2> QED BY <1>0, <2>1, <2>2, <2>3
<1>2. ASSUME UNCHANGED <<taken, returned>>,
             \A s \in Slots : state[s] = "claimed" => state'[s] = "claimed"
      PROVE  Stream!Device
  BY <1>1, <1>2 DEF Stream!Device, Stream!Slots, Slots, ThreadInv, TypeOK
<1>3. ASSUME UNCHANGED <<state, countVars>>
      PROVE  UNCHANGED Stream!streamVars
  BY <1>3 DEF Stream!streamVars
<1>4. CASE ReaderAcquire
  <2>1. CASE stopping \/ state[producer] # "free"
    BY <1>3, <1>4, <2>1 DEF ReaderAcquire
  <2>2. CASE ~stopping /\ state[producer] = "free"
    <3>1. \A s \in Slots : state[s] = "claimed" => state'[s] = "claimed"
      BY <1>0, <1>4, <2>2 DEF ReaderAcquire
    <3> QED BY <1>2, <1>4, <2>2, <3>1 DEF ReaderAcquire, Stream!Next
  <2> QED BY <2>1, <2>2
<1>5. CASE ReadReturns
  <2>1. thread = "reading" /\ UNCHANGED <<taken, returned>>
    BY <1>5 DEF ReadReturns, ReadAbandoned, ReadCompletes, ReadFails
  <2>2. producer = Place(consumer, filled - returned) /\ filled - returned \in 0 .. (N - 1)
    BY <1>0, <2>1 DEF CountInv
  <2>3. state[producer] = "filling"
    BY <1>0, <2>1, <2>2 DEF SlotInv, CountInv
  <2>4. \A s \in Slots : state[s] = "claimed" => state'[s] = "claimed"
    BY <1>0, <1>5, <2>3 DEF ReadReturns, ReadAbandoned, ReadCompletes, ReadFails
  <2> QED BY <1>2, <2>1, <2>4 DEF Stream!Next
<1>6. CASE TakeBatch
  <2>1. CASE state[consumer] # "ready"
    BY <1>3, <1>6, <2>1 DEF TakeBatch
  <2>2. CASE state[consumer] = "ready"
    <3>1. taken = returned /\ taken < returned + N /\ taken % N = consumer
      BY <1>0, <1>6, <2>2 DEF TakeBatch, CountInv, SlotInv
    <3>2. \A s \in Slots : state'[s] = "filling" <=> state[s] = "filling"
      BY <1>0, <1>6, <2>2 DEF TakeBatch
    <3>3. filling' = filling /\ taken % N \notin filling
      BY <2>2, <3>1, <3>2
    <3>4. taken' = taken + 1 /\ UNCHANGED returned
      BY <1>6, <2>2 DEF TakeBatch
    <3> QED BY <3>1, <3>3, <3>4 DEF Stream!Take, Stream!Next
  <2> QED BY <2>1, <2>2
<1>7. CASE DiscardBatch \/ \E keepRunning \in BOOLEAN : FinishBatch(keepRunning)
  <2>1. /\ recv \in {"process", "discard"} /\ state[consumer] = "claimed"
        /\ ReleaseSlot /\ UNCHANGED taken
    BY <1>7 DEF DiscardBatch, FinishBatch
  <2>2. \A s \in Slots : state'[s] = "filling" <=> state[s] = "filling"
    BY <1>0, <2>1 DEF ReleaseSlot
  <2>3. filling' = filling
    BY <2>2
  <2>4. returned < taken
    BY <1>0, <2>1 DEF CountInv
  <2> QED BY <2>1, <2>3, <2>4 DEF ReleaseSlot, Stream!GiveBack, Stream!Next
<1>8. CASE \/ ReaderEnds \/ CheckContext \/ FailNext \/ CloseBegin \/ MainStep
           \/ (\E t \in Threads : SpuriousWakeup(t)) \/ UNCHANGED vars
  BY <1>3, <1>8 DEF ReaderEnds, CheckContext, FailNext, CloseBegin, MainStep, CancelSource, WaitReceiver,
     JoinAndFree, MainStay, SpuriousWakeup, vars
<1> QED BY <1>4, <1>5, <1>6, <1>7, <1>8 DEF Next, ReaderStep, ReceiverStep, Stream!Next

(* The reader thread's ring implements the contract of the batch source,   *)
(* for every number of buffers: the receiver may be proved against         *)
(* BatchStream whichever ring it runs on.                                  *)
THEOREM ContractThm ==
  ASSUME RingAssumption
  PROVE  Spec => Contract
<1>1. Init => Stream!Init
  BY DEF Init, Stream!Init, Slots
<1>2. ThreadInv /\ ThreadInv' /\ [Next]_vars => [Stream!Next]_(Stream!streamVars)
  BY ContractStep
<1> QED BY <1>1, <1>2, ThreadInvariant, PTL DEF Spec, Contract, Stream!Spec
=============================================================================
