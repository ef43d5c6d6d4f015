---------------------------- MODULE UsbRingProofs ----------------------------
(***************************************************************************)
(* Proofs about UsbRing for every number of slots and every set of         *)
(* threads.                                                                *)
(***************************************************************************)
EXTENDS UsbRing, TLAPS

(* Remainders: the facts about slot indices that the ring relies on.       *)
LEMMA DivMod ==
  ASSUME NEW a \in Nat
  PROVE  /\ a \div N \in Int /\ a % N \in Slots
         /\ a = N * (a \div N) + (a % N)
  BY RingAssumption DEF Slots

LEMMA SmallMultiple ==
  ASSUME NEW k \in Int, N * k < N, N * k > -N
  PROVE  k = 0
<1>1. ASSUME k >= 1 PROVE FALSE
  BY <1>1, RingAssumption, N * k >= N * 1
<1>2. ASSUME k <= -1 PROVE FALSE
  BY <1>2, RingAssumption, N * k <= N * (-1)
<1> QED BY <1>1, <1>2

(* A slot reused N sequences later is the same slot.                       *)
LEMMA ModPlusN ==
  ASSUME NEW a \in Nat
  PROVE  (a + N) % N = a % N
<1> DEFINE q == a \div N
           p == (a + N) \div N
           r == a % N
           u == (a + N) % N
<1>1. a = N * q + r /\ q \in Int /\ r \in Slots
  BY DivMod
<1>2. a + N = N * p + u /\ p \in Int /\ u \in Slots
  BY DivMod, RingAssumption
<1> HIDE DEF q, p, r, u
<1>3. N * (p - q - 1) = r - u
  BY <1>1, <1>2, RingAssumption DEF Slots
<1>4. p - q - 1 = 0
  BY <1>1, <1>2, <1>3, SmallMultiple, RingAssumption DEF Slots
<1>5. r = u
  BY <1>1, <1>2, <1>3, <1>4, RingAssumption DEF Slots
<1> QED BY <1>5 DEF r, u

(* Two sequences of one window of N that share a slot are equal.           *)
LEMMA ModInjective ==
  ASSUME NEW a \in Nat, NEW b \in Nat, a <= b, b < a + N, a % N = b % N
  PROVE  a = b
<1> DEFINE q == a \div N
           p == b \div N
           r == a % N
<1>1. a = N * q + r /\ q \in Int /\ r \in Slots
  BY DivMod
<1>2. b = N * p + r /\ p \in Int
  BY DivMod
<1> HIDE DEF q, p, r
<1>3. N * (p - q) = b - a
  BY <1>1, <1>2, RingAssumption DEF Slots
<1>4. p - q = 0
  BY <1>1, <1>2, <1>3, SmallMultiple, RingAssumption DEF Slots
<1> QED BY <1>1, <1>2, <1>4, RingAssumption DEF Slots

LEMMA ModSlot ==
  ASSUME NEW s \in Slots
  PROVE  s \in Nat /\ s % N = s
  BY RingAssumption DEF Slots

(* No step leaves the types of the state.                                  *)
LEMMA TypeStep ==
  ASSUME TypeOK, [Next]_vars
  PROVE  TypeOK'
<1> USE DEF TypeOK, slotVars, hwVars, flagVars, cursorVars, threadVars, lifeVars
<1>1. ASSUME NEW s \in Slots, NEW result \in {"ok", "error"}, Complete(s, result)
     PROVE  TypeOK'
  <2>1. SlotTypeOK'
    BY <1>1 DEF SlotTypeOK, SlotStates, ThreadTypeOK, Complete, OldestInFlight
  <2>2. CountTypeOK'
    BY <1>1 DEF CountTypeOK, ThreadTypeOK, Complete, OldestInFlight
  <2>3. FlagTypeOK'
    BY <1>1 DEF FlagTypeOK, Complete, OldestInFlight
  <2>4. ThreadTypeOK'
    BY <1>1 DEF ThreadTypeOK, Pcs, IoPcs, StopPcs, ClosePcs, CountTypeOK, Complete, OldestInFlight
  <2> QED BY <2>1, <2>2, <2>3, <2>4
<1>2. ASSUME NEW t \in Threads, StartBegin(t)
     PROVE  TypeOK'
  BY <1>2 DEF SlotTypeOK, CountTypeOK, FlagTypeOK, ThreadTypeOK,
     Pcs, IoPcs, StopPcs, ClosePcs, StartBegin, IoUnlocked, Idle, Goto
<1>3. ASSUME NEW t \in Threads, SetInterface(t)
     PROVE  TypeOK'
  <2>1. 0 \in Slots /\ N \in Nat /\ \A s \in Slots : s \in Nat
    BY RingAssumption DEF Slots
  <2>2. SlotTypeOK'
    BY <1>3 DEF SlotTypeOK, SlotStates, SetInterface
  <2>3. CountTypeOK'
    BY <1>3, <2>1 DEF CountTypeOK, SetInterface
  <2>4. FlagTypeOK'
    BY <1>3 DEF FlagTypeOK, SetInterface
  <2>5. ThreadTypeOK'
    BY <1>3, <2>1 DEF ThreadTypeOK, Pcs, IoPcs, SetInterface, Return, Goto
  <2> QED BY <2>2, <2>3, <2>4, <2>5
<1>4. ASSUME NEW t \in Threads, Fill(t)
     PROVE  TypeOK'
  <2>1. cur[t] \in Slots /\ (cur[t] # N - 1 => cur[t] + 1 \in Slots)
    BY RingAssumption DEF ThreadTypeOK, Slots
  <2>2. SlotTypeOK'
    BY <1>4, <2>1 DEF SlotTypeOK, Fill, LastFill, SubmitSucceeds, SubmitFails
  <2>3. CountTypeOK'
    BY <1>4, <2>1 DEF CountTypeOK, Fill, LastFill, SubmitSucceeds, SubmitFails
  <2>4. FlagTypeOK'
    BY <1>4 DEF FlagTypeOK, Fill, LastFill
  <2>5. ThreadTypeOK'
    BY <1>4, <2>1 DEF ThreadTypeOK, Pcs, IoPcs, Fill, LastFill, Return, Goto
  <2> QED BY <2>2, <2>3, <2>4, <2>5
<1>5. ASSUME NEW t \in Threads, FillKill(t)
     PROVE  TypeOK'
  BY <1>5 DEF SlotTypeOK, CountTypeOK, FlagTypeOK, ThreadTypeOK,
     Pcs, IoPcs, StopPcs, ClosePcs, FillKill, Return, Goto, AnchorEmpty
<1>6. ASSUME NEW t \in Threads, NEW s \in Slots, NEW q \in 0 .. MaxSubmit,
              NEW label \in {"relSubmit", "exSubmit"}, ReleaseSlot(t, s, q, label)
     PROVE  TypeOK'
  <2>1. SlotTypeOK'
    BY <1>6 DEF SlotTypeOK, SlotStates, ThreadTypeOK, ReleaseSlot, Owed, NewSequence, IoUnlocked, Idle, Goto, ShuttingDown
  <2>2. CountTypeOK'
    BY <1>6 DEF CountTypeOK, ThreadTypeOK, ReleaseSlot, Owed, NewSequence, IoUnlocked, Idle, Goto, ShuttingDown
  <2>3. FlagTypeOK'
    BY <1>6 DEF FlagTypeOK, ReleaseSlot, Owed, NewSequence, IoUnlocked, Idle, Goto, ShuttingDown
  <2>4. ThreadTypeOK'
    BY <1>6 DEF ThreadTypeOK, Pcs, IoPcs, StopPcs, ClosePcs, CountTypeOK, ReleaseSlot, Owed, NewSequence, IoUnlocked, Idle, Goto, ShuttingDown
  <2> QED BY <2>1, <2>2, <2>3, <2>4
<1>7. ASSUME NEW t \in Threads, Resubmit(t)
     PROVE  TypeOK'
  <2>1. SlotTypeOK'
    BY <1>7 DEF SlotTypeOK, SlotStates, ThreadTypeOK, Resubmit, SubmitSucceeds, SubmitFails, Return, Goto
  <2>2. CountTypeOK'
    BY <1>7 DEF CountTypeOK, ThreadTypeOK, Resubmit, SubmitSucceeds, SubmitFails, Return, Goto
  <2>3. FlagTypeOK'
    BY <1>7 DEF FlagTypeOK, Resubmit, SubmitSucceeds, SubmitFails, Return, Goto
  <2>4. ThreadTypeOK'
    BY <1>7 DEF ThreadTypeOK, Pcs, IoPcs, StopPcs, ClosePcs, CountTypeOK, Resubmit, SubmitSucceeds, SubmitFails, Return, Goto
  <2> QED BY <2>1, <2>2, <2>3, <2>4
<1>8. ASSUME NEW t \in Threads, ReadBegin(t)
     PROVE  TypeOK'
  BY <1>8 DEF SlotTypeOK, CountTypeOK, FlagTypeOK, ThreadTypeOK,
     Pcs, IoPcs, StopPcs, ClosePcs, ReadBegin, IoUnlocked, Idle, Goto
<1>9. ASSUME NEW t \in Threads, Interrupted(t)
     PROVE  TypeOK'
  BY <1>9 DEF SlotTypeOK, CountTypeOK, FlagTypeOK, ThreadTypeOK,
     Pcs, IoPcs, StopPcs, ClosePcs, Interrupted, Return, Goto
<1>10. ASSUME NEW t \in Threads, Claim(t)
     PROVE  TypeOK'
  <2>1. SlotTypeOK'
    BY <1>10, DivMod DEF SlotTypeOK, SlotStates, ThreadTypeOK, Claim, ClaimFails, ClaimIndex, Return, Goto
  <2>2. CountTypeOK'
    BY <1>10, DivMod DEF CountTypeOK, ThreadTypeOK, Claim, ClaimFails, ClaimIndex, Return, Goto
  <2>3. FlagTypeOK'
    BY <1>10, DivMod DEF FlagTypeOK, Claim, ClaimFails, ClaimIndex, Return, Goto
  <2>4. ThreadTypeOK'
    BY <1>10, DivMod DEF ThreadTypeOK, Pcs, IoPcs, StopPcs, ClosePcs, CountTypeOK, Claim, ClaimFails, ClaimIndex, Return, Goto
  <2> QED BY <2>1, <2>2, <2>3, <2>4
<1>11. ASSUME NEW t \in Threads, CpuSync(t)
     PROVE  TypeOK'
  BY <1>11 DEF SlotTypeOK, CountTypeOK, FlagTypeOK, ThreadTypeOK,
     Pcs, IoPcs, StopPcs, ClosePcs, CpuSync, Return, Goto
<1>12. ASSUME NEW t \in Threads, CloseBegin(t)
     PROVE  TypeOK'
  BY <1>12 DEF SlotTypeOK, CountTypeOK, FlagTypeOK, ThreadTypeOK,
     Pcs, IoPcs, StopPcs, ClosePcs, CloseBegin, Goto
<1>13. ASSUME NEW t \in Threads, CloseKill(t)
     PROVE  TypeOK'
  BY <1>13 DEF SlotTypeOK, CountTypeOK, FlagTypeOK, ThreadTypeOK,
     Pcs, IoPcs, StopPcs, ClosePcs, CloseKill, Goto
<1>14. ASSUME NEW t \in Threads, CloseEnd(t)
     PROVE  TypeOK'
  <2>1. SlotTypeOK'
    BY <1>14 DEF SlotTypeOK, SlotStates, ThreadTypeOK, CloseEnd, Goto
  <2>2. CountTypeOK'
    BY <1>14 DEF CountTypeOK, ThreadTypeOK, CloseEnd, Goto
  <2>3. FlagTypeOK'
    BY <1>14 DEF FlagTypeOK, CloseEnd, Goto
  <2>4. ThreadTypeOK'
    BY <1>14 DEF ThreadTypeOK, Pcs, IoPcs, StopPcs, ClosePcs, CountTypeOK, CloseEnd, Goto
  <2> QED BY <2>1, <2>2, <2>3, <2>4
<1>15. ASSUME NEW t \in Threads, StopBegin(t)
     PROVE  TypeOK'
  BY <1>15 DEF SlotTypeOK, CountTypeOK, FlagTypeOK, ThreadTypeOK,
     Pcs, IoPcs, StopPcs, ClosePcs, StopBegin, Idle, Goto
<1>16. ASSUME NEW t \in Threads, StopKill(t)
     PROVE  TypeOK'
  BY <1>16 DEF SlotTypeOK, CountTypeOK, FlagTypeOK, ThreadTypeOK,
     Pcs, IoPcs, StopPcs, ClosePcs, StopKill, Goto
<1>17. ASSUME NEW t \in Threads, StopEnd(t)
     PROVE  TypeOK'
  BY <1>17 DEF SlotTypeOK, CountTypeOK, FlagTypeOK, ThreadTypeOK,
     Pcs, IoPcs, StopPcs, ClosePcs, StopEnd, Goto
<1>18. ASSUME Open
     PROVE  TypeOK'
  BY <1>18 DEF SlotTypeOK, CountTypeOK, FlagTypeOK, ThreadTypeOK,
     Pcs, IoPcs, StopPcs, ClosePcs, Open
<1>19. ASSUME Disconnect
     PROVE  TypeOK'
  <2>1. SlotTypeOK'
    BY <1>19 DEF SlotTypeOK, SlotStates, ThreadTypeOK, Disconnect
  <2>2. CountTypeOK'
    BY <1>19 DEF CountTypeOK, ThreadTypeOK, Disconnect
  <2>3. FlagTypeOK'
    BY <1>19 DEF FlagTypeOK, Disconnect
  <2>4. ThreadTypeOK'
    BY <1>19 DEF ThreadTypeOK, Pcs, IoPcs, StopPcs, ClosePcs, CountTypeOK, Disconnect
  <2> QED BY <2>1, <2>2, <2>3, <2>4
<1>20. ASSUME DisconnectEnd
     PROVE  TypeOK'
  BY <1>20 DEF SlotTypeOK, CountTypeOK, FlagTypeOK, ThreadTypeOK,
     Pcs, IoPcs, StopPcs, ClosePcs, DisconnectEnd, AnchorEmpty
<1>21. ASSUME UNCHANGED vars
     PROVE  TypeOK'
  BY <1>21 DEF SlotTypeOK, CountTypeOK, FlagTypeOK, ThreadTypeOK,
     Pcs, IoPcs, StopPcs, ClosePcs, vars
<1> QED
  BY <1>1, <1>2, <1>3, <1>4, <1>5, <1>6, <1>7, <1>8, <1>9, <1>10, <1>11, <1>12, <1>13, <1>14, <1>15, <1>16, <1>17, <1>18, <1>19, <1>20, <1>21
  DEF Next, IoStep, StopStep, Threads, Release, Exchange

(* Nobody is inside an operation that takes io_mutex while it is free.     *)
LEMMA MutexFree ==
  ASSUME LockInv, mutex = NoThread
  PROVE  \A t \in Threads : pc[t] \notin IoPcs
  BY RingAssumption DEF LockInv, Threads

(* Every step preserves the inductive invariant: one step per action, and  *)
(* under it the parts of the invariant that the action can disturb.        *)
LEMMA RingStep ==
  ASSUME TypeOK, TypeOK', RingInv, [Next]_vars
  PROVE  RingInv'
<1> USE RingAssumption DEF RingInv, TypeOK, slotVars, hwVars, flagVars, cursorVars,
        threadVars, lifeVars
<1> DEFINE LockPart == LockInv /\ LifeInv
           DataPart == /\ CursorInv /\ SlotInv /\ PendingInv /\ TicketInv
                       /\ DmaExclusive /\ ClaimsHeld /\ StreamOrder
<1>1. ASSUME NEW s \in Slots, NEW result \in {"ok", "error"}, Complete(s, result)
     PROVE  RingInv'
  <2>1. state[s] = "INFLIGHT" /\ hw[s] /\ ticket[s] = seq[s]
    BY <1>1 DEF Complete, DmaExclusive, TicketInv
  <2>2. LockInv' /\ LifeInv'
    BY <1>1 DEF Complete, LockInv, LifeInv, AnchorEmpty, SlotTypeOK
  <2>3. CursorInv' /\ SlotInv'
    BY <1>1, <2>1 DEF Complete, CursorInv, SlotInv, SlotTypeOK, FlagTypeOK
  <2>4. PendingInv' /\ TicketInv'
    BY <1>1, <2>1 DEF Complete, PendingInv, TicketInv, SlotTypeOK, ThreadTypeOK
  <2>5. DmaExclusive' /\ StreamOrder'
    BY <1>1, <2>1 DEF Complete, DmaExclusive, StreamOrder, SlotTypeOK
  <2>6. ClaimsHeld'
    <3> SUFFICES ASSUME NEW q \in nextRelease .. (nextClaim - 1)
                 PROVE  state'[q % N] = "CLAIMED" /\ seq'[q % N] = q
      BY <1>1 DEF Complete, ClaimsHeld
    <3>0. q \in Nat
      BY DEF CountTypeOK
    <3>1. q % N \in Slots /\ state[q % N] = "CLAIMED" /\ seq[q % N] = q
      BY <3>0, DivMod DEF ClaimsHeld
    <3> QED BY <1>1, <2>1, <3>1 DEF Complete, SlotTypeOK
  <2> QED BY <2>2, <2>3, <2>4, <2>5, <2>6
<1>2. ASSUME NEW t \in Threads, StartBegin(t)
     PROVE  RingInv'
  <2>1. \A u \in Threads : pc[u] \notin IoPcs
    BY <1>2, MutexFree DEF StartBegin, IoUnlocked
  <2>2. LockInv' /\ LifeInv'
    BY <1>2, <2>1 DEF StartBegin, IoUnlocked, Idle, Goto, LockInv, LifeInv, IoPcs, StopPcs, ClosePcs,
       AnchorEmpty, ThreadTypeOK
  <2>3. DataPart'
    BY <1>2 DEF StartBegin, IoUnlocked, Idle, Goto, CursorInv, SlotInv, PendingInv, TicketInv, DmaExclusive,
       ClaimsHeld, StreamOrder, ThreadTypeOK
  <2> QED BY <2>2, <2>3
<1>3. ASSUME NEW t \in Threads, SetInterface(t)
     PROVE  RingInv'
  <2>1. CASE Return(t) /\ UNCHANGED <<slotVars, hwVars, flagVars, cursorVars, cur>>
    <3>1. LockInv' /\ LifeInv'
      BY <1>3, <2>1 DEF SetInterface, Return, Goto, LockInv, LifeInv, IoPcs, StopPcs,
         ClosePcs, AnchorEmpty, ThreadTypeOK
    <3>2. DataPart'
      BY <1>3, <2>1 DEF SetInterface, Return, Goto, CursorInv, SlotInv, PendingInv,
         TicketInv, DmaExclusive, ClaimsHeld, StreamOrder, ThreadTypeOK
    <3> QED BY <3>1, <3>2
  <2>2. CASE ~(Return(t) /\ UNCHANGED <<slotVars, hwVars, flagVars, cursorVars, cur>>)
    <3>1. \A s \in Slots : s \in Nat /\ s >= 0 /\ s < N /\ s % N = s
      BY ModSlot DEF Slots
    <3>2. /\ \A s \in Slots : state'[s] = "INFLIGHT" /\ seq'[s] = s /\ ~hw'[s]
          /\ nextClaim' = 0 /\ nextRelease' = 0 /\ nextSubmit' = N /\ submits' = 0
          /\ pc' = [pc EXCEPT ![t] = "fill"] /\ cur'[t] = 0
      BY <1>3, <2>2 DEF SetInterface, AnchorEmpty, Goto, ThreadTypeOK
    <3>3. \A u \in Threads : u # t => pc'[u] \notin IoPcs
      BY <1>3, <3>2 DEF SetInterface, LockInv, IoPcs, ThreadTypeOK
    <3>4. LockInv'
      BY <1>3, <2>2, <3>2, <3>3 DEF SetInterface, LockInv, IoPcs, ThreadTypeOK
    <3>5. LifeInv'
      BY <1>3, <2>2 DEF SetInterface, Goto, LifeInv, IoPcs, StopPcs, ClosePcs,
         AnchorEmpty, ThreadTypeOK
    <3>6. CursorInv' /\ SlotInv'
      BY <3>1, <3>2 DEF CursorInv, SlotInv
    <3>7. PendingInv' /\ TicketInv'
      BY <3>1, <3>2, <3>3 DEF PendingInv, TicketInv, IoPcs, ThreadTypeOK
    <3>8. DmaExclusive' /\ ClaimsHeld' /\ StreamOrder'
      BY <3>2 DEF DmaExclusive, ClaimsHeld, StreamOrder
    <3> QED BY <3>4, <3>5, <3>6, <3>7, <3>8
  <2> QED BY <2>1, <2>2
<1>4. ASSUME NEW t \in Threads, Fill(t)
     PROVE  RingInv'
  <2>1. /\ cur[t] \in Slots /\ submits = cur[t] /\ nextSubmit = N
        /\ \A s \in Slots : s >= cur[t] => state[s] = "INFLIGHT" /\ ~hw[s] /\ seq[s] = s
        /\ \A s \in Slots : s \in Nat /\ s < N
    BY <1>4 DEF Fill, LastFill, PendingInv, ThreadTypeOK, Slots
  <2>2. \A u \in Threads : u # t => pc[u] \notin IoPcs
    BY <1>4 DEF Fill, LastFill, LockInv, IoPcs
  <2>3. LockInv' /\ LifeInv'
    BY <1>4, <2>2 DEF Fill, LastFill, SubmitSucceeds, SubmitFails, Return, Goto, LockInv, LifeInv,
       IoPcs, StopPcs, ClosePcs, AnchorEmpty, ThreadTypeOK, FlagTypeOK
  <2>4. CursorInv' /\ SlotInv' /\ ClaimsHeld'
    BY <1>4 DEF Fill, LastFill, CursorInv, SlotInv, ClaimsHeld
  <2>5. StreamOrder' /\ DmaExclusive'
    BY <1>4, <2>1 DEF Fill, LastFill, SubmitSucceeds, SubmitFails, StreamOrder, DmaExclusive,
       SlotTypeOK, CountTypeOK
  <2>6. PendingInv'
    BY <1>4, <2>1, <2>2 DEF Fill, LastFill, SubmitSucceeds, SubmitFails, Return, Goto, PendingInv,
       IoPcs, ThreadTypeOK, SlotTypeOK
  <2>7. TicketInv'
    <3>1. \A s \in Slots : hw'[s] => ticket'[s] = seq'[s]
      BY <1>4, <2>1 DEF Fill, LastFill, SubmitSucceeds, SubmitFails, TicketInv, SlotTypeOK, CountTypeOK
    <3>2. pc'[t] = "fill" \/ fatal' \/ submits' = nextSubmit'
      BY <1>4, <2>1 DEF Fill, LastFill, SubmitSucceeds, SubmitFails, Return, Goto, ThreadTypeOK
    <3> QED BY <3>1, <3>2 DEF TicketInv
  <2> QED BY <2>3, <2>4, <2>5, <2>6, <2>7
<1>5. ASSUME NEW t \in Threads, FillKill(t)
     PROVE  RingInv'
  <2>1. LockInv' /\ LifeInv'
    BY <1>5 DEF FillKill, Return, Goto, LockInv, LifeInv, IoPcs, StopPcs, ClosePcs, AnchorEmpty,
       ThreadTypeOK, FlagTypeOK, CountTypeOK
  <2>2. DataPart'
    BY <1>5 DEF FillKill, Return, Goto, CursorInv, SlotInv, PendingInv, TicketInv, DmaExclusive,
       ClaimsHeld, StreamOrder, ThreadTypeOK
  <2> QED BY <2>1, <2>2
<1>6. ASSUME NEW t \in Threads, NEW s \in Slots, NEW q \in 0 .. MaxSubmit,
              NEW label \in {"relSubmit", "exSubmit"}, ReleaseSlot(t, s, q, label)
     PROVE  RingInv'
  <2>1. \A u \in Threads : pc[u] \notin IoPcs
    BY <1>6, MutexFree DEF ReleaseSlot, Owed, NewSequence, IoUnlocked
  <2>2. /\ seq[s] = nextRelease /\ state[s] = "CLAIMED" /\ nextRelease % N = s
        /\ nextRelease < nextClaim /\ ~hw[s]
    BY <1>6 DEF ReleaseSlot, Owed, NewSequence, IoUnlocked, SlotInv, DmaExclusive, SlotTypeOK
  <2>3. LockInv' /\ LifeInv'
    BY <1>6, <2>1 DEF ReleaseSlot, Owed, NewSequence, IoUnlocked, Idle, Goto, LockInv, LifeInv, IoPcs, StopPcs, ClosePcs,
       AnchorEmpty, ThreadTypeOK
  <2>4. ClaimsHeld'
    <3> SUFFICES ASSUME NEW r \in (nextRelease + 1) .. (nextClaim - 1)
                 PROVE  state'[r % N] = "CLAIMED" /\ seq'[r % N] = r
      BY <1>6 DEF ReleaseSlot, Owed, NewSequence, IoUnlocked, ClaimsHeld
    <3>0. r \in Nat /\ r # nextRelease /\ r \in nextRelease .. (nextClaim - 1)
      BY DEF CountTypeOK
    <3>1. r % N \in Slots /\ state[r % N] = "CLAIMED" /\ seq[r % N] = r /\ r # nextRelease
      BY <3>0, DivMod DEF ClaimsHeld
    <3> QED BY <1>6, <2>2, <3>1 DEF ReleaseSlot, Owed, NewSequence, IoUnlocked, SlotTypeOK, CountTypeOK
  <2>5. CASE ShuttingDown
    <3>1. CursorInv' /\ SlotInv'
      BY <1>6, <2>2, <2>5 DEF ReleaseSlot, Owed, NewSequence, IoUnlocked, ShuttingDown, CursorInv, SlotInv, LifeInv,
         SlotTypeOK, CountTypeOK
    <3>2. PendingInv' /\ TicketInv'
      BY <1>6, <2>1, <2>5 DEF ReleaseSlot, Owed, NewSequence, IoUnlocked, PendingInv, TicketInv, IoPcs
    <3>3. DmaExclusive' /\ StreamOrder'
      BY <1>6, <2>2, <2>5 DEF ReleaseSlot, Owed, NewSequence, IoUnlocked, DmaExclusive, StreamOrder, SlotTypeOK
    <3> QED BY <2>3, <2>4, <3>1, <3>2, <3>3
  <2>6. CASE ~ShuttingDown
    <3>0. nextSubmit = nextRelease + N
      BY <2>2, <2>6 DEF ShuttingDown, CursorInv, CountTypeOK
    <3>1. nextSubmit = nextRelease + N /\ nextSubmit % N = s
      BY <2>2, <3>0, ModPlusN DEF CountTypeOK
    <3>2. submits = nextSubmit
      BY <2>1, <2>6 DEF ShuttingDown, TicketInv, IoPcs
    <3>3. /\ state' = [state EXCEPT ![s] = "INFLIGHT"] /\ seq' = [seq EXCEPT ![s] = nextSubmit]
          /\ nextSubmit' = nextSubmit + 1 /\ nextRelease' = nextRelease + 1
          /\ pc' = [pc EXCEPT ![t] = label] /\ cur' = [cur EXCEPT ![t] = s]
          /\ UNCHANGED <<hwVars, flagVars, nextClaim, cpuSynced>>
      BY <1>6, <2>6 DEF ReleaseSlot, Owed, NewSequence, IoUnlocked, Goto
    <3>4. CursorInv' /\ SlotInv'
      BY <2>2, <3>1, <3>3 DEF CursorInv, SlotInv, SlotTypeOK, CountTypeOK
    <3>5. PendingInv'
      BY <2>1, <2>2, <3>2, <3>3 DEF PendingInv, IoPcs, SlotTypeOK, CountTypeOK, ThreadTypeOK
    <3>6. TicketInv'
      BY <2>2, <3>3 DEF TicketInv, SlotTypeOK, CountTypeOK, ThreadTypeOK
    <3>7. DmaExclusive' /\ StreamOrder'
      BY <1>6, <2>2, <2>6, <3>3 DEF ReleaseSlot, Owed, NewSequence, IoUnlocked, DmaExclusive, StreamOrder, SlotTypeOK, CountTypeOK
    <3> QED BY <2>3, <2>4, <3>4, <3>5, <3>6, <3>7
  <2> QED BY <2>5, <2>6
<1>7. ASSUME NEW t \in Threads, Resubmit(t)
     PROVE  RingInv'
  <2>1. /\ cur[t] \in Slots /\ state[cur[t]] = "INFLIGHT" /\ ~hw[cur[t]]
        /\ seq[cur[t]] = submits /\ nextSubmit = submits + 1
    BY <1>7 DEF Resubmit, PendingInv, ThreadTypeOK
  <2>2. \A u \in Threads : u # t => pc[u] \notin IoPcs
    BY <1>7 DEF Resubmit, LockInv, IoPcs
  <2>3. LockInv' /\ LifeInv'
    BY <1>7, <2>2 DEF Resubmit, SubmitSucceeds, SubmitFails, Return, Goto, LockInv, LifeInv,
       IoPcs, StopPcs, ClosePcs, AnchorEmpty, ThreadTypeOK, FlagTypeOK
  <2>4. CursorInv' /\ SlotInv'
    BY <1>7, <2>1 DEF Resubmit, CursorInv, SlotInv, SlotTypeOK
  <2>5. PendingInv'
    BY <1>7, <2>2 DEF Resubmit, Return, Goto, PendingInv, IoPcs, ThreadTypeOK
  <2>6. TicketInv'
    BY <1>7, <2>1 DEF Resubmit, SubmitSucceeds, SubmitFails, TicketInv, SlotTypeOK, CountTypeOK
  <2>7. DmaExclusive' /\ StreamOrder'
    BY <1>7, <2>1 DEF Resubmit, SubmitSucceeds, SubmitFails, StreamOrder, DmaExclusive,
       SlotTypeOK, CountTypeOK
  <2>8. ClaimsHeld'
    <3> SUFFICES ASSUME NEW q \in nextRelease .. (nextClaim - 1)
                 PROVE  state'[q % N] = "CLAIMED" /\ seq'[q % N] = q
      BY <1>7 DEF Resubmit, ClaimsHeld
    <3>0. q \in Nat
      BY DEF CountTypeOK
    <3>1. q % N \in Slots /\ state[q % N] = "CLAIMED" /\ seq[q % N] = q
      BY <3>0, DivMod DEF ClaimsHeld
    <3> QED BY <1>7, <2>1, <3>1 DEF Resubmit, SlotTypeOK
  <2> QED BY <2>3, <2>4, <2>5, <2>6, <2>7, <2>8
<1>8. ASSUME NEW t \in Threads, ReadBegin(t)
     PROVE  RingInv'
  <2>1. \A u \in Threads : pc[u] \notin IoPcs
    BY <1>8, MutexFree DEF ReadBegin, IoUnlocked
  <2>2. LockInv' /\ LifeInv'
    BY <1>8, <2>1 DEF ReadBegin, IoUnlocked, Idle, Goto, LockInv, LifeInv, IoPcs, StopPcs, ClosePcs,
       AnchorEmpty, ThreadTypeOK
  <2>3. DataPart'
    BY <1>8 DEF ReadBegin, IoUnlocked, Idle, Goto, CursorInv, SlotInv, PendingInv, TicketInv, DmaExclusive,
       ClaimsHeld, StreamOrder, ThreadTypeOK
  <2> QED BY <2>2, <2>3
<1>9. ASSUME NEW t \in Threads, Interrupted(t)
     PROVE  RingInv'
  <2>1. LockInv' /\ LifeInv'
    BY <1>9 DEF Interrupted, Return, Goto, LockInv, LifeInv, IoPcs, StopPcs, ClosePcs, AnchorEmpty,
       ThreadTypeOK, FlagTypeOK, CountTypeOK
  <2>2. DataPart'
    BY <1>9 DEF Interrupted, Return, Goto, CursorInv, SlotInv, PendingInv, TicketInv, DmaExclusive,
       ClaimsHeld, StreamOrder, ThreadTypeOK
  <2> QED BY <2>1, <2>2
<1>10. ASSUME NEW t \in Threads, Claim(t)
     PROVE  RingInv'
  <2>1. CASE Return(t) /\ UNCHANGED <<state, nextClaim, cur>>
    <3>1. LockInv' /\ LifeInv'
      BY <1>10, <2>1 DEF Claim, ClaimFails, Return, Goto, LockInv, LifeInv, IoPcs, StopPcs, ClosePcs,
         AnchorEmpty, ThreadTypeOK
    <3>2. DataPart'
      BY <1>10, <2>1 DEF Claim, ClaimFails, Return, Goto, CursorInv, SlotInv, PendingInv, TicketInv,
         DmaExclusive, ClaimsHeld, StreamOrder, ThreadTypeOK
    <3> QED BY <3>1, <3>2
  <2>2. CASE ~(Return(t) /\ UNCHANGED <<state, nextClaim, cur>>)
    <3> DEFINE i == ClaimIndex
    <3>1. /\ i = nextClaim % N /\ i \in Slots /\ state[i] = "READY" /\ seq[i] = nextClaim
          /\ state' = [state EXCEPT ![i] = "CLAIMED"] /\ nextClaim' = nextClaim + 1
          /\ cur' = [cur EXCEPT ![t] = i] /\ pc' = [pc EXCEPT ![t] = "sync"]
          /\ mutex' = mutex
          /\ UNCHANGED <<seq, status, cpuSynced, hwVars, flagVars, nextRelease, nextSubmit,
                         lifeVars>>
      BY <1>10, <2>2, DivMod DEF Claim, ClaimFails, ClaimIndex, Goto, CountTypeOK
    <3> HIDE DEF i
    <3>2. nextClaim < nextSubmit /\ ~hw[i]
      BY <3>1 DEF SlotInv, DmaExclusive, SlotTypeOK
    <3>3. \A u \in Threads : u # t => pc[u] \notin IoPcs
      BY <1>10 DEF Claim, ClaimFails, LockInv, IoPcs
    <3>4. LockInv' /\ LifeInv'
      BY <1>10, <3>1, <3>3 DEF Claim, ClaimFails, LockInv, LifeInv, IoPcs, StopPcs, ClosePcs, AnchorEmpty,
         ThreadTypeOK
    <3>5. CursorInv'
      BY <3>1, <3>2 DEF CursorInv, CountTypeOK
    <3>6. SlotInv'
      <4> SUFFICES ASSUME NEW s \in Slots
                   PROVE  /\ state'[s] \in {"INFLIGHT", "READY"} =>
                               nextClaim' <= seq[s] /\ seq[s] < nextSubmit /\ seq[s] % N = s
                          /\ state'[s] = "CLAIMED" =>
                               nextRelease <= seq[s] /\ seq[s] < nextClaim' /\ seq[s] % N = s
        BY <3>1 DEF SlotInv
      <4>1. CASE s = i
        BY <3>1, <4>1 DEF CursorInv, SlotTypeOK, CountTypeOK
      <4>2. CASE s # i
        <5>1. state[s] \in {"INFLIGHT", "READY"} => seq[s] # nextClaim
          BY <3>1, <4>2 DEF SlotInv
        <5> QED BY <3>1, <4>2, <5>1 DEF SlotInv, SlotTypeOK, CountTypeOK
      <4> QED BY <4>1, <4>2
    <3>7. PendingInv' /\ TicketInv'
      BY <1>10, <3>1, <3>3 DEF Claim, ClaimFails, PendingInv, TicketInv, IoPcs, SlotTypeOK, ThreadTypeOK
    <3>8. DmaExclusive' /\ StreamOrder'
      BY <3>1, <3>2 DEF DmaExclusive, StreamOrder, SlotTypeOK
    <3>9. ClaimsHeld'
      <4> SUFFICES ASSUME NEW q \in nextRelease' .. (nextClaim' - 1)
                   PROVE  state'[q % N] = "CLAIMED" /\ seq'[q % N] = q
        BY DEF ClaimsHeld
      <4>0. q \in Nat /\ (q # nextClaim => q \in nextRelease .. (nextClaim - 1))
        BY <3>1 DEF CountTypeOK
      <4>1. CASE q = nextClaim
        BY <3>1, <4>1 DEF SlotTypeOK
      <4>2. CASE q # nextClaim
        <5>1. q % N \in Slots /\ state[q % N] = "CLAIMED" /\ seq[q % N] = q
          BY <4>0, <4>2, DivMod DEF ClaimsHeld
        <5> QED BY <3>1, <5>1 DEF SlotTypeOK
      <4> QED BY <4>1, <4>2
    <3> QED BY <3>4, <3>5, <3>6, <3>7, <3>8, <3>9
  <2> QED BY <2>1, <2>2
<1>11. ASSUME NEW t \in Threads, CpuSync(t)
     PROVE  RingInv'
  <2>1. state[cur[t]] = "CLAIMED" /\ cur[t] \in Slots /\ ~hw[cur[t]]
    BY <1>11 DEF CpuSync, PendingInv, DmaExclusive, SlotTypeOK, ThreadTypeOK
  <2>2. LockInv' /\ LifeInv'
    BY <1>11 DEF CpuSync, Return, Goto, LockInv, LifeInv, IoPcs, StopPcs, ClosePcs,
       AnchorEmpty, ThreadTypeOK
  <2>3. DataPart'
    BY <1>11, <2>1 DEF CpuSync, Return, Goto, CursorInv, SlotInv, PendingInv, TicketInv,
       DmaExclusive, ClaimsHeld, StreamOrder, ThreadTypeOK, SlotTypeOK
  <2> QED BY <2>2, <2>3
<1>12. ASSUME NEW t \in Threads, CloseBegin(t)
     PROVE  RingInv'
  <2>1. LockInv' /\ LifeInv'
    BY <1>12 DEF CloseBegin, Goto, LockInv, LifeInv, IoPcs, StopPcs, ClosePcs, AnchorEmpty,
       ThreadTypeOK, FlagTypeOK, CountTypeOK
  <2>2. DataPart'
    BY <1>12 DEF CloseBegin, Goto, CursorInv, SlotInv, PendingInv, TicketInv, DmaExclusive,
       ClaimsHeld, StreamOrder, ThreadTypeOK
  <2> QED BY <2>1, <2>2
<1>13. ASSUME NEW t \in Threads, CloseKill(t)
     PROVE  RingInv'
  <2>1. LockInv' /\ LifeInv'
    BY <1>13 DEF CloseKill, Goto, LockInv, LifeInv, IoPcs, StopPcs, ClosePcs, AnchorEmpty,
       ThreadTypeOK, FlagTypeOK, CountTypeOK
  <2>2. DataPart'
    BY <1>13 DEF CloseKill, Goto, CursorInv, SlotInv, PendingInv, TicketInv, DmaExclusive,
       ClaimsHeld, StreamOrder, ThreadTypeOK
  <2> QED BY <2>1, <2>2
<1>14. ASSUME NEW t \in Threads, CloseEnd(t)
     PROVE  RingInv'
  <2>1. LockInv' /\ LifeInv'
    BY <1>14 DEF CloseEnd, Goto, LockInv, LifeInv, IoPcs, StopPcs, ClosePcs, AnchorEmpty,
       ThreadTypeOK, FlagTypeOK, CountTypeOK
  <2>2. DataPart'
    BY <1>14 DEF CloseEnd, Goto, CursorInv, SlotInv, PendingInv, TicketInv, DmaExclusive,
       ClaimsHeld, StreamOrder, ThreadTypeOK
  <2> QED BY <2>1, <2>2
<1>15. ASSUME NEW t \in Threads, StopBegin(t)
     PROVE  RingInv'
  <2>1. LockInv' /\ LifeInv'
    BY <1>15 DEF StopBegin, Idle, Goto, LockInv, LifeInv, IoPcs, StopPcs, ClosePcs, AnchorEmpty,
       ThreadTypeOK, FlagTypeOK, CountTypeOK
  <2>2. DataPart'
    BY <1>15 DEF StopBegin, Idle, Goto, CursorInv, SlotInv, PendingInv, TicketInv, DmaExclusive,
       ClaimsHeld, StreamOrder, ThreadTypeOK
  <2> QED BY <2>1, <2>2
<1>16. ASSUME NEW t \in Threads, StopKill(t)
     PROVE  RingInv'
  <2>1. LockInv' /\ LifeInv'
    BY <1>16 DEF StopKill, Goto, LockInv, LifeInv, IoPcs, StopPcs, ClosePcs, AnchorEmpty,
       ThreadTypeOK, FlagTypeOK, CountTypeOK
  <2>2. DataPart'
    BY <1>16 DEF StopKill, Goto, CursorInv, SlotInv, PendingInv, TicketInv, DmaExclusive,
       ClaimsHeld, StreamOrder, ThreadTypeOK
  <2> QED BY <2>1, <2>2
<1>17. ASSUME NEW t \in Threads, StopEnd(t)
     PROVE  RingInv'
  <2>1. LockInv' /\ LifeInv'
    BY <1>17 DEF StopEnd, Goto, LockInv, LifeInv, IoPcs, StopPcs, ClosePcs, AnchorEmpty,
       ThreadTypeOK, FlagTypeOK, CountTypeOK
  <2>2. DataPart'
    BY <1>17 DEF StopEnd, Goto, CursorInv, SlotInv, PendingInv, TicketInv, DmaExclusive,
       ClaimsHeld, StreamOrder, ThreadTypeOK
  <2> QED BY <2>1, <2>2
<1>18. ASSUME Open
     PROVE  RingInv'
  <2>1. LockInv' /\ LifeInv'
    BY <1>18 DEF Open, LockInv, LifeInv, IoPcs, StopPcs, ClosePcs, AnchorEmpty,
       ThreadTypeOK, FlagTypeOK, CountTypeOK
  <2>2. DataPart'
    BY <1>18 DEF Open, CursorInv, SlotInv, PendingInv, TicketInv, DmaExclusive,
       ClaimsHeld, StreamOrder, ThreadTypeOK
  <2> QED BY <2>1, <2>2
<1>19. ASSUME Disconnect
     PROVE  RingInv'
  <2>1. LockInv' /\ LifeInv'
    BY <1>19 DEF Disconnect, LockInv, LifeInv, IoPcs, StopPcs, ClosePcs, AnchorEmpty,
       ThreadTypeOK, FlagTypeOK, CountTypeOK
  <2>2. DataPart'
    BY <1>19 DEF Disconnect, CursorInv, SlotInv, PendingInv, TicketInv, DmaExclusive,
       ClaimsHeld, StreamOrder, ThreadTypeOK
  <2> QED BY <2>1, <2>2
<1>20. ASSUME DisconnectEnd
     PROVE  RingInv'
  <2>1. LockInv' /\ LifeInv'
    BY <1>20 DEF DisconnectEnd, LockInv, LifeInv, IoPcs, StopPcs, ClosePcs, AnchorEmpty,
       ThreadTypeOK, FlagTypeOK, CountTypeOK
  <2>2. DataPart'
    BY <1>20 DEF DisconnectEnd, CursorInv, SlotInv, PendingInv, TicketInv, DmaExclusive,
       ClaimsHeld, StreamOrder, ThreadTypeOK
  <2> QED BY <2>1, <2>2
<1>21. ASSUME UNCHANGED vars
     PROVE  RingInv'
  <2>1. LockInv' /\ LifeInv'
    BY <1>21 DEF vars, LockInv, LifeInv, IoPcs, StopPcs, ClosePcs, AnchorEmpty,
       ThreadTypeOK, FlagTypeOK, CountTypeOK
  <2>2. DataPart'
    BY <1>21 DEF vars, CursorInv, SlotInv, PendingInv, TicketInv, DmaExclusive,
       ClaimsHeld, StreamOrder, ThreadTypeOK
  <2> QED BY <2>1, <2>2
<1> QED
  BY <1>1, <1>2, <1>3, <1>4, <1>5, <1>6, <1>7, <1>8, <1>9, <1>10, <1>11, <1>12, <1>13, <1>14, <1>15, <1>16, <1>17, <1>18, <1>19, <1>20, <1>21
  DEF Next, IoStep, StopStep, Threads, Release, Exchange

LEMMA RingInit == Init => TypeOK /\ RingInv
<1> SUFFICES ASSUME Init PROVE TypeOK /\ RingInv
  OBVIOUS
<1> USE RingAssumption DEF Init
<1>1. SlotTypeOK /\ FlagTypeOK
  BY DEF SlotTypeOK, FlagTypeOK, SlotStates
<1>2. CountTypeOK /\ ThreadTypeOK
  BY DEF CountTypeOK, ThreadTypeOK, Pcs, Slots
<1>3. LockInv /\ LifeInv
  BY DEF LockInv, LifeInv, IoPcs, StopPcs, ClosePcs, AnchorEmpty
<1>4. CursorInv /\ SlotInv /\ PendingInv /\ TicketInv
  BY DEF CursorInv, SlotInv, PendingInv, TicketInv
<1>5. DmaExclusive /\ ClaimsHeld /\ StreamOrder
  BY DEF DmaExclusive, ClaimsHeld, StreamOrder
<1> QED BY <1>1, <1>2, <1>3, <1>4, <1>5 DEF TypeOK, RingInv

(* The state keeps its types in every behaviour of the driver, and the     *)
(* inductive invariant holds throughout.                                   *)
THEOREM RingInvariant == Spec => [](TypeOK /\ RingInv)
<1>1. Init => TypeOK /\ RingInv
  BY RingInit
<1>2. TypeOK /\ RingInv /\ [Next]_vars => (TypeOK /\ RingInv)'
  BY TypeStep, RingStep
<1> QED BY <1>1, <1>2, PTL DEF Spec

(* rtlamr_usb_ring.c: a slot whose URB is with the host controller is never *)
(* claimed, ready or synchronised for the CPU, for any ring size, any set  *)
(* of threads and any interleaving of STOP, START and disconnect.          *)
THEOREM DmaExclusiveThm == Spec => []DmaExclusive
<1>1. TypeOK /\ RingInv => DmaExclusive
  BY DEF RingInv
<1> QED BY <1>1, RingInvariant, PTL

(* Slots handed to user space stay claimed under their sequence until they *)
(* are returned in order.                                                  *)
THEOREM ClaimsHeldThm == Spec => []ClaimsHeld
<1>1. TypeOK /\ RingInv => ClaimsHeld
  BY DEF RingInv
<1> QED BY <1>1, RingInvariant, PTL

(* Sequence order is stream order.                                         *)
THEOREM StreamOrderThm == Spec => []StreamOrder
<1>1. TypeOK /\ RingInv => StreamOrder
  BY DEF RingInv
<1> QED BY <1>1, RingInvariant, PTL

(* The claim loops of read and EXCHANGE never spin on a READY slot.        *)
THEOREM ReadyIsNextThm == Spec => []ReadyIsNext
<1>1. TypeOK /\ RingInv => ReadyIsNext
  <2> SUFFICES ASSUME TypeOK, RingInv, state[ClaimIndex] = "READY"
               PROVE  seq[ClaimIndex] = nextClaim
    BY DEF ReadyIsNext
  <2>1. ClaimIndex \in Slots /\ seq[ClaimIndex] \in Nat /\ nextClaim \in Nat
    BY DivMod DEF ClaimIndex, TypeOK, CountTypeOK
  <2>2. nextClaim <= seq[ClaimIndex] /\ seq[ClaimIndex] < nextClaim + N
    BY <2>1, RingAssumption DEF RingInv, SlotInv, CursorInv, TypeOK, CountTypeOK
  <2>3. seq[ClaimIndex] % N = nextClaim % N
    BY <2>1 DEF RingInv, SlotInv, ClaimIndex
  <2> QED BY <2>1, <2>2, <2>3, ModInjective
<1> QED BY <1>1, RingInvariant, PTL

(* The ring's memory outlives every URB and every thread inside the driver. *)
THEOREM FreedIsQuietThm == Spec => []FreedIsQuiet
<1>1. TypeOK /\ RingInv => FreedIsQuiet
  BY DEF RingInv, LifeInv, FreedIsQuiet, TypeOK, FlagTypeOK, ThreadTypeOK
<1> QED BY <1>1, RingInvariant, PTL

-----------------------------------------------------------------------------
(* A slot being submitted is not one the process holds.                    *)
LEMMA NotHeld ==
  ASSUME TypeOK, RingInv, NEW s \in Slots, state[s] # "CLAIMED"
  PROVE  s \in Stream!Slots \ Stream!HeldSlots
  BY DEF Stream!Slots, Stream!HeldSlots, Slots, RingInv, ClaimsHeld

(* An unclaimed slot joins the controller's queue, or any slot leaves it.  *)
LEMMA DeviceStep ==
  ASSUME TypeOK, RingInv,
         UNCHANGED <<nextRelease, nextClaim, stopping>>,
         \A s \in Slots : hw'[s] => hw[s] \/ state[s] # "CLAIMED"
  PROVE  Stream!Device
<1>1. \A s \in Slots : hw'[s] => s \in Stream!Slots \ Stream!HeldSlots
  BY NotHeld DEF RingInv, DmaExclusive
<1> QED BY <1>1 DEF Stream!Device

(* Every step of the driver is a step of the contract or changes nothing   *)
(* the contract speaks of.                                                 *)
LEMMA StreamStep ==
  ASSUME TypeOK, RingInv, [Next]_vars
  PROVE  [Stream!Next]_(Stream!streamVars)
<1> USE DEF slotVars, hwVars, flagVars, cursorVars, threadVars, lifeVars
<1>1. ASSUME UNCHANGED <<nextRelease, nextClaim, hw, stopping>>
      PROVE  UNCHANGED Stream!streamVars
  BY <1>1 DEF Stream!streamVars
<1>2. ASSUME UNCHANGED <<nextRelease, nextClaim, hw>>, stopping' = TRUE
      PROVE  Stream!Stop
  BY <1>2 DEF Stream!Stop
<1>3. ASSUME NEW s \in Slots, NEW result \in {"ok", "error"}, Complete(s, result)
      PROVE  Stream!Device
  BY <1>3, DeviceStep DEF Complete, TypeOK, SlotTypeOK
<1>4. ASSUME NEW t \in Threads, SetInterface(t)
      PROVE  Stream!Restart \/ UNCHANGED Stream!streamVars
  BY <1>4, <1>1 DEF SetInterface, AnchorEmpty, Stream!Restart
<1>5. ASSUME NEW t \in Threads, Fill(t)
      PROVE  Stream!Device \/ Stream!Stop
  <2>1. cur[t] \in Slots /\ state[cur[t]] = "INFLIGHT"
    BY <1>5 DEF Fill, LastFill, RingInv, PendingInv, TypeOK, ThreadTypeOK, Slots
  <2>2. CASE SubmitSucceeds(cur[t]) /\ UNCHANGED stopping
    BY <1>5, <2>1, <2>2, DeviceStep DEF Fill, LastFill, SubmitSucceeds, TypeOK, SlotTypeOK
  <2>3. CASE SubmitFails(cur[t]) /\ stopping' = TRUE
    BY <1>5, <1>2, <2>3 DEF Fill, LastFill, SubmitFails
  <2> QED BY <1>5, <2>2, <2>3 DEF Fill, LastFill
<1>6. ASSUME NEW t \in Threads, NEW s \in Slots, NEW q \in 0 .. MaxSubmit,
             NEW label \in {"relSubmit", "exSubmit"}, ReleaseSlot(t, s, q, label)
      PROVE  Stream!GiveBack
  <2>1. nextRelease < nextClaim
    BY <1>6 DEF ReleaseSlot, Owed, NewSequence, IoUnlocked, RingInv, SlotInv, TypeOK, CountTypeOK
  <2> QED BY <1>6, <2>1 DEF ReleaseSlot, Owed, NewSequence, IoUnlocked, Stream!GiveBack
<1>7. ASSUME NEW t \in Threads, Resubmit(t)
      PROVE  Stream!Device
  <2>1. cur[t] \in Slots /\ state[cur[t]] = "INFLIGHT"
    BY <1>7 DEF Resubmit, RingInv, PendingInv, TypeOK, ThreadTypeOK
  <2>2. \A s \in Slots : hw'[s] => hw[s] \/ state[s] # "CLAIMED"
    BY <1>7, <2>1 DEF Resubmit, SubmitSucceeds, SubmitFails, TypeOK, SlotTypeOK
  <2> QED BY <1>7, <2>2, DeviceStep DEF Resubmit
<1>8. ASSUME NEW t \in Threads, Claim(t)
      PROVE  Stream!Take \/ UNCHANGED Stream!streamVars
  <2>1. CASE UNCHANGED nextClaim
    BY <1>8, <2>1, <1>1 DEF Claim, ClaimFails
  <2>2. CASE /\ ~stopping /\ state[ClaimIndex] = "READY" /\ seq[ClaimIndex] = nextClaim
             /\ nextClaim' = nextClaim + 1
    <3>1. ClaimIndex \in Slots /\ nextClaim \in Nat /\ nextRelease \in Nat
      BY DivMod DEF ClaimIndex, TypeOK, CountTypeOK
    <3>2. nextClaim < nextRelease + N
      BY <2>2, <3>1, RingAssumption DEF RingInv, SlotInv, CursorInv, TypeOK, CountTypeOK
    <3>3. ~hw[ClaimIndex]
      BY <2>2, <3>1 DEF RingInv, DmaExclusive
    <3> QED BY <1>8, <2>2, <3>2, <3>3 DEF Claim, ClaimFails, ClaimIndex, Stream!Take
  <2> QED BY <1>8, <2>1, <2>2 DEF Claim, ClaimFails
<1>9. ASSUME NEW t \in Threads, StopBegin(t) \/ CloseBegin(t)
      PROVE  Stream!Stop \/ UNCHANGED Stream!streamVars
  BY <1>9, <1>1, <1>2 DEF StopBegin, CloseBegin
<1>10. ASSUME Disconnect
       PROVE  Stream!Stop
  BY <1>10, <1>2 DEF Disconnect
<1>11. ASSUME NEW t \in Threads,
              \/ StartBegin(t) \/ FillKill(t) \/ StopKill(t) \/ StopEnd(t)
              \/ ReadBegin(t) \/ Interrupted(t) \/ CpuSync(t)
              \/ CloseKill(t) \/ CloseEnd(t)
       PROVE  UNCHANGED Stream!streamVars
  BY <1>11, <1>1 DEF StartBegin, IoUnlocked, FillKill, StopKill, StopEnd, ReadBegin, IoUnlocked,
     Interrupted, CpuSync, CloseKill, CloseEnd
<1>12. ASSUME Open \/ DisconnectEnd \/ UNCHANGED vars
       PROVE  UNCHANGED Stream!streamVars
  BY <1>12, <1>1 DEF Open, DisconnectEnd, vars
<1> QED
  BY <1>3, <1>4, <1>5, <1>6, <1>7, <1>8, <1>9, <1>10, <1>11, <1>12
  DEF Next, IoStep, StopStep, Threads, Release, Exchange, Stream!Next

(* The driver implements BatchStream: the contract the receiver relies on  *)
(* holds for every ring size, every set of threads and every interleaving. *)
THEOREM ImplementsStreamThm == Spec => ImplementsStream
<1>1. Init => Stream!Init
  BY DEF Init, Stream!Init, Slots
<1>2. TypeOK /\ RingInv /\ [Next]_vars => [Stream!Next]_(Stream!streamVars)
  BY StreamStep
<1> QED BY <1>1, <1>2, RingInvariant, PTL DEF Spec, ImplementsStream, Stream!Spec

=============================================================================
