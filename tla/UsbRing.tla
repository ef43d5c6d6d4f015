------------------------------- MODULE UsbRing -------------------------------
(***************************************************************************)
(* The optional Linux driver kernel/rtlamr_usb_ring: a fixed ring of slots *)
(* whose ownership moves FREE -> INFLIGHT -> READY -> CLAIMED and back.    *)
(*                                                                         *)
(* Actors: the user threads of the one process that has the device open,   *)
(* the USB completion handler (interrupt context, one call per slot), and  *)
(* the USB core that disconnects the device.  A step is what the code does *)
(* in one critical section of ring->lock, or one call into the USB core.   *)
(* START, RELEASE, read and EXCHANGE hold io_mutex from their first step to *)
(* their last; STOP, release_file and disconnect do not take it.           *)
(*                                                                         *)
(* usb_kill_anchored_urbs and usb_set_interface return only when no URB of *)
(* the ring is with the host controller, so they are steps guarded by that *)
(* condition; the cancelled URBs complete through rtlamr_complete.         *)
(***************************************************************************)
EXTENDS Integers, FiniteSets

CONSTANTS
  N,           \* ring->slot_count
  MaxSubmit,   \* bound on ring->next_submit within one START (model only)
  IoThreads,   \* user threads that call START, read, RELEASE, EXCHANGE, close
  StopThreads, \* user threads that call STOP
  StopDuringStart, \* may the process call STOP while its START is running
  NoThread     \* "io_mutex is free"

\* rtlamr_probe refuses ring_slots below 4.
ASSUME RingAssumption ==
  /\ N \in Nat /\ N >= 4
  /\ MaxSubmit \in Nat
  /\ StopDuringStart \in BOOLEAN
  /\ NoThread \notin IoThreads \cup StopThreads

Threads == IoThreads \cup StopThreads

Slots == 0 .. (N - 1)

VARIABLES
  state,        \* slot->state
  seq,          \* slot->sequence
  status,       \* slot->status, zero ("ok") or not ("error")
  cpuSynced,    \* slot->cpu_synced: the CPU owns the slot's cache lines
  hw,           \* the slot's URB is anchored and with the host controller
  ticket,       \* position of the slot's last transfer in the IQ stream
  submits,      \* transfers handed to the endpoint since START
  stopping, started, disconnected,
  fatal,        \* ring->fatal_error # 0
  nextClaim, nextRelease, nextSubmit,
  mutex,        \* holder of io_mutex
  pc,           \* where each user thread is inside the driver
  cur,          \* the slot a thread is working on (release_slot, claim_slot, index)
  fd,           \* the process still has the file open
  opened,       \* ring->opened
  refs,         \* ring->refs
  unplug        \* progress of rtlamr_disconnect

slotVars   == <<state, seq, status, cpuSynced>>
hwVars     == <<hw, ticket, submits>>
flagVars   == <<stopping, started, disconnected, fatal>>
cursorVars == <<nextClaim, nextRelease, nextSubmit>>
threadVars == <<mutex, pc, cur>>
lifeVars   == <<fd, opened, refs, unplug>>
vars == <<slotVars, hwVars, flagVars, cursorVars, threadVars, lifeVars>>

SlotStates == {"FREE", "INFLIGHT", "READY", "CLAIMED"}

\* Positions inside the operations that hold io_mutex.
IoPcs == {"relSubmit", "exSubmit", "wait", "waitCommitted", "sync",
          "setInterface", "fill", "fillKill"}
\* Positions inside STOP and inside release_file.
StopPcs  == {"stopKill", "stopEnd"}
ClosePcs == {"closeKill", "closeEnd"}
Pcs == {"idle"} \cup IoPcs \cup StopPcs \cup ClosePcs

-----------------------------------------------------------------------------
ClaimIndex == nextClaim % N

\* "ring->stopping || ring->disconnected || ring->fatal_error"
ShuttingDown == stopping \/ disconnected \/ fatal

\* No URB of the ring is with the host controller: what
\* usb_kill_anchored_urbs and the endpoint flush of usb_set_interface wait for.
AnchorEmpty == \A s \in Slots : ~hw[s]

\* A bulk endpoint serves its URBs in the order they were submitted.
OldestInFlight(s) == hw[s] /\ \A r \in Slots : hw[r] => ticket[s] <= ticket[r]

Idle(t) == fd /\ pc[t] = "idle"

Goto(t, label) == pc' = [pc EXCEPT ![t] = label]

\* A bug: the mutex is not taken.
IoNotLocked == TRUE

\* mutex_lock_interruptible(&ring->io_mutex) can succeed.
IoUnlocked == mutex = NoThread

\* mutex_unlock(&ring->io_mutex); return
Return(t) == mutex' = NoThread /\ Goto(t, "idle")

Init ==
  /\ state = [s \in Slots |-> "FREE"]
  /\ seq = [s \in Slots |-> 0]
  /\ status = [s \in Slots |-> "ok"]
  /\ cpuSynced = [s \in Slots |-> FALSE]
  /\ hw = [s \in Slots |-> FALSE]
  /\ ticket = [s \in Slots |-> 0]
  /\ submits = 0
  /\ stopping = FALSE /\ started = FALSE
  /\ disconnected = FALSE /\ fatal = FALSE
  /\ nextClaim = 0 /\ nextRelease = 0 /\ nextSubmit = 0
  /\ mutex = NoThread
  /\ pc = [t \in Threads |-> "idle"]
  /\ cur = [t \in Threads |-> 0]
  /\ fd = FALSE /\ opened = FALSE /\ refs = 1 /\ unplug = "bound"

-----------------------------------------------------------------------------
(* rtlamr_complete: the URB of slot s is given back with result.           *)
Complete(s, result) ==
  /\ hw[s]
  /\ result = "ok" => OldestInFlight(s)
  /\ hw' = [hw EXCEPT ![s] = FALSE]
  /\ IF stopping \/ disconnected
       THEN /\ state' = [state EXCEPT ![s] = "FREE"]
            /\ UNCHANGED <<status, fatal>>
       ELSE /\ state' = [state EXCEPT ![s] = "READY"]
            /\ status' = [status EXCEPT ![s] = result]
            /\ fatal' = (fatal \/ result = "error")
  /\ UNCHANGED <<seq, cpuSynced, ticket, submits, stopping, started,
                 disconnected, cursorVars, threadVars, lifeVars>>

\* A bug: the slot stays synchronised for the CPU.
SubmitStaysSynced(s) ==
  /\ ~disconnected
  /\ hw' = [hw EXCEPT ![s] = TRUE]
  /\ ticket' = [ticket EXCEPT ![s] = submits]
  /\ submits' = submits + 1
  /\ UNCHANGED cpuSynced

(* rtlamr_submit_slot succeeds: the slot is handed back to the device for  *)
(* DMA and its URB joins the endpoint queue.  The USB core refuses URBs    *)
(* for an interface whose driver has been unbound.                         *)
SubmitSucceeds(s) ==
  /\ ~disconnected
  /\ cpuSynced' = [cpuSynced EXCEPT ![s] = FALSE]
  /\ hw' = [hw EXCEPT ![s] = TRUE]
  /\ ticket' = [ticket EXCEPT ![s] = submits]
  /\ submits' = submits + 1

(* rtlamr_submit_slot fails: only the cache ownership has moved.           *)
SubmitFails(s) ==
  /\ cpuSynced' = [cpuSynced EXCEPT ![s] = FALSE]
  /\ UNCHANGED hwVars

-----------------------------------------------------------------------------
(* START: rtlamr_ring_start.                                               *)
StartBegin(t) ==
  /\ Idle(t) /\ IoUnlocked
  /\ ~disconnected /\ ~started
  /\ mutex' = t /\ Goto(t, "setInterface")
  /\ UNCHANGED <<slotVars, hwVars, flagVars, cursorVars, cur, lifeVars>>

(* usb_set_interface flushes the endpoint, then fails or returns zero; the *)
(* ring is reset only if the device has not been disconnected meanwhile.   *)
SetInterface(t) ==
  /\ pc[t] = "setInterface" /\ AnchorEmpty
  /\ \/ /\ Return(t)
        /\ UNCHANGED <<slotVars, hwVars, flagVars, cursorVars, cur>>
     \/ /\ ~disconnected
        /\ stopping' = FALSE /\ fatal' = FALSE /\ started' = TRUE
        /\ nextClaim' = 0 /\ nextRelease' = 0 /\ nextSubmit' = N
        /\ seq' = [s \in Slots |-> s]
        /\ status' = [s \in Slots |-> "ok"]
        /\ state' = [s \in Slots |-> "INFLIGHT"]
        /\ submits' = 0
        /\ cur' = [cur EXCEPT ![t] = 0]
        /\ Goto(t, "fill")
        /\ UNCHANGED <<cpuSynced, hw, ticket, disconnected, mutex>>
  /\ UNCHANGED lifeVars

\* The loop over the slots is at its last one.
LastFill(t) == cur[t] = N - 1

(* One iteration of the loop that submits the initial URBs.                *)
Fill(t) ==
  /\ pc[t] = "fill"
  /\ \/ /\ SubmitSucceeds(cur[t])
        /\ IF LastFill(t)
             THEN Return(t) /\ UNCHANGED cur
             ELSE cur' = [cur EXCEPT ![t] = @ + 1] /\ UNCHANGED <<mutex, pc>>
        /\ UNCHANGED <<stopping, fatal>>
     \/ /\ SubmitFails(cur[t])
        /\ fatal' = TRUE /\ stopping' = TRUE
        /\ Goto(t, "fillKill")
        /\ UNCHANGED <<mutex, cur>>
  /\ UNCHANGED <<state, seq, status, started, disconnected, cursorVars, lifeVars>>

FillKill(t) ==
  /\ pc[t] = "fillKill" /\ AnchorEmpty
  /\ Return(t)
  /\ UNCHANGED <<slotVars, hwVars, flagVars, cursorVars, cur, lifeVars>>

-----------------------------------------------------------------------------
(* STOP: rtlamr_ring_stop called from rtlamr_ioctl, without io_mutex.      *)
StopBegin(t) ==
  /\ Idle(t) /\ started
  /\ \/ StopDuringStart
     \/ \A u \in Threads : pc[u] \notin {"setInterface", "fill", "fillKill"}
  /\ stopping' = TRUE
  /\ Goto(t, "stopKill")
  /\ UNCHANGED <<slotVars, hwVars, started, disconnected, fatal, cursorVars,
                 mutex, cur, lifeVars>>

StopKill(t) ==
  /\ pc[t] = "stopKill" /\ AnchorEmpty
  /\ Goto(t, "stopEnd")
  /\ UNCHANGED <<slotVars, hwVars, flagVars, cursorVars, mutex, cur, lifeVars>>

\* A bug: STOP keeps the mutex.
StopEndLocked(t) ==
  /\ pc[t] = "stopEnd" /\ IoUnlocked
  /\ started' = FALSE
  /\ Goto(t, "idle")
  /\ UNCHANGED <<slotVars, hwVars, stopping, disconnected, fatal, cursorVars,
                 mutex, cur, lifeVars>>

StopEnd(t) ==
  /\ pc[t] = "stopEnd"
  /\ started' = FALSE
  /\ Goto(t, "idle")
  /\ UNCHANGED <<slotVars, hwVars, stopping, disconnected, fatal, cursorVars,
                 mutex, cur, lifeVars>>

-----------------------------------------------------------------------------
\* A bug: any claimed slot is taken back.
OwedAny(s, q) == seq[s] = q /\ state[s] = "CLAIMED"

\* The driver takes back only the oldest slot it is owed.
Owed(s, q) == q = nextRelease /\ seq[s] = q /\ state[s] = "CLAIMED"

\* A bug: the slot keeps its sequence.
KeepSequence(s) == UNCHANGED seq

\* A slot submitted again gets the next sequence.
NewSequence(s) == seq' = [seq EXCEPT ![s] = nextSubmit]

(* The release half of RELEASE and EXCHANGE: only the oldest claimed slot  *)
(* may be returned.  Any other argument is -EINVAL and changes nothing.    *)
ReleaseSlot(t, s, q, label) ==
  /\ Idle(t) /\ IoUnlocked
  /\ Owed(s, q)
  /\ nextRelease' = nextRelease + 1
  /\ IF ShuttingDown
       THEN /\ state' = [state EXCEPT ![s] = "FREE"]
            /\ UNCHANGED <<seq, status, nextSubmit, threadVars>>
       ELSE /\ nextSubmit < MaxSubmit
            /\ nextSubmit' = nextSubmit + 1
            /\ NewSequence(s)
            /\ status' = [status EXCEPT ![s] = "ok"]
            /\ state' = [state EXCEPT ![s] = "INFLIGHT"]
            /\ mutex' = t
            /\ cur' = [cur EXCEPT ![t] = s]
            /\ Goto(t, label)
  /\ UNCHANGED <<cpuSynced, hwVars, flagVars, nextClaim, lifeVars>>

Release(t, s, q)  == ReleaseSlot(t, s, q, "relSubmit")
Exchange(t, s, q) == ReleaseSlot(t, s, q, "exSubmit")

(* The resubmission that follows a committed release.  A failed one frees  *)
(* the slot, records the error and returns it.                             *)
Resubmit(t) ==
  /\ pc[t] \in {"relSubmit", "exSubmit"}
  /\ \/ /\ SubmitSucceeds(cur[t])
        /\ IF pc[t] = "exSubmit"
             THEN Goto(t, "waitCommitted") /\ UNCHANGED mutex
             ELSE Return(t)
        /\ UNCHANGED <<state, fatal>>
     \/ /\ SubmitFails(cur[t])
        /\ state' = [state EXCEPT ![cur[t]] = "FREE"]
        /\ fatal' = TRUE
        /\ Return(t)
  /\ UNCHANGED <<seq, status, stopping, started, disconnected, cursorVars, cur,
                 lifeVars>>

-----------------------------------------------------------------------------
(* rtlamr_read, and an EXCHANGE without a release: claim the next slot.    *)
ReadBegin(t) ==
  /\ Idle(t) /\ IoUnlocked
  /\ mutex' = t /\ Goto(t, "wait")
  /\ UNCHANGED <<slotVars, hwVars, flagVars, cursorVars, cur, lifeVars>>

(* A signal ends the wait unless a release has been committed.             *)
Interrupted(t) ==
  /\ pc[t] = "wait"
  /\ Return(t)
  /\ UNCHANGED <<slotVars, hwVars, flagVars, cursorVars, cur, lifeVars>>

\* A bug: STOP does not end the wait.
ClaimFailsUnlessStopped == disconnected \/ (fatal /\ state[ClaimIndex] # "READY")

\* The wait ends without a batch.
ClaimFails ==
  disconnected \/ stopping \/ (fatal /\ state[ClaimIndex] # "READY")

(* The wait condition holds and the critical section after it runs.  A     *)
(* READY slot with another sequence makes the loop wait again, which       *)
(* changes nothing.                                                        *)
Claim(t) ==
  /\ pc[t] \in {"wait", "waitCommitted"}
  /\ \/ /\ ClaimFails
        /\ Return(t)
        /\ UNCHANGED <<state, nextClaim, cur>>
     \/ /\ ~disconnected /\ ~stopping
        /\ state[ClaimIndex] = "READY" /\ seq[ClaimIndex] = nextClaim
        /\ state' = [state EXCEPT ![ClaimIndex] = "CLAIMED"]
        /\ nextClaim' = nextClaim + 1
        /\ cur' = [cur EXCEPT ![t] = ClaimIndex]
        /\ Goto(t, "sync")
        /\ UNCHANGED mutex
  /\ UNCHANGED <<seq, status, cpuSynced, hwVars, flagVars, nextRelease,
                 nextSubmit, lifeVars>>

(* dma_sync_single_for_cpu after the critical section, then the return to  *)
(* user space with the completion.                                         *)
CpuSync(t) ==
  /\ pc[t] = "sync"
  /\ cpuSynced' = [cpuSynced EXCEPT ![cur[t]] = TRUE]
  /\ Return(t)
  /\ UNCHANGED <<state, seq, status, hwVars, flagVars, cursorVars, cur, lifeVars>>

-----------------------------------------------------------------------------
(* rtlamr_open: one opener at a time.                                      *)
Open ==
  /\ ~opened /\ ~disconnected
  /\ opened' = TRUE /\ fd' = TRUE /\ refs' = refs + 1
  /\ UNCHANGED <<slotVars, hwVars, flagVars, cursorVars, threadVars, unplug>>

(* rtlamr_release_file, called when the last system call on the file has   *)
(* returned: ring_stop, opened = 0, kref_put.                              *)
CloseBegin(t) ==
  /\ fd /\ \A u \in Threads : pc[u] = "idle"
  /\ fd' = FALSE
  /\ IF started
       THEN stopping' = TRUE /\ Goto(t, "closeKill")
       ELSE Goto(t, "closeEnd") /\ UNCHANGED stopping
  /\ UNCHANGED <<slotVars, hwVars, started, disconnected, fatal, cursorVars,
                 mutex, cur, opened, refs, unplug>>

CloseKill(t) ==
  /\ pc[t] = "closeKill" /\ AnchorEmpty
  /\ Goto(t, "closeEnd")
  /\ UNCHANGED <<slotVars, hwVars, flagVars, cursorVars, mutex, cur, lifeVars>>

CloseEnd(t) ==
  /\ pc[t] = "closeEnd"
  /\ started' = FALSE
  /\ opened' = FALSE /\ refs' = refs - 1
  /\ Goto(t, "idle")
  /\ UNCHANGED <<slotVars, hwVars, stopping, disconnected, fatal, cursorVars,
                 mutex, cur, fd, unplug>>

(* rtlamr_disconnect.                                                      *)
Disconnect ==
  /\ unplug = "bound"
  /\ unplug' = "kill"
  /\ disconnected' = TRUE /\ stopping' = TRUE
  /\ UNCHANGED <<slotVars, hwVars, started, fatal, cursorVars, threadVars,
                 fd, opened, refs>>

\* A bug: disconnect does not cancel the URBs.
DisconnectEndNoKill ==
  /\ unplug = "kill"
  /\ unplug' = "gone" /\ refs' = refs - 1
  /\ UNCHANGED <<slotVars, hwVars, flagVars, cursorVars, threadVars, fd, opened>>

DisconnectEnd ==
  /\ unplug = "kill" /\ AnchorEmpty
  /\ unplug' = "gone" /\ refs' = refs - 1
  /\ UNCHANGED <<slotVars, hwVars, flagVars, cursorVars, threadVars, fd, opened>>

-----------------------------------------------------------------------------
(* EXCHANGE, RELEASE and the calls around them, from one thread.           *)
IoStep(t) ==
  \/ StartBegin(t) \/ SetInterface(t) \/ Fill(t) \/ FillKill(t)
  \/ \E s \in Slots, q \in 0 .. MaxSubmit : Release(t, s, q) \/ Exchange(t, s, q)
  \/ Resubmit(t)
  \/ ReadBegin(t) \/ Interrupted(t) \/ Claim(t) \/ CpuSync(t)
  \/ CloseBegin(t) \/ CloseKill(t) \/ CloseEnd(t)

StopStep(t) == StopBegin(t) \/ StopKill(t) \/ StopEnd(t)

Next ==
  \/ \E s \in Slots, result \in {"ok", "error"} : Complete(s, result)
  \/ \E t \in IoThreads : IoStep(t)
  \/ \E t \in StopThreads : StopStep(t)
  \/ Open \/ Disconnect \/ DisconnectEnd

Spec == Init /\ [][Next]_vars

(* What runs without the user's or the device's cooperation: the driver's  *)
(* own code, once entered, and the completion of URBs somebody is          *)
(* cancelling.  No fairness is assumed of the device, of signals, or of    *)
(* the process entering the driver again.                                  *)
Cancelling ==
  \/ \E t \in Threads : pc[t] \in {"setInterface", "fillKill", "stopKill", "closeKill"}
  \/ unplug = "kill"

CancelledCompletes(s) == Cancelling /\ Complete(s, "error")

DriverStep(t) ==
  \/ SetInterface(t) \/ Fill(t) \/ FillKill(t) \/ StopKill(t) \/ StopEnd(t)
  \/ Resubmit(t) \/ Claim(t) \/ CpuSync(t) \/ CloseKill(t) \/ CloseEnd(t)

Fairness ==
  /\ \A t \in Threads : WF_vars(DriverStep(t))
  /\ \A s \in Slots : WF_vars(CancelledCompletes(s))
  /\ WF_vars(DisconnectEnd)

FairSpec == Spec /\ Fairness

-----------------------------------------------------------------------------
SlotTypeOK ==
  /\ state \in [Slots -> SlotStates]
  /\ status \in [Slots -> {"ok", "error"}]
  /\ cpuSynced \in [Slots -> BOOLEAN]
  /\ hw \in [Slots -> BOOLEAN]

CountTypeOK ==
  /\ seq \in [Slots -> Nat]
  /\ ticket \in [Slots -> Nat]
  /\ submits \in Nat
  /\ nextClaim \in Nat /\ nextRelease \in Nat /\ nextSubmit \in Nat
  /\ refs \in Int

FlagTypeOK ==
  /\ stopping \in BOOLEAN /\ started \in BOOLEAN
  /\ disconnected \in BOOLEAN /\ fatal \in BOOLEAN
  /\ fd \in BOOLEAN /\ opened \in BOOLEAN
  /\ unplug \in {"bound", "kill", "gone"}

ThreadTypeOK ==
  /\ mutex \in Threads \cup {NoThread}
  /\ pc \in [Threads -> Pcs]
  /\ cur \in [Threads -> Slots]

TypeOK == SlotTypeOK /\ CountTypeOK /\ FlagTypeOK /\ ThreadTypeOK

(* A slot with the host controller is nobody else's: it is not ready, not  *)
(* claimed by user space and not synchronised for the CPU, whatever STOP,  *)
(* disconnect, START and the resubmissions interleave to.                  *)
DmaExclusive == \A s \in Slots : hw[s] => state[s] = "INFLIGHT" /\ ~cpuSynced[s]

(* Every sequence user space has claimed and not yet returned is still in  *)
(* its slot, CLAIMED, with the same number: no completion, STOP or         *)
(* disconnect takes a batch away from the decoder that is reading it.      *)
ClaimsHeld ==
  \A q \in nextRelease .. (nextClaim - 1) :
    state[q % N] = "CLAIMED" /\ seq[q % N] = q

(* The claim loop never spins: when the slot it waits for is READY it      *)
(* carries the sequence the loop expects.                                  *)
ReadyIsNext == state[ClaimIndex] = "READY" => seq[ClaimIndex] = nextClaim

(* The batch delivered under sequence q holds the q-th transfer of the IQ  *)
(* stream since START, so claiming in sequence order yields the samples in *)
(* order with nothing missing or repeated.                                 *)
StreamOrder ==
  \A s \in Slots :
    state[s] \in {"READY", "CLAIMED"} /\ status[s] = "ok" => ticket[s] = seq[s]

(* The ring's memory is freed only when no URB can still write to it and   *)
(* no thread is inside the driver.                                         *)
FreedIsQuiet ==
  refs = 0 => AnchorEmpty /\ ~fd /\ \A t \in Threads : pc[t] = "idle"

(* STOP and disconnect end every blocked read or exchange.                 *)
StopWakesReaders ==
  \A t \in Threads :
    (stopping /\ pc[t] \in {"wait", "waitCommitted"})
      ~> pc[t] \notin {"wait", "waitCommitted"}

(* A caller of STOP or close is not stuck cancelling URBs in the driver.   *)
ShutdownReturns ==
  \A t \in Threads : (pc[t] \in StopPcs \cup ClosePcs) ~> (pc[t] = "idle")

(* kernel/rtlamr_usb_ring/README.md: cancellation "cancels anchored URBs". *)
(* Once the file has been closed the ring has no URB with the controller.  *)
ClosedIsQuiet == ~opened => AnchorEmpty

(* The driver implements the contract the receiver is built on: whatever   *)
(* its threads, completions and unplugging do, the process takes and       *)
(* returns batches in sequence and holds slots the device cannot write.    *)
Stream == INSTANCE BatchStream WITH
  released <- nextRelease, claimed <- nextClaim,
  writable <- {s \in Slots : hw[s]}, stopped <- stopping

ImplementsStream == Stream!Spec
-----------------------------------------------------------------------------
(* The inductive invariant behind the safety properties (UsbRingProofs).   *)

\* Whoever is inside an operation that took io_mutex still holds it.
LockInv == \A t \in Threads : pc[t] \in IoPcs => mutex = t

\* File and device lifetimes, and what the reference count stands for.
LifeInv ==
  /\ fd => opened
  /\ \A t \in Threads : pc[t] # "idle" => opened
  /\ \A t \in Threads : pc[t] \in ClosePcs =>
        ~fd /\ \A u \in Threads : u # t => pc[u] = "idle"
  /\ \A t \in Threads : pc[t] \in IoPcs \cup StopPcs => fd
  /\ refs = (IF unplug = "gone" THEN 0 ELSE 1) + (IF opened THEN 1 ELSE 0)
  /\ disconnected <=> unplug # "bound"
  /\ disconnected => stopping
  /\ unplug = "gone" => AnchorEmpty

\* The cursors, and the window of sequences each slot state stands for.
CursorInv ==
  /\ nextRelease <= nextClaim
  /\ nextClaim <= nextSubmit
  /\ nextSubmit <= nextRelease + N
  /\ ~stopping /\ ~fatal /\ nextSubmit > 0 => nextSubmit = nextRelease + N

SlotInv ==
  \A s \in Slots :
    /\ state[s] \in {"INFLIGHT", "READY"} =>
         nextClaim <= seq[s] /\ seq[s] < nextSubmit /\ seq[s] % N = s
    /\ state[s] = "CLAIMED" =>
         nextRelease <= seq[s] /\ seq[s] < nextClaim /\ seq[s] % N = s

\* What a thread that left the critical section relies on.
PendingInv ==
  \A t \in Threads :
    /\ pc[t] \in {"relSubmit", "exSubmit"} =>
         /\ state[cur[t]] = "INFLIGHT" /\ ~hw[cur[t]]
         /\ seq[cur[t]] = submits /\ nextSubmit = submits + 1
    /\ pc[t] = "fill" =>
         /\ submits = cur[t] /\ nextSubmit = N
         /\ \A s \in Slots : s >= cur[t] =>
              state[s] = "INFLIGHT" /\ ~hw[s] /\ seq[s] = s
    /\ pc[t] = "sync" => state[cur[t]] = "CLAIMED"

\* Submission order is sequence order.
TicketInv ==
  /\ \A s \in Slots : hw[s] => ticket[s] = seq[s]
  /\ ~fatal /\ (\A t \in Threads : pc[t] \notin {"relSubmit", "exSubmit", "fill"})
       => submits = nextSubmit

RingInv ==
  /\ LockInv /\ LifeInv /\ CursorInv /\ SlotInv /\ PendingInv /\ TicketInv
  /\ DmaExclusive /\ ClaimsHeld /\ StreamOrder

=============================================================================
