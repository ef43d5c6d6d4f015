----------------------------- MODULE DirectRing -----------------------------
(***************************************************************************)
(* The direct source without the kernel module                             *)
(* (receiver_source_direct_linux.go): a POSIX thread reads batches from    *)
(* the SDR into a ring of slots, the goroutine of Receiver.Run takes and   *)
(* returns them, and the main goroutine shuts both down.  The three share  *)
(* one mutex and one condition variable; a critical section is one step.   *)
(*                                                                         *)
(* A batch is its number in the order it was read.  What rtlsdr_read_sync  *)
(* returns (a full batch, one that is not a whole number of decoder        *)
(* blocks, an error) and when a block ends the run are inputs.             *)
(***************************************************************************)
EXTENDS Integers, FiniteSets

CONSTANTS
  N,            \* source->buffer_count
  MaxBatches    \* bound on the batches of a behaviour (model only)

\* rtlamr_direct_start refuses fewer than two buffers.
RingAssumption == N \in Nat /\ N >= 2 /\ MaxBatches \in Nat

Slots == 0 .. (N - 1)
Threads == {"reader", "receiver"}

VARIABLES
  state,      \* slots[i].state
  batch,      \* the batch in each slot
  ragged,     \* slots whose length is not a multiple of the block size
  producer, consumer, stopping, readDone,
  readResult, \* "ok", or "failed" when rtlsdr_read_sync failed
  asleep,     \* threads inside pthread_cond_wait, not yet woken
  thread,     \* where the reader thread is
  recv,       \* where the receiver goroutine is
  filled,     \* batches read (history)
  taken,      \* batches claimed (history)
  returned,   \* batches released (history)
  ctxDone,    \* rcvr.ctx is cancelled
  err,        \* rcvr.err
  closing     \* progress of Receiver.Close on the main goroutine

ringVars   == <<state, batch, ragged, producer, consumer>>
flagVars   == <<stopping, readDone, readResult>>
countVars  == <<filled, taken, returned>>
mainVars   == <<ctxDone, err, closing>>
vars == <<ringVars, flagVars, asleep, thread, recv, countVars, mainVars>>

Init ==
  /\ state = [s \in Slots |-> "free"] /\ batch = [s \in Slots |-> 0]
  /\ ragged = {} /\ producer = 0 /\ consumer = 0
  /\ stopping = FALSE /\ readDone = FALSE /\ readResult = "ok"
  /\ asleep = {} /\ thread = "idle" /\ recv = "check"
  /\ filled = 0 /\ taken = 0 /\ returned = 0
  /\ ctxDone = FALSE /\ err = "none" /\ closing = "no"

Broadcast == asleep' = {}

NextSlot(s) == (s + 1) % N

-----------------------------------------------------------------------------
(* The reader thread.  Without a free slot it waits, otherwise it marks    *)
(* the slot and reads into it with the mutex released.                     *)
ReaderAcquire ==
  /\ thread = "idle" /\ "reader" \notin asleep
  /\ IF stopping
       THEN thread' = "leaving" /\ UNCHANGED <<state, asleep>>
     ELSE IF state[producer] # "free"
       THEN asleep' = asleep \cup {"reader"} /\ UNCHANGED <<state, thread>>
     ELSE /\ state' = [state EXCEPT ![producer] = "filling"]
          /\ thread' = "reading" /\ UNCHANGED asleep
  /\ UNCHANGED <<batch, ragged, producer, consumer, flagVars, recv, countVars, mainVars>>

\* Cancelled during the read: the slot is given up, the ring does not advance.
ReadAbandoned ==
  /\ thread = "reading" /\ stopping
  /\ state' = [state EXCEPT ![producer] = "free"]
  /\ thread' = "leaving"
  /\ UNCHANGED <<batch, ragged, producer, consumer, flagVars, asleep, recv,
                 countVars, mainVars>>

ReadCompletes(short) ==
  /\ thread = "reading" /\ ~stopping /\ filled < MaxBatches
  /\ state' = [state EXCEPT ![producer] = "ready"]
  /\ batch' = [batch EXCEPT ![producer] = filled]
  /\ ragged' = IF short THEN ragged \cup {producer} ELSE ragged \ {producer}
  /\ producer' = NextSlot(producer)
  /\ filled' = filled + 1 /\ thread' = "idle"
  /\ Broadcast
  /\ UNCHANGED <<consumer, flagVars, recv, taken, returned, mainVars>>

ReadFails ==
  /\ thread = "reading" /\ ~stopping
  /\ state' = [state EXCEPT ![producer] = "free"]
  /\ readResult' = "failed" /\ readDone' = TRUE
  /\ thread' = "ended"
  /\ Broadcast
  /\ UNCHANGED <<batch, ragged, producer, consumer, stopping, recv, countVars, mainVars>>

ReaderEnds ==
  /\ thread = "leaving"
  /\ readDone' = TRUE /\ thread' = "ended"
  /\ Broadcast
  /\ UNCHANGED <<ringVars, stopping, readResult, recv, countVars, mainVars>>

-----------------------------------------------------------------------------
(* The receiver goroutine.  Its deferred calls end the context.            *)
Exit(why) ==
  /\ recv' = "exited" /\ ctxDone' = TRUE
  /\ err' = IF why # "none" THEN why ELSE err
  /\ UNCHANGED closing

CheckContext ==
  /\ recv = "check"
  /\ IF ctxDone THEN Exit("none") ELSE recv' = "next" /\ UNCHANGED mainVars
  /\ UNCHANGED <<ringVars, flagVars, asleep, thread, countVars>>

(* Next has failed.  Run asks the context only afterwards: the error counts *)
(* when nobody has asked for the end by then.                               *)
FailNext ==
  /\ recv \in {"failed", "refused"}
  /\ Exit(IF ctxDone THEN "none" ELSE IF recv = "failed" THEN "source" ELSE "ragged")
  /\ UNCHANGED <<ringVars, flagVars, asleep, thread, countVars>>

\* A bug: next does not wait until the slot is ready.
TakeAnything ==
  /\ recv = "next" /\ "receiver" \notin asleep
  /\ IF state[consumer] \in {"ready", "filling"}
       THEN /\ state' = [state EXCEPT ![consumer] = "claimed"]
            /\ taken' = taken + 1
            /\ recv' = "process" /\ UNCHANGED asleep
     ELSE IF readDone \/ stopping
       THEN recv' = "failed" /\ UNCHANGED <<state, taken, asleep>>
     ELSE asleep' = asleep \cup {"receiver"} /\ UNCHANGED <<state, taken, recv>>
  /\ UNCHANGED <<batch, ragged, producer, consumer, flagVars, thread, filled, returned, mainVars>>

(* rtlamr_direct_next: a ready batch is delivered even when the source is  *)
(* stopping; otherwise wait for one, for the end of the reader or for      *)
(* cancellation.                                                           *)
TakeBatch ==
  /\ recv = "next" /\ "receiver" \notin asleep
  /\ IF state[consumer] = "ready"
       THEN /\ state' = [state EXCEPT ![consumer] = "claimed"]
            /\ taken' = taken + 1
            /\ recv' = IF consumer \in ragged THEN "discard" ELSE "process"
            /\ UNCHANGED asleep
     ELSE IF readDone \/ stopping
       THEN recv' = "failed" /\ UNCHANGED <<state, taken, asleep>>
     ELSE asleep' = asleep \cup {"receiver"} /\ UNCHANGED <<state, taken, recv>>
  /\ UNCHANGED <<batch, ragged, producer, consumer, flagVars, thread, filled, returned, mainVars>>

\* A bug: release does not signal the reader.
ReleaseSilently ==
  /\ state' = [state EXCEPT ![consumer] = "free"]
  /\ consumer' = NextSlot(consumer)
  /\ returned' = returned + 1
  /\ UNCHANGED asleep

(* rtlamr_direct_release of the claimed slot.                              *)
ReleaseSlot ==
  /\ state' = [state EXCEPT ![consumer] = "free"]
  /\ consumer' = NextSlot(consumer)
  /\ returned' = returned + 1
  /\ Broadcast

\* directRTLSource.Next refuses a ragged batch, after returning its slot.
DiscardBatch ==
  /\ recv = "discard" /\ state[consumer] = "claimed"
  /\ ReleaseSlot
  /\ recv' = "refused"
  /\ UNCHANGED <<batch, ragged, producer, flagVars, thread, filled, taken, mainVars>>

(* The blocks of the batch have been processed and Release is called; the  *)
(* run goes on unless processBlock ended it.                               *)
FinishBatch(keepRunning) ==
  /\ recv = "process" /\ state[consumer] = "claimed"
  /\ ReleaseSlot
  /\ IF keepRunning THEN recv' = "check" /\ UNCHANGED mainVars
     ELSE \E why \in {"none", "process"} : Exit(why)
  /\ UNCHANGED <<batch, ragged, producer, flagVars, thread, filled, taken>>

-----------------------------------------------------------------------------
(* Receiver.Close: cancel the context, source.Cancel, wg.Wait, then        *)
(* source.Close, which joins the thread before it frees the slots.         *)
MainStay == UNCHANGED <<ringVars, readDone, readResult, thread, recv, countVars, err>>

CloseBegin ==
  /\ closing = "no"
  /\ closing' = "cancel" /\ ctxDone' = TRUE
  /\ MainStay /\ UNCHANGED <<stopping, asleep>>

\* A bug: cancel sets the flag and wakes nobody.
CancelUnheard ==
  /\ closing = "cancel"
  /\ stopping' = TRUE
  /\ closing' = "wait" /\ MainStay /\ UNCHANGED <<asleep, ctxDone>>

CancelSource ==
  /\ closing = "cancel"
  /\ stopping' = TRUE /\ Broadcast
  /\ closing' = "wait" /\ MainStay /\ UNCHANGED ctxDone

WaitReceiver ==
  /\ closing = "wait" /\ recv = "exited"
  /\ closing' = "join" /\ MainStay /\ UNCHANGED <<stopping, asleep, ctxDone>>

JoinAndFree ==
  /\ closing = "join" /\ thread = "ended"
  /\ closing' = "freed" /\ MainStay /\ UNCHANGED <<stopping, asleep, ctxDone>>

\* pthread_cond_wait may return without a broadcast.
SpuriousWakeup(t) ==
  /\ t \in asleep
  /\ asleep' = asleep \ {t}
  /\ UNCHANGED <<ringVars, flagVars, thread, recv, countVars, mainVars>>

ReadReturns == ReadAbandoned \/ (\E short \in BOOLEAN : ReadCompletes(short)) \/ ReadFails
ReaderStep == ReaderAcquire \/ ReadReturns \/ ReaderEnds
ReceiverStep ==
  \/ CheckContext \/ TakeBatch \/ DiscardBatch \/ FailNext
  \/ \E keepRunning \in BOOLEAN : FinishBatch(keepRunning)
MainStep == CancelSource \/ WaitReceiver \/ JoinAndFree

Next ==
  \/ ReaderStep \/ ReceiverStep \/ CloseBegin \/ MainStep
  \/ \E t \in Threads : SpuriousWakeup(t)

Spec == Init /\ [][Next]_vars

(* Threads run when they can.  A read that has begun need not return:      *)
(* rtlsdr_read_sync waits for the SDR without a timeout, and nothing       *)
(* interrupts it.  main calls Close when the context ends; before that     *)
(* only a signal makes it.                                                 *)
ReaderRuns == ReaderAcquire \/ ReaderEnds
CloseAfterContext == ctxDone /\ CloseBegin

Fairness ==
  /\ WF_vars(ReaderRuns) /\ WF_vars(ReceiverStep)
  /\ WF_vars(MainStep \/ CloseAfterContext)

FairSpec == Spec /\ Fairness
-----------------------------------------------------------------------------
TypeOK ==
  /\ state \in [Slots -> {"free", "filling", "ready", "claimed"}]
  /\ batch \in [Slots -> Nat] /\ ragged \subseteq Slots
  /\ producer \in Slots /\ consumer \in Slots
  /\ stopping \in BOOLEAN /\ readDone \in BOOLEAN /\ readResult \in {"ok", "failed"}
  /\ asleep \subseteq Threads
  /\ thread \in {"idle", "reading", "leaving", "ended"}
  /\ recv \in {"check", "next", "discard", "process", "failed", "refused", "exited"}
  /\ filled \in Nat /\ taken \in Nat /\ returned \in Nat
  /\ ctxDone \in BOOLEAN /\ err \in {"none", "source", "ragged", "process"}
  /\ closing \in {"no", "cancel", "wait", "join", "freed"}

(* The ring implements the contract of the batch source that KernelReceiver *)
(* is built on: batches are taken and returned in sequence and the USB      *)
(* reader writes only to slots the receiver does not hold.  Unlike the      *)
(* driver this source still delivers ready batches after it is stopped.     *)
Stream == INSTANCE BatchStream WITH
  released <- returned, claimed <- taken,
  writable <- {s \in Slots : state[s] = "filling"}, stopped <- FALSE

Contract == Stream!Spec

(* The batch the receiver processes is the one after the batch before it:  *)
(* none is lost, repeated or overtaken on the way through the ring.        *)
InOrder == recv \in {"process", "discard"} => batch[consumer] = taken - 1

(* The mutex, the shared condition and its broadcasts lose no wakeup: a    *)
(* thread sleeps only while what it waits for has not happened.            *)
NoLostWakeup ==
  /\ "reader" \in asleep => ~stopping /\ state[producer] # "free"
  /\ "receiver" \in asleep => ~stopping /\ ~readDone /\ state[consumer] # "ready"

(* Reader and receiver never wait for each other.                          *)
NotBothAsleep == asleep # Threads

(* rtlamr_direct_close frees slots, mutex and device only after everyone   *)
(* who uses them has ended, with no slot in use.                           *)
FreedUnused ==
  closing = "freed" =>
    /\ thread = "ended" /\ recv = "exited"
    /\ \A s \in Slots : state[s] \notin {"filling", "claimed"}

(* Closing the receiver is not an error: Run reports a source error only   *)
(* when the SDR failed, however Cancel overtakes the reader.               *)
ErrorsAreReal == err = "source" => readResult = "failed"

(* The safety of the ring.                                                 *)
RingSafe ==
  TypeOK /\ InOrder /\ NoLostWakeup /\ NotBothAsleep /\ FreedUnused /\ ErrorsAreReal

(* A receiver told to stop, or whose run has ended, ends its goroutine and *)
(* comes to the join, whoever is asleep or reading at that moment; and it  *)
(* closes unless the reader thread's read of the SDR never returns.        *)
CloseReturns ==
  /\ ctxDone ~> closing \in {"join", "freed"}
  /\ ctxDone ~> (closing = "freed" \/ [](thread = "reading"))

(* A batch in the ring reaches the receiver unless the receiver ends.      *)
Delivered == filled > taken ~> (recv = "exited" \/ filled = taken)
=============================================================================
