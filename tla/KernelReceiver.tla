--------------------------- MODULE KernelReceiver ---------------------------
(***************************************************************************)
(* The receiver of main.go on the kernel ring: the goroutine of            *)
(* Receiver.Run that takes batches from directRTLSource, decodes or skips  *)
(* their blocks and queues the batches for return, and the main goroutine  *)
(* that shuts it down.  With a gated scheduler the duty collar borrows     *)
(* skipped blocks from the mapped slots instead of copying them, so a      *)
(* batch may go back to the driver only when no collar entry points into   *)
(* it.                                                                     *)
(*                                                                         *)
(* The driver is its contract, BatchStream.  A block is its position 0, 1, *)
(* ... in the stream; block b is in batch b \div BatchBlocks.  What the    *)
(* scheduler decides, and whether processing a block ends the run          *)
(* (encoder error, -single), are inputs.                                   *)
(***************************************************************************)
EXTENDS Integers, Sequences

CONSTANTS
  N,            \* info.slot_count
  Collar,       \* len(d.collar) when it is borrowed, 0 when it is not
  BatchBlocks,  \* -direct-kernel-batch-blocks
  MaxBatches,   \* bound on the batches of a behaviour (model only)
  None          \* no batch

\* A bug: the division rounds down.
RetainFloor == Collar \div BatchBlocks

\* main.go: batches that hold at least Collar blocks.
RetainBatches == (Collar + BatchBlocks - 1) \div BatchBlocks

\* rtlamr_direct_kernel_start and newDirectRTLSource refuse fewer slots.
ASSUME ReceiverAssumption ==
  /\ Collar \in Nat /\ BatchBlocks \in Nat \ {0}
  /\ N \in Nat /\ N >= RetainBatches + 2
  /\ MaxBatches \in Nat /\ None \notin Nat

VARIABLES
  released, claimed, writable, stopped, \* the ring (BatchStream)
  pc,         \* where the reader goroutine is
  held,       \* source.kernelHeld: processed batches the collar may need
  pending,    \* source.kernelPending, None when not valid
  current,    \* source.kernelCurrent, None when not valid
  offset,     \* blocks of the current batch processed so far
  collar,     \* the collar's entries, oldest first
  failed,     \* a release was refused by the source or by the driver
  ctxDone,    \* rcvr.ctx is cancelled
  closing,    \* progress of Receiver.Close on the main goroutine
  mapped      \* the slots are mapped into the process

ringVars   == <<released, claimed, writable, stopped>>
sourceVars == <<held, pending, current>>
mainVars   == <<ctxDone, closing, mapped>>
vars == <<ringVars, pc, sourceVars, offset, collar, failed, mainVars>>

Ring == INSTANCE BatchStream

Init ==
  /\ Ring!Init
  /\ pc = "check"
  /\ held = <<>> /\ pending = None /\ current = None
  /\ offset = 0 /\ collar = <<>>
  /\ failed = FALSE
  /\ ctxDone = FALSE /\ closing = "no" /\ mapped = TRUE

-----------------------------------------------------------------------------
(* The reader goroutine ends: deferred wg.Done and rcvr.cancel.            *)
Exit == pc' = "exited" /\ ctxDone' = TRUE /\ UNCHANGED <<closing, mapped>>

(* The select at the head of the loop, then Next.                          *)
CheckContext ==
  /\ pc = "check"
  /\ IF ctxDone THEN Exit ELSE pc' = "exchange" /\ UNCHANGED mainVars
  /\ UNCHANGED <<ringVars, sourceVars, offset, collar, failed>>

\* A bug: the slot goes back only after the wait for the next.
ReleaseAfterWait ==
  /\ pc = "exchange"
  /\ pc' = "wait"
  /\ UNCHANGED <<ringVars, sourceVars, offset, collar, failed, mainVars>>

(* nextKernelBatch calls EXCHANGE, whose first half returns the pending    *)
(* batch; the driver refuses one that is not the oldest it is owed.        *)
ExchangeRelease ==
  /\ pc = "exchange"
  /\ IF pending = None
       THEN pc' = "wait" /\ UNCHANGED <<ringVars, failed, mainVars>>
     ELSE IF pending = released
       THEN Ring!GiveBack /\ pc' = "wait" /\ UNCHANGED <<failed, mainVars>>
     ELSE failed' = TRUE /\ Exit /\ UNCHANGED ringVars
  /\ UNCHANGED <<sourceVars, offset, collar>>

(* Its second half waits for the next batch.                               *)
ExchangeClaim ==
  /\ pc = "wait" /\ claimed < MaxBatches
  /\ Ring!Take
  /\ pc' = "process"
  /\ pending' = None /\ current' = claimed /\ offset' = 0
  /\ UNCHANGED <<held, collar, failed, mainVars>>

(* A completion with an error status or a short length ends the run; the   *)
(* batch has been claimed but is never current.                            *)
ExchangeInvalid ==
  /\ pc = "wait" /\ claimed < MaxBatches
  /\ Ring!Take
  /\ pending' = None
  /\ Exit
  /\ UNCHANGED <<held, current, offset, collar, failed>>

(* STOP, an unplugged device or a USB error ends the wait.  The pending    *)
(* batch stays recorded although the driver has taken it back.             *)
ExchangeFails ==
  /\ pc = "wait"
  /\ Exit
  /\ UNCHANGED <<ringVars, sourceVars, offset, collar, failed>>

(* finishBlock: the block's entry enters the collar in place of the oldest *)
(* one, with a reference to the samples if the block was skipped.          *)
Retain(entries, entry) ==
  IF Collar = 0 THEN <<>>
  ELSE IF Len(entries) < Collar THEN Append(entries, entry)
  ELSE Append(Tail(entries), entry)

\* The loop over the batch has a block left.
MoreBlocks == offset < BatchBlocks

BlockNumber == current * BatchBlocks + offset

ProcessBlock(decode) ==
  /\ pc = "process" /\ MoreBlocks
  /\ collar' = Retain(collar, [block |-> BlockNumber, rawValid |-> ~decode])
  /\ offset' = offset + 1
  /\ UNCHANGED <<ringVars, pc, sourceVars, failed, mainVars>>

\* A bug: the newest batch goes back, not the oldest.
ReleaseNewest ==
  IF Len(held) < RetainBatches
    THEN held' = Append(held, current) /\ current' = None /\ UNCHANGED <<pending, failed>>
    ELSE pending' = current /\ current' = None /\ UNCHANGED <<held, failed>>

(* releaseKernelBatch: the batch joins the retained ones; when there are   *)
(* more than the collar needs the oldest becomes pending, unless one is    *)
(* still pending, which is an error.                                       *)
ReleaseBatch ==
  LET queue == Append(held, current)
  IN IF Len(queue) <= RetainBatches
       THEN held' = queue /\ current' = None /\ UNCHANGED <<pending, failed>>
     ELSE IF pending # None
       THEN failed' = TRUE /\ UNCHANGED sourceVars
     ELSE /\ pending' = Head(queue) /\ held' = Tail(queue)
          /\ current' = None /\ UNCHANGED failed

\* All blocks of the batch are done.
FinishBatch ==
  /\ pc = "process" /\ offset = BatchBlocks
  /\ ReleaseBatch
  /\ IF failed' THEN Exit ELSE pc' = "check" /\ UNCHANGED mainVars
  /\ UNCHANGED <<ringVars, offset, collar>>

\* processBlock returned false, before or after its block entered the collar.
AbortBatch ==
  /\ pc = "process"
  /\ ReleaseBatch
  /\ Exit
  /\ UNCHANGED <<ringVars, offset, collar>>

-----------------------------------------------------------------------------
(* Receiver.Close on the main goroutine, after a signal, the time limit or *)
(* the end of the reader: cancel, source.Cancel (STOP), wg.Wait,           *)
(* source.Close (STOP again, munmap, close).                               *)
CloseBegin ==
  /\ closing = "no"
  /\ closing' = "cancel" /\ ctxDone' = TRUE
  /\ UNCHANGED <<ringVars, pc, sourceVars, offset, collar, failed, mapped>>

CancelSource ==
  /\ closing = "cancel"
  /\ Ring!Stop
  /\ closing' = "wait"
  /\ UNCHANGED <<pc, sourceVars, offset, collar, failed, ctxDone, mapped>>

\* A bug: Close does not wait for the reader.
WaitNobody ==
  /\ closing = "wait"
  /\ closing' = "close"
  /\ UNCHANGED <<ringVars, pc, sourceVars, offset, collar, failed, ctxDone, mapped>>

WaitReader ==
  /\ closing = "wait" /\ pc = "exited"
  /\ closing' = "close"
  /\ UNCHANGED <<ringVars, pc, sourceVars, offset, collar, failed, ctxDone, mapped>>

CloseSource ==
  /\ closing = "close"
  /\ Ring!Stop
  /\ mapped' = FALSE /\ closing' = "closed"
  /\ UNCHANGED <<pc, sourceVars, offset, collar, failed, ctxDone>>

(* The device writes to some of the slots the process does not hold.       *)
Device ==
  /\ Ring!Device
  /\ UNCHANGED <<pc, sourceVars, offset, collar, failed, mainVars>>

\* The device is unplugged.
Unplug ==
  /\ Ring!Stop
  /\ UNCHANGED <<pc, sourceVars, offset, collar, failed, mainVars>>

ReaderStep ==
  \/ CheckContext
  \/ ExchangeRelease \/ ExchangeClaim \/ ExchangeInvalid \/ ExchangeFails
  \/ \E decode \in BOOLEAN : ProcessBlock(decode)
  \/ FinishBatch \/ AbortBatch

MainStep == CancelSource \/ WaitReader \/ CloseSource

Next == ReaderStep \/ CloseBegin \/ MainStep \/ Device \/ Unplug

Spec == Init /\ [][Next]_vars

(* The goroutines run when they can.  A blocked exchange is certain to     *)
(* return only after STOP (UsbRing's StopWakesReaders); before that it     *)
(* depends on the device.                                                  *)
StoppedExchangeFails == stopped /\ ExchangeFails

Fairness ==
  /\ WF_vars(CheckContext \/ ExchangeRelease \/ StoppedExchangeFails)
  /\ WF_vars((\E decode \in BOOLEAN : ProcessBlock(decode)) \/ FinishBatch)
  /\ WF_vars(MainStep)

FairSpec == Spec /\ Fairness
-----------------------------------------------------------------------------
Entries == [block : Nat, rawValid : BOOLEAN]

TypeOK ==
  /\ released \in Nat /\ claimed \in Nat
  /\ writable \subseteq Ring!Slots /\ stopped \in BOOLEAN
  /\ pc \in {"check", "exchange", "wait", "process", "exited"}
  /\ held \in Seq(Nat) /\ pending \in Nat \cup {None} /\ current \in Nat \cup {None}
  /\ offset \in 0 .. BatchBlocks
  /\ collar \in Seq(Entries)
  /\ failed \in BOOLEAN /\ ctxDone \in BOOLEAN /\ mapped \in BOOLEAN
  /\ closing \in {"no", "cancel", "wait", "close", "closed"}

(* kernel README: slots "cannot be submitted again while the decoder or    *)
(* recovery collar may still reference their bytes".  Every block the      *)
(* collar may replay is in a batch the process holds, so the device is not *)
(* writing over it.                                                        *)
BatchOf(b) == b \div BatchBlocks

CollarOwned ==
  \A i \in DOMAIN collar : collar[i].rawValid =>
    /\ released <= BatchOf(collar[i].block) /\ BatchOf(collar[i].block) < claimed
    /\ BatchOf(collar[i].block) % N \notin writable

(* The order in which the source queues batches for return is the order    *)
(* the driver demands, and its one-entry pending queue is always free when *)
(* it is needed: releaseKernelBatch and EXCHANGE never refuse a release.   *)
NoReleaseRefused == ~failed

(* "Return capacity to the USB queue before waiting": however long the     *)
(* receiver holds its batches, the device keeps a slot to write to while a *)
(* batch is processed and two while the receiver waits for one.            *)
DeviceFed ==
  /\ pc = "process" => claimed - released + 1 <= N
  /\ pc = "wait" => claimed - released + 2 <= N

(* Receiver.Close unmaps the slots only after the reader, the only one who *)
(* reads batches and collar, has ended.                                    *)
MappedWhileReading == ~mapped => pc = "exited"

(* A receiver told to stop closes, even if its reader is blocked in the    *)
(* driver and the device sends nothing more.                               *)
CloseReturns == closing # "no" ~> closing = "closed"

-----------------------------------------------------------------------------
(* Inductive invariant (ReceiverSourcesProofs).                            *)

\* The device keeps off the slots the process holds.
SlotsExclusive == writable \cap Ring!HeldSlots = {}

\* While the reader runs: the batches before Top have been processed, the
\* last of them are retained, and the one before those may be pending.
Top == IF pc = "process" THEN claimed - 1 ELSE claimed

QueueInv ==
  pc # "exited" =>
    /\ current = IF pc = "process" THEN Top ELSE None
    /\ Len(held) <= RetainBatches
    /\ \A i \in 1 .. Len(held) : held[i] = Top - Len(held) + i - 1
    /\ pc = "process" => pending = None
    /\ pending # None => Len(held) = RetainBatches /\ pending = Top - Len(held) - 1
    /\ released = IF pc \in {"check", "exchange"} /\ pending # None
                    THEN pending ELSE Top - Len(held)
    /\ Len(held) < RetainBatches => released = 0

\* The collar holds the last blocks processed.
Total == Top * BatchBlocks + (IF pc = "process" THEN offset ELSE 0)

CollarInv ==
  pc # "exited" =>
    /\ Len(collar) <= Collar
    /\ \A i \in 1 .. Len(collar) :
         collar[i].block = Total - Len(collar) + i - 1

CollarHeld ==
  \A i \in 1 .. Len(collar) :
    /\ released <= BatchOf(collar[i].block)
    /\ BatchOf(collar[i].block) < claimed

\* Receiver.Close goes past wg.Wait only after the reader.
CloseInv ==
  /\ closing \in {"close", "closed"} => pc = "exited"
  /\ ~mapped => closing = "closed"

ReceiverInv ==
  /\ SlotsExclusive /\ QueueInv /\ CollarInv /\ CollarHeld /\ CloseInv
  /\ NoReleaseRefused
=============================================================================
