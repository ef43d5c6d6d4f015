-------------------------- MODULE ReceiverSources ---------------------------
(***************************************************************************)
(* The receiver with whichever source it was configured for, from opening  *)
(* to Close: the rtl_tcp connection (StreamSource), or the SDR on the USB  *)
(* bus, which is opened step by step (SourceSetup) and then streams        *)
(* through the kernel ring (KernelReceiver) or the reader thread's ring    *)
(* (DirectRing).  The last step of Receiver.Close is a step of both the    *)
(* receiver and the setup, whose resources it releases.                    *)
(*                                                                         *)
(* Each source has its own copy of the receiver's state: only one runs.    *)
(***************************************************************************)
EXTENDS KernelReceiver

CONSTANTS
  KernelRing, SlotCounts, Attempts, DetachFails,                     \* SourceSetup
  BlockBytes, Blocks, SampleRate, Duration, Second, Half, StreamBytes  \* StreamSource

VARIABLES
  source,   \* "tcp" or "direct" (-source)
  \* SourceSetup
  at, resources, slotsPtr, active, started, attached, slotCount, mappedSlots, buffers,
  attempt, borrowed, cause, misused,
  \* DirectRing
  state, batch, ragged, producer, consumer, stopping, readDone, readResult, asleep, thread,
  recv, filled, taken, returned, threadDone, err, threadClosing,
  \* StreamSource
  buffer, batchBytes, batchActive, pendingErr, got, conn, tcpOffset, remaining, file, synced,
  tcpRecv, tcpDone, tcpErr, tcpClosing

Setup == INSTANCE SourceSetup WITH
  held <- resources, mapped <- mappedSlots, CollarBlocks <- Collar, RingCount <- N

Thread == INSTANCE DirectRing WITH
  ctxDone <- threadDone, closing <- threadClosing, MaxBatches <- N + 1

Tcp == INSTANCE StreamSource WITH
  offset <- tcpOffset, recv <- tcpRecv, ctxDone <- tcpDone, err <- tcpErr, closing <- tcpClosing

ASSUME SourcesAssumption ==
  /\ Thread!RingAssumption /\ Tcp!StreamAssumption
  /\ Attempts \in Nat \ {0}
  /\ SlotCounts \subseteq Nat /\ \A n \in SlotCounts : n >= Setup!RetainBatches + 2 => n = N

setupVars == <<at, resources, slotsPtr, active, started, attached, slotCount, mappedSlots, buffers,
               attempt, borrowed, cause, misused>>
threadVars == <<state, batch, ragged, producer, consumer, stopping, readDone, readResult, asleep,
                thread, recv, filled, taken, returned, threadDone, err, threadClosing>>
tcpVars == <<buffer, batchBytes, batchActive, pendingErr, got, conn, tcpOffset, remaining, file,
             synced, tcpRecv, tcpDone, tcpErr, tcpClosing>>
all == <<source, vars, setupVars, threadVars, tcpVars>>

SourcesInit ==
  /\ source \in {"tcp", "direct"}
  /\ Init /\ Setup!Init /\ Thread!Init /\ Tcp!Init

-----------------------------------------------------------------------------
\* newDirectRTLSource and the rest of NewReceiver.
Opening ==
  /\ source = "direct" /\ at # "ready"
  /\ Setup!Next
  /\ UNCHANGED <<source, vars, threadVars, tcpVars>>

OnKernel == at = "ready" /\ "streaming" \in resources

\* Receiver.Close ends with rtlamr_direct_close.
KernelFrame ==
  /\ IF closing' = "closed" THEN Setup!Close ELSE UNCHANGED setupVars
  /\ UNCHANGED <<source, threadVars, tcpVars>>

OnThread == at = "ready" /\ "thread" \in resources

ThreadFrame ==
  /\ IF threadClosing' = "freed" THEN Setup!Close ELSE UNCHANGED setupVars
  /\ UNCHANGED <<source, vars, tcpVars>>

\* The thread reads from the moment it is created.
EarlyRead == "thread" \in resources /\ at # "ready" /\ Thread!ReaderStep /\ ThreadFrame

TcpFrame == UNCHANGED <<source, vars, setupVars, threadVars>>

SourcesNext ==
  \/ Opening \/ EarlyRead
  \/ OnKernel /\ Next /\ KernelFrame
  \/ OnThread /\ Thread!Next /\ ThreadFrame
  \/ source = "tcp" /\ Tcp!Next /\ TcpFrame

(* Opening is sequential code; the fairness of the three sources is theirs. *)
SourcesFairness ==
  /\ WF_all(Opening)
  /\ WF_all(OnKernel /\ (CheckContext \/ ExchangeRelease \/ StoppedExchangeFails) /\ KernelFrame)
  /\ WF_all(OnKernel /\ ((\E decode \in BOOLEAN : ProcessBlock(decode)) \/ FinishBatch) /\ KernelFrame)
  /\ WF_all(OnKernel /\ MainStep /\ KernelFrame)
  /\ WF_all("thread" \in resources /\ Thread!ReaderRuns /\ ThreadFrame)
  /\ WF_all(OnThread /\ Thread!ReceiverStep /\ ThreadFrame)
  /\ WF_all(OnThread /\ (Thread!MainStep \/ Thread!CloseAfterContext) /\ ThreadFrame)
  /\ WF_all(source = "tcp" /\ Tcp!RunStep /\ TcpFrame)
  /\ WF_all(source = "tcp" /\ Tcp!CloseStep /\ TcpFrame)

SourcesSpec == SourcesInit /\ [][SourcesNext]_all /\ SourcesFairness

-----------------------------------------------------------------------------
(* Opening the SDR cleans up after itself: whatever step failed, what was  *)
(* acquired is released exactly once, only steps the kernel module has no  *)
(* part in can fail the start, and exactly one ring streams.               *)
SetupClean == Setup!SetupClean

(* The reader thread's ring delivers batches in order, loses no wakeup and *)
(* frees nothing in use, although reader, receiver and Close overtake each *)
(* other.                                                                  *)
RingSafe == Thread!RingSafe

(* The reader thread's ring implements the contract KernelReceiver is      *)
(* built on (BatchStream), from the first batch to Close.                  *)
RingContract == Thread!Contract

(* The TCP source delivers the stream in whole blocks without loss, its    *)
(* error after its data, and the capture takes exactly what was asked for. *)
StreamExact == Tcp!StreamExact

(* Whatever the source: opening ends, a batch in the ring reaches the      *)
(* receiver unless that ends, and a receiver told to stop closes, whoever  *)
(* is blocked or asleep at that moment and if nothing more arrives.  Only  *)
(* the reader thread can prevent it, by a read of the SDR that never       *)
(* returns: Cancel does not interrupt it, and Close waits in its join.     *)
SourcesLive ==
  /\ source = "direct" ~> at \in {"ready", "failed", "closed"}
  /\ CloseReturns /\ Thread!Delivered /\ Thread!CloseReturns /\ Tcp!CloseReturns
=============================================================================
