---------------------------- MODULE StreamSource ----------------------------
(***************************************************************************)
(* The rtl_tcp source (receiver_source.go) under Receiver.Run, with the    *)
(* continuous sample capture (continuous_capture.go) that sees every block *)
(* first.  The connection returns any number of bytes at a time; Next      *)
(* collects whole decoder blocks, keeps the tail for the next batch and    *)
(* holds back an error that came with data.  The main goroutine closes the *)
(* connection to stop the run.                                             *)
(*                                                                         *)
(* A byte is its position in the stream, a block of the capture file the   *)
(* position of its first byte.                                             *)
(***************************************************************************)
EXTENDS Integers, Sequences

CONSTANTS
  BlockBytes,   \* decoder block: Cfg.BlockSize2
  Blocks,       \* receiverReadBlocks
  SampleRate,   \* complex samples, of two bytes, per Second
  Duration,     \* -continuoussampleduration
  Second,       \* time.Second in units of Duration
  Half,         \* integers are -Half .. Half - 1: 2^63 in the code
  StreamBytes   \* bound on the bytes the peer sends (model only)

StreamAssumption ==
  /\ {BlockBytes, Blocks, SampleRate, Duration, Second, Half} \subseteq Nat \ {0}
  /\ StreamBytes \in Nat

VARIABLES
  buffer,       \* source.buffer[:filled]
  batchBytes, batchActive,
  pendingErr,   \* an error came with the data of the last Read
  got,          \* bytes received (history)
  conn,         \* what has ended the connection: "peer", "cancel"
  offset,       \* bytes of the batch processed
  remaining,    \* capture.blocksRemaining
  file, synced, \* the capture file
  recv, ctxDone, err, closing

sourceVars  == <<buffer, batchBytes, batchActive, pendingErr, got>>
captureVars == <<remaining, file, synced>>
mainVars    == <<ctxDone, err, closing>>
vars == <<sourceVars, conn, offset, captureVars, recv, mainVars>>

Wrap(x) == ((x + Half) % (2 * Half)) - Half

\* Go's division rounds towards zero.
Quotient(x, d) == IF x >= 0 THEN x \div d ELSE -((-x) \div d)

(* newBlockCapture rounds the duration up to whole blocks.                 *)
CaptureBlocks ==
  LET targetBytes == Quotient(Wrap(SampleRate * 2 * Duration + Second - 1), Second)
  IN Quotient(Wrap(targetBytes + BlockBytes - 1), BlockBytes)

Init ==
  /\ buffer = <<>> /\ batchBytes = 0 /\ batchActive = FALSE /\ pendingErr = FALSE
  /\ got = 0 /\ conn = {} /\ offset = 0
  /\ remaining = CaptureBlocks /\ file = <<>> /\ synced = FALSE
  /\ recv = "check" /\ ctxDone = FALSE /\ err = "none" /\ closing = "no"

Capacity == BlockBytes * Blocks
-----------------------------------------------------------------------------
Exit(why) ==
  /\ recv' = "exited" /\ ctxDone' = TRUE
  /\ err' = IF why # "none" THEN why ELSE err
  /\ UNCHANGED closing

\* The head of the loop of Run.
CheckContext ==
  /\ recv = "check"
  /\ IF ctxDone THEN Exit("none") ELSE recv' = "next" /\ UNCHANGED mainVars
  /\ UNCHANGED <<sourceVars, conn, offset, captureVars>>

(* Next has failed, or made no progress; only then Run asks the context.   *)
FailNext ==
  /\ recv \in {"failed", "stalled"}
  /\ Exit(IF ctxDone THEN "none" ELSE IF recv = "failed" THEN "source" ELSE "noprogress")
  /\ UNCHANGED <<sourceVars, conn, offset, captureVars>>

\* The error Next held back.
NextHeldBack ==
  /\ recv = "next" /\ pendingErr
  /\ pendingErr' = FALSE
  /\ recv' = "failed"
  /\ UNCHANGED <<buffer, batchBytes, batchActive, got, conn, offset, captureVars, mainVars>>

(* After one Read of Next's loop: whole blocks are delivered even if the   *)
(* Read failed; without one, an error ends Next and otherwise it reads on. *)
Deliver(bytes, failed) ==
  IF Len(bytes) >= BlockBytes
    THEN /\ batchBytes' = Len(bytes) - (Len(bytes) % BlockBytes) /\ batchActive' = TRUE
         /\ pendingErr' = failed /\ offset' = 0
         /\ recv' = "process"
  ELSE /\ recv' = IF failed THEN "failed" ELSE recv
       /\ UNCHANGED <<batchBytes, batchActive, pendingErr, offset>>

\* A Read returns n bytes, the last ones perhaps together with the error.
Read(n, failed) ==
  /\ recv = "next" /\ ~pendingErr
  /\ "cancel" \notin conn /\ n <= Capacity - Len(buffer) /\ got + n <= StreamBytes
  /\ failed => "peer" \in conn
  /\ buffer' = buffer \o [i \in 1 .. n |-> got + i - 1]
  /\ got' = got + n
  /\ Deliver(buffer', failed)
  /\ UNCHANGED <<conn, captureVars, mainVars>>

(* A Read without data: the connection is closed or broken, or it returns  *)
(* no error either (io.ErrNoProgress).                                     *)
ReadNothing ==
  /\ recv = "next" /\ ~pendingErr
  /\ recv' = IF conn = {} THEN "stalled" ELSE "failed"
  /\ UNCHANGED <<sourceVars, conn, offset, captureVars, mainVars>>

-----------------------------------------------------------------------------
(* blockCapture.WriteBlock, whose last block is synced.                    *)
WriteBlock(first) ==
  /\ file' = Append(file, first)
  /\ remaining' = Wrap(remaining - 1)
  /\ synced' = (remaining' = 0)

\* processBlock of the next block of the batch.
ProcessBlock ==
  /\ recv = "process" /\ offset < batchBytes
  /\ IF remaining = 0 THEN UNCHANGED captureVars ELSE WriteBlock(buffer[offset + 1])
  /\ offset' = offset + BlockBytes
  /\ UNCHANGED <<sourceVars, conn, recv, mainVars>>

\* A bug: the tail behind the last whole block is dropped.
ReleaseWhole ==
  /\ buffer' = <<>>
  /\ batchBytes' = 0 /\ batchActive' = FALSE
  /\ UNCHANGED <<pendingErr, got>>

\* Release moves the tail to the front of the buffer.
Release ==
  /\ buffer' = SubSeq(buffer, batchBytes + 1, Len(buffer))
  /\ batchBytes' = 0 /\ batchActive' = FALSE
  /\ UNCHANGED <<pendingErr, got>>

FinishBatch ==
  /\ recv = "process" /\ offset = batchBytes
  /\ Release
  /\ recv' = "check"
  /\ UNCHANGED <<conn, offset, captureVars, mainVars>>

\* The last block was written but the file could not be synced.
SyncFails ==
  /\ recv = "process" /\ offset < batchBytes /\ remaining = 1
  /\ file' = Append(file, buffer[offset + 1])
  /\ remaining' = 0 /\ UNCHANGED synced
  /\ Release
  /\ Exit("process")
  /\ UNCHANGED <<conn, offset>>

(* processBlock fails before its block is captured, or afterwards; file    *)
(* holds whole blocks, not the part of one a failed Write may leave.       *)
AbortBatch ==
  /\ recv = "process"
  /\ Release
  /\ Exit("process")
  /\ UNCHANGED <<conn, offset, captureVars>>

-----------------------------------------------------------------------------
\* The peer closes the connection, or it breaks.
Break ==
  /\ conn' = conn \cup {"peer"} /\ conn = {}
  /\ UNCHANGED <<sourceVars, offset, captureVars, recv, mainVars>>

CloseBegin ==
  /\ closing = "no"
  /\ ctxDone' = TRUE /\ closing' = "cancel"
  /\ UNCHANGED <<sourceVars, conn, offset, captureVars, recv, err>>

\* Cancel closes the connection, which ends a blocked Read.
Cancel ==
  /\ closing = "cancel"
  /\ conn' = conn \cup {"cancel"} /\ closing' = "wait"
  /\ UNCHANGED <<sourceVars, offset, captureVars, recv, ctxDone, err>>

\* wg.Wait; main then closes the capture file.
WaitReceiver ==
  /\ closing = "wait" /\ recv = "exited"
  /\ closing' = "closed"
  /\ UNCHANGED <<sourceVars, conn, offset, captureVars, recv, ctxDone, err>>

Reads == \E n \in 1 .. Capacity, failed \in BOOLEAN : Read(n, failed)

Next ==
  \/ CheckContext \/ NextHeldBack \/ Reads \/ ReadNothing \/ FailNext
  \/ ProcessBlock \/ FinishBatch \/ SyncFails \/ AbortBatch
  \/ Break \/ CloseBegin \/ Cancel \/ WaitReceiver

Spec == Init /\ [][Next]_vars

(* The goroutines run when they can; a Read is certain to return only on a *)
(* closed or broken connection, and main closes when the context ends.     *)
ReadEnds == conn # {} /\ (Reads \/ ReadNothing)
CloseAfterContext == ctxDone /\ CloseBegin

RunStep ==
  CheckContext \/ NextHeldBack \/ ReadEnds \/ FailNext \/ ProcessBlock \/ FinishBatch
CloseStep == CloseAfterContext \/ Cancel \/ WaitReceiver

Fairness == WF_vars(RunStep) /\ WF_vars(CloseStep)

FairSpec == Spec /\ Fairness
-----------------------------------------------------------------------------
TypeOK ==
  /\ buffer \in Seq(Nat) /\ Len(buffer) <= Capacity
  /\ batchBytes \in 0 .. Len(buffer) /\ batchActive \in BOOLEAN /\ pendingErr \in BOOLEAN
  /\ got \in 0 .. StreamBytes /\ conn \subseteq {"peer", "cancel"}
  /\ offset \in 0 .. Capacity /\ remaining \in -Half .. (Half - 1)
  /\ file \in Seq(Nat) /\ synced \in BOOLEAN
  /\ recv \in {"check", "next", "process", "failed", "stalled", "exited"} /\ ctxDone \in BOOLEAN
  /\ err \in {"none", "source", "noprogress", "process"}
  /\ closing \in {"no", "cancel", "wait", "closed"}

(* No byte is lost, repeated or moved between partial reads: the buffer    *)
(* always holds the last bytes received and starts on a block boundary of  *)
(* the stream.                                                             *)
InSequence ==
  recv # "exited" =>
    /\ \A i \in DOMAIN buffer : buffer[i] = got - Len(buffer) + i - 1
    /\ (got - Len(buffer)) % BlockBytes = 0

(* An error of the connection ends the run only after every whole block    *)
(* that arrived before it has been processed.                              *)
ErrorAfterData == err = "source" => Len(buffer) < BlockBytes

(* Closing the receiver is not an error, however the read it interrupts    *)
(* returns: Run reports a source error only when the connection broke.     *)
ErrorsAreReal == err = "source" => "peer" \in conn

(* The capture file holds the first blocks of the stream without a gap.    *)
(* When it is complete it is synced, or an error was reported, and covers  *)
(* the duration with less than one block to spare.                         *)
CaptureExact ==
  /\ \A i \in DOMAIN file : file[i] = (i - 1) * BlockBytes
  /\ remaining = 0 =>
       /\ synced \/ err = "process"
       /\ Len(file) * BlockBytes * Second >= SampleRate * 2 * Duration
       /\ (Len(file) - 1) * BlockBytes * Second < SampleRate * 2 * Duration

(* What the source delivers and the capture keeps.                         *)
StreamExact == TypeOK /\ InSequence /\ ErrorAfterData /\ ErrorsAreReal /\ CaptureExact

(* A receiver told to stop closes even if the peer sends nothing more.     *)
CloseReturns == ctxDone ~> closing = "closed"
=============================================================================
