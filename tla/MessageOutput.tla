--------------------------- MODULE MessageOutput ----------------------------
(***************************************************************************)
(* What Receiver.processBlock (main.go) does with a block when no duty     *)
(* scheduler runs: it keeps the last samples for -samplefile, passes the   *)
(* decoded messages through the filter chain (flags.go, protocol/parse.go),*)
(* drops those already seen in the block before, encodes the rest, dumps   *)
(* the samples and, with -single, ends the run.                            *)
(*                                                                         *)
(* A message is its meter and its checksum.  What a block decodes to is an *)
(* input; positions in the raw stream and in the sample file are bytes.    *)
(* The command line is chosen at the start: filter is -filterid, {} when   *)
(* the flag is not given, samples that there is a -samplefile.             *)
(***************************************************************************)
EXTENDS Integers, Sequences, FiniteSets, SequencesExt

CONSTANTS
  Meters, Sums,
  CommandLines,   \* the command lines considered
  BlockBytes,     \* bytes of a decoder block
  BufferLength,   \* samples, of two bytes, the decoder looks back
  Air,            \* the messages in range of a receiver with a command line
  MaxBlocks       \* bound on the blocks of its behaviour (model only)

Messages == [meter : Meters, sum : Sums]
NoSum == "none"

OutputAssumption ==
  /\ CommandLines \subseteq
       [filter : SUBSET Meters, unique : BOOLEAN, single : BOOLEAN, samples : BOOLEAN]
  /\ BlockBytes \in Nat \ {0} /\ BufferLength \in Nat
  /\ Air \in [CommandLines -> SUBSET Messages] /\ MaxBlocks \in [CommandLines -> Nat]

VARIABLES
  flags,        \* command line
  ids,          \* meterID.UintMap
  last,         \* the UniqueFilter's checksum of each meter
  prev,         \* messages the filters passed in the block before
  position,     \* bytes processed
  sampleLength, \* bytes in sampleBuf
  log,          \* encoded messages with their sample offset and length
  dump,         \* sample file: the parts of the stream written to it
  ended,        \* the run has ended
  failed        \* rcvr.err is set

vars == <<flags, ids, last, prev, position, sampleLength, log, dump, ended, failed>>

Init ==
  /\ flags \in CommandLines
  /\ ids = flags.filter /\ last = [m \in Meters |-> NoSum]
  /\ prev = {} /\ position = 0 /\ sampleLength = 0
  /\ log = <<>> /\ dump = <<>> /\ ended = FALSE /\ failed = FALSE

\* Bytes in the sample file: its write position.
Written == FoldLeft(LAMBDA n, part : n + part.to - part.from, 0, dump)

\* The oldest block leaves the buffer once it holds enough.
Window(length) == IF length > 2 * BufferLength THEN length ELSE length + BlockBytes

(* FilterChain.Match in the order flag.Visit adds the filters: the id      *)
(* filter, then -unique, which records what it passes.                     *)
IdMatch(st, msg) == flags.filter # {} => msg.meter \in st.ids
Fresh(st, msg)   == flags.unique => st.last[msg.meter] # msg.sum

\* A bug: messages of the block before are not remembered.
NeverSeen(msg) == FALSE

\* The message was already passed in the block before.
Seen(msg) == msg \in prev

\* -single: the meter has delivered its message.
Consume(st, msg) == IF flags.single THEN st.ids \ {msg.meter} ELSE st.ids

(* One message of processDecodedMessages.  done: the loop was left.        *)
HandleMessage(st, msg) ==
  IF st.done \/ ~IdMatch(st, msg) \/ ~Fresh(st, msg) THEN st
  ELSE LET passed == [st EXCEPT !.last = IF flags.unique THEN [@ EXCEPT ![msg.meter] = msg.sum] ELSE @,
                                !.next = @ \cup {msg}]
       IN IF Seen(msg) THEN passed
          ELSE [passed EXCEPT
                  !.log = Append(@, [msg |-> msg, offset |-> Written, length |-> st.length,
                                     at |-> position + BlockBytes]),
                  !.found = TRUE,
                  !.done = flags.single /\ st.ids = {},
                  !.ids = Consume(st, msg)]

Handled(msgs) ==
  FoldLeft(HandleMessage,
           [ids |-> ids, last |-> last, next |-> {}, log |-> log, found |-> FALSE,
            done |-> FALSE, length |-> Window(sampleLength)], msgs)

(* processBlock: window, decode, filter and encode, then the sample dump   *)
(* and the end of a -single run.                                           *)
ProcessBlock(msgs) ==
  /\ ~ended /\ position < MaxBlocks[flags] * BlockBytes
  /\ position' = position + BlockBytes
  /\ sampleLength' = Window(sampleLength)
  /\ LET st == Handled(msgs) IN
       /\ ids' = st.ids /\ last' = st.last /\ prev' = st.next /\ log' = st.log
       /\ dump' = IF st.found /\ flags.samples
                    THEN Append(dump, [from |-> position' - sampleLength', to |-> position'])
                    ELSE dump
       /\ ended' = (st.found /\ flags.samples /\ flags.single /\ st.ids = {})
  /\ UNCHANGED <<flags, failed>>

\* The k-th message is the one the encoder fails on: Run returns with rcvr.err.
EncodeFails(msgs, k) ==
  /\ ~ended /\ position < MaxBlocks[flags] * BlockBytes
  /\ LET before == Handled(SubSeq(msgs, 1, k - 1))
         st     == Handled(SubSeq(msgs, 1, k))
     IN /\ st.log # before.log
        /\ last' = st.last /\ ids' = before.ids /\ log' = before.log
  /\ position' = position + BlockBytes /\ sampleLength' = Window(sampleLength)
  /\ ended' = TRUE /\ failed' = TRUE
  /\ UNCHANGED <<flags, prev, dump>>

\* The messages are out but their samples cannot be written.
DumpFails(msgs) ==
  /\ ~ended /\ position < MaxBlocks[flags] * BlockBytes
  /\ flags.samples /\ Handled(msgs).found
  /\ LET st == Handled(msgs) IN
       ids' = st.ids /\ last' = st.last /\ prev' = st.next /\ log' = st.log
  /\ position' = position + BlockBytes /\ sampleLength' = Window(sampleLength)
  /\ ended' = TRUE /\ failed' = TRUE
  /\ UNCHANGED <<flags, dump>>

Decodes == UNION {[1 .. n -> Air[flags]] : n \in 0 .. 2}

Next ==
  \E msgs \in Decodes :
    \/ ProcessBlock(msgs) \/ DumpFails(msgs)
    \/ \E k \in DOMAIN msgs : EncodeFails(msgs, k)

Spec == Init /\ [][Next]_vars
-----------------------------------------------------------------------------
TypeOK ==
  /\ flags \in CommandLines /\ ids \subseteq flags.filter /\ last \in [Meters -> Sums \cup {NoSum}]
  /\ prev \subseteq Messages /\ position \in Nat
  /\ sampleLength \in 0 .. position /\ ended \in BOOLEAN /\ failed \in BOOLEAN
  /\ \A i \in DOMAIN log : log[i].msg \in Messages

Count(m) == Cardinality({i \in DOMAIN log : log[i].msg.meter = m})

(* -single "will wait for exactly one packet from each meter id": no meter *)
(* is printed twice, and the run ends by itself only when each has been.   *)
SingleExact ==
  flags.single /\ flags.filter # {} =>
    /\ \A m \in flags.filter : Count(m) <= 1
    /\ ended /\ ~failed => \A m \in flags.filter : Count(m) = 1

(* Every message in the log can be found in the sample file: the bytes its *)
(* offset and length name end with the block it was decoded in and go back *)
(* over all the samples the decoder had.  A failed write ends the run.     *)
SamplesCoverPacket ==
  flags.samples /\ ~failed =>
    \A i \in DOMAIN log : \E j \in DOMAIN dump :
      LET before == FoldLeft(LAMBDA n, part : n + part.to - part.from, 0,
                             SubSeq(dump, 1, j - 1))
      IN /\ log[i].offset = before /\ log[i].length = dump[j].to - dump[j].from
         /\ dump[j].to = log[i].at
         /\ dump[j].from = 0 \/ log[i].length >= 2 * BufferLength

(* A message seen in two adjacent blocks is printed once: no two entries   *)
(* of the same message are of adjacent blocks.  (Of one block they could   *)
(* be; it is the parsers that report no packet of a block twice.)          *)
SpanningOnce ==
  \A i, j \in DOMAIN log :
    i < j /\ log[i].msg = log[j].msg => log[j].at - log[i].at # BlockBytes

\* The messages -single waits for have been printed.
Delivered == log # <<>> /\ \A m \in flags.filter : Count(m) >= 1

(* When a -single run ends: with a sample file, in the block that brings   *)
(* the last message it waits for.  Without one processBlock never comes to *)
(* its test of -single, and the run ends only by a failure.                *)
SingleStops ==
  flags.single => IF flags.samples THEN Delivered => ended ELSE ended => failed

(* flags.go of -single: "one shot execution, if used with -filterid, will  *)
(* wait for exactly one packet from each meter id".  Whatever the other    *)
(* flags, the run is over once it has printed what it waited for.          *)
OneShot == flags.single /\ Delivered => ended

(* What is printed and dumped.                                             *)
OutputExact == TypeOK /\ SingleExact /\ SamplesCoverPacket /\ SpanningOnce /\ SingleStops
=============================================================================
