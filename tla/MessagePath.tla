---------------------------- MODULE MessagePath -----------------------------
(***************************************************************************)
(* The way of a message from samples to the database: the decoder keeps    *)
(* its rings (DecoderHistory) and hands what it finds to the parsers       *)
(* (DecoderDispatch), a parser believes a packet or not (PacketChecks),    *)
(* the receiver filters, prints and dumps it (MessageOutput), and          *)
(* rtlamr-collect stores it (Collector).                                   *)
(*                                                                         *)
(* The stages share no state: each passes positions, packets or messages   *)
(* on by value, which the next takes as inputs.  A behaviour therefore     *)
(* follows one of them, chosen at the start.                               *)
(***************************************************************************)
EXTENDS PacketChecks

CONSTANTS
  ByteBits,                                                            \* bits in a byte
  Geometries, Backends, DecodedBlocks,                                 \* DecoderHistory
  Parsers, Preamble, Takes, HistoryOf, Power16Of, FixedIDM, FixedR900,
  SymbolBytes, SearchBytes, Decisions,                                 \* DecoderDispatch
  Meters, Sums, CommandLines, Air, OutputBytes, LookBack, OutputBlocks, \* MessageOutput
  Indices, Carried, Period, Threshold, Jitter, Heartbeat, Readings, MaxClock, MaxUnsaved, None

VARIABLES
  part,
  cfg, backend, signal, block, quantized, start, packed, packedStart, next, origin, rebuilt,
  replayed, published,
  registered, preambles, fixedIDM, fixedR900, preambleSymbols, overlap, compatible, consumers,
  allocated, active, attached, history, window, calls,
  flags, ids, last, prev, position, sampleLength, log, dump, ended, failed,
  clock, pc, meters, coalesced, batch, reading, written, lost, offered, stored, heard, unsaved

historyVars == <<cfg, backend, signal, block, quantized, start, packed, packedStart, next, origin,
                 rebuilt, replayed, published>>
dispatchVars == <<registered, preambles, fixedIDM, fixedR900, preambleSymbols, overlap, compatible,
                  consumers, allocated, active, attached, history, window, calls>>
outputVars == <<flags, ids, last, prev, position, sampleLength, log, dump, ended, failed>>
collectorVars == <<clock, pc, meters, coalesced, batch, reading, written, lost, offered, stored,
                   heard, unsaved>>
all == <<part, vars, historyVars, dispatchVars, outputVars, collectorVars>>

Rings == INSTANCE DecoderHistory WITH Byte <- ByteBits, MaxBlocks <- DecodedBlocks

Dispatch == INSTANCE DecoderDispatch WITH Byte <- ByteBits, BlockBytes <- SearchBytes

Output == INSTANCE MessageOutput WITH
  BlockBytes <- OutputBytes, BufferLength <- LookBack, MaxBlocks <- OutputBlocks

Database == INSTANCE Collector WITH Window <- Carried

ASSUME PathAssumption ==
  Rings!HistoryAssumption /\ Dispatch!DispatchAssumption /\ Output!OutputAssumption
  /\ Database!CollectorAssumption

\* A stage that is not followed stays in one of its initial states.
Fixed(name, chosen) == part # name => chosen

PathInit ==
  /\ part \in {"rings", "dispatch", "checks", "output", "database"}
  /\ Rings!Init /\ Fixed("rings", backend = "float" /\ cfg = CHOOSE g \in Geometries : TRUE)
  /\ Dispatch!Init
  /\ Init /\ Fixed("checks", code = "scm")
  /\ Output!Init /\ Fixed("output", flags = CHOOSE f \in CommandLines : TRUE)
  /\ Database!Init

RingsStep ==
  /\ part = "rings" /\ Rings!Next
  /\ UNCHANGED <<part, vars, dispatchVars, outputVars, collectorVars>>
DispatchStep ==
  /\ part = "dispatch" /\ Dispatch!Next
  /\ UNCHANGED <<part, vars, historyVars, outputVars, collectorVars>>
CheckStep ==
  /\ part = "checks" /\ Next
  /\ UNCHANGED <<part, historyVars, dispatchVars, outputVars, collectorVars>>
OutputStep ==
  /\ part = "output" /\ Output!Next
  /\ UNCHANGED <<part, vars, historyVars, dispatchVars, collectorVars>>
DatabaseStep ==
  /\ part = "database" /\ Database!Next
  /\ UNCHANGED <<part, vars, historyVars, dispatchVars, outputVars>>

PathNext == RingsStep \/ DispatchStep \/ CheckStep \/ OutputStep \/ DatabaseStep

PathSpec == PathInit /\ [][PathNext]_all

-----------------------------------------------------------------------------
\* The decoder's rings of magnitudes, decisions and packed decisions show
\* every reader the last samples in order, on every back end, however blocks
\* fall on the ends of the rings and after any reset, and a rebuilt decoder
\* publishes nothing before its window comes from replayed samples alone.
HistoryExact == part = "rings" => Rings!HistoryExact

\* Whatever the order of registration and the kernel in use, every parser is
\* called once per block with exactly the positions of its preamble, in the
\* form it needs.
DispatchExact == part = "dispatch" => Dispatch!DispatchExact

\* A packet with up to MaxErrors wrong bits or decisions (two; one for IDM,
\* with fewer data bytes) is believed exactly if it is the one that was sent, and the checksum and syndrome tables compute
\* the remainders and values their codes are defined by.
PacketsBelieved == part = "checks" => ErrorsDetected /\ CodesExact

\* A message is not printed again for the next block though blocks overlap,
\* -single prints one message of each meter and, if there is a sample file,
\* stops with the last, and the samples dumped contain the packet.
OutputExact == part = "output" => Output!OutputExact

\* What flags.go says of -single, "one shot execution": the run is over once
\* it has printed what it waited for, with or without a sample file.
OneShot == part = "output" => Output!OneShot

\* No interval of a meter is stored twice or skipped although its counter
\* repeats, over restarts and failed writes, and the latest reading is
\* never kept back.
CollectedOnce == part = "database" => Database!CollectedOnce
=============================================================================
