--------------------------- MODULE DecoderHistory ---------------------------
(***************************************************************************)
(* The histories of the packet decoder (protocol/decode.go, power16.go):   *)
(* the magnitudes a parser looks back at, kept in blocks that repeat the   *)
(* end of the block before; the ring of filter decisions, written in two   *)
(* pieces or directly into an extended ring; the packed decisions the      *)
(* preamble search reads, packed anew or kept in a ring with a mirrored    *)
(* prefix.  Decode advances all of them by one block; Reset clears them    *)
(* before the duty runtime replays its collar.                             *)
(*                                                                         *)
(* A magnitude is the position of its sample in the stream, counted from   *)
(* one; zero is a cleared one.  The matched filter turns SymbolLength      *)
(* magnitudes into one decision, which is the position of the first if     *)
(* they are consecutive samples and Cold otherwise.                        *)
(***************************************************************************)
EXTENDS Integers

CONSTANTS
  Geometries,  \* [chip, preamble, packet, overlap]: lengths of chip and overlap in
               \* samples (SignalHistoryOverlap, or 0), of the rest in symbols
  Backends,    \* subset of {"float", "power16", "packed"}
  Byte,        \* bits in a byte
  MaxBlocks    \* bound on the blocks of the stream (model only)

VARIABLES
  cfg, backend,         \* the registered parsers' geometry and the allocated backend
  signal, block,        \* signalBacking or power16.backing, and its current block
  quantized, start,     \* quantizedBacking, quantizedStart
  packed, packedStart,  \* power16.packedBacking, packedStart
  next,                 \* the next block of the stream
  origin,               \* position of the last sample before the last reset (history)
  rebuilt, replayed,    \* a collar is being or was replayed; its blocks so far
  published             \* messages of the last block were published

vars == <<cfg, backend, signal, block, quantized, start, packed, packedStart, next, origin,
          rebuilt, replayed, published>>

Cold == 0

-----------------------------------------------------------------------------
(* Allocate                                                                *)

NextPowerOf2(n) == CHOOSE p \in {2 ^ k : k \in 0 .. n} : p >= n /\ p < 2 * n

\* Lengths are positive, symbols and blocks are whole bytes, a history covers a
\* symbol and at most the preamble, and a block is a power of two that holds one.
HistoryAssumption ==
  /\ Byte \in Nat \ {0} /\ MaxBlocks \in Nat /\ Backends \subseteq {"float", "power16", "packed"}
  /\ \A g \in Geometries :
       LET symbol   == 2 * g.chip
           preamble == g.preamble * symbol
       IN  /\ g.chip \in Nat \ {0} /\ g.packet \in Nat /\ g.preamble \in 1 .. g.packet
           /\ g.overlap = 0 \/ g.overlap \in symbol .. preamble
           /\ NextPowerOf2(preamble) \in Nat /\ NextPowerOf2(preamble) >= preamble
           /\ symbol % Byte = 0 /\ NextPowerOf2(preamble) % Byte = 0

SymbolLength   == 2 * cfg.chip
PreambleLength == cfg.preamble * SymbolLength
PacketLength   == cfg.packet * SymbolLength
BlockSize      == NextPowerOf2(PreambleLength)
BufferLength   == PacketLength + BlockSize

\* The float backend keeps a history only for a parser that asks for one.
Overlap == IF backend = "float" \/ cfg.overlap >= SymbolLength THEN cfg.overlap ELSE SymbolLength
Short   == Overlap = 0

Stride     == BlockSize + Overlap
BlockCount == (BufferLength + BlockSize - 1) \div BlockSize
Gap        == BlockCount * BlockSize - BufferLength

PackedLength == BufferLength \div Byte
Lookahead    == (BlockSize + PreambleLength) \div Byte
BlockBytes   == BlockSize \div Byte

\* Cleared buffers, as Allocate and Reset leave them.
Cleared ==
  [signal    |-> [i \in 0 .. ((IF Short THEN BlockSize + SymbolLength ELSE BlockCount * Stride) - 1) |-> 0],
   quantized |-> [i \in 0 .. (BufferLength + (IF backend = "packed" THEN BlockSize ELSE 0) - 1) |-> Cold],
   packed    |-> [i \in 0 .. (PackedLength + Lookahead - 1) |-> [b \in 0 .. (Byte - 1) |-> Cold]]]

\* Reset.
Reset ==
  /\ signal' = Cleared.signal /\ quantized' = Cleared.quantized /\ packed' = Cleared.packed
  /\ start' = 0 /\ packedStart' = 0 /\ block' = BlockCount - 1

Init ==
  /\ cfg \in Geometries /\ backend \in Backends
  /\ signal = Cleared.signal /\ quantized = Cleared.quantized /\ packed = Cleared.packed
  /\ start = 0 /\ packedStart = 0 /\ block = BlockCount - 1
  /\ next = 0 /\ origin = 0 /\ rebuilt = FALSE /\ replayed = 0 /\ published = FALSE

-----------------------------------------------------------------------------
(* Decode                                                                  *)

\* An index that has left a ring comes back once.
Wrapped(i, length) == IF i >= length THEN i - length ELSE i

\* The block's magnitudes, from Demodulator.Execute.
Input == [i \in 0 .. (BlockSize - 1) |-> next * BlockSize + i + 1]

NextBlock == IF block + 1 = BlockCount THEN 0 ELSE block + 1

\* appendSignal, and the same in appendPower16AndFilter: the block follows
\* a copy of the end of the block before.
AppendSignal ==
  LET previous == block * Stride
      current  == NextBlock * Stride
  IN  [i \in DOMAIN signal |->
         CASE Short /\ i < SymbolLength -> signal[i + BlockSize]
           [] Short /\ i >= SymbolLength -> Input[i - SymbolLength]
           [] ~Short /\ i \in current .. (current + Overlap - 1) -> signal[previous + BlockSize + i - current]
           [] ~Short /\ i \in (current + Overlap) .. (current + Stride - 1) -> Input[i - current - Overlap]
           [] OTHER -> signal[i]]

\* Filter over the block and the SymbolLength magnitudes before it.
Filter(magnitudes) ==
  LET first == IF Short THEN 0 ELSE NextBlock * Stride + Overlap - SymbolLength
      at(i) == magnitudes[first + i]
  IN  [i \in 0 .. (BlockSize - 1) |->
         IF at(i) > 0 /\ \A k \in 1 .. (SymbolLength - 1) : at(i + k) = at(i) + k THEN at(i) ELSE Cold]

NextStart == Wrapped(start + BlockSize, BufferLength)
Tail      == Wrapped(NextStart + PacketLength, BufferLength)

\* appendQuantized: up to the end of the ring, the rest at its beginning.
AppendQuantized(decisions) ==
  LET room  == BufferLength - Tail
      first == IF room < BlockSize THEN room ELSE BlockSize
  IN  [i \in DOMAIN quantized |->
         CASE i \in Tail .. (Tail + first - 1) -> decisions[i - Tail]
           [] i < BlockSize - first -> decisions[first + i]
           [] OTHER -> quantized[i]]

\* nextQuantizedOutput and commitQuantizedOutput: the block is written in
\* one piece, what went past the ring is copied to its beginning.
WriteQuantized(decisions) ==
  LET direct   == [i \in DOMAIN quantized |->
                     IF i \in Tail .. (Tail + BlockSize - 1) THEN decisions[i - Tail] ELSE quantized[i]]
      overflow == Tail + BlockSize - BufferLength
  IN  [i \in DOMAIN quantized |-> IF i < overflow THEN direct[BufferLength + i] ELSE direct[i]]

PackedNext == Wrapped(packedStart + BlockBytes, PackedLength)
PackedTail == Wrapped(PackedNext + PacketLength \div Byte, PackedLength)

\* Packed decisions: byte i of a block.
Pack(decisions, i) == [b \in 0 .. (Byte - 1) |-> decisions[i * Byte + b]]

\* A bug: the mirror is not refreshed.
WritePackedUnmirrored(decisions) ==
  LET end    == PackedTail + BlockBytes
      direct == [i \in DOMAIN packed |->
                   IF i \in PackedTail .. (end - 1) THEN Pack(decisions, i - PackedTail) ELSE packed[i]]
  IN  [i \in DOMAIN packed |-> IF i < end - PackedLength THEN direct[PackedLength + i] ELSE direct[i]]

\* nextPackedOutput and commitPackedOutput: like the decisions, and the
\* part of the prefix that was written is repeated behind the ring.
WritePacked(decisions) ==
  LET end    == PackedTail + BlockBytes
      direct == [i \in DOMAIN packed |->
                   IF i \in PackedTail .. (end - 1) THEN Pack(decisions, i - PackedTail) ELSE packed[i]]
      prefix == [i \in DOMAIN packed |->
                   IF i < end - PackedLength THEN direct[PackedLength + i] ELSE direct[i]]
      inRing == IF end > PackedLength THEN PackedLength ELSE end
      mirror == IF inRing > Lookahead THEN Lookahead ELSE inRing
  IN  [i \in DOMAIN packed |->
         IF i - PackedLength \in PackedTail .. (mirror - 1) THEN prefix[i - PackedLength] ELSE prefix[i]]

\* rebuildDutyDecoder publishes a replayed block only after warmupBlocks.
Publishes == rebuilt => replayed >= BlockCount

Decode ==
  LET decisions == Filter(AppendSignal) IN
  /\ next < MaxBlocks
  /\ signal' = AppendSignal
  /\ block' = IF Short THEN block ELSE NextBlock
  /\ start' = NextStart
  /\ IF backend = "packed"
     THEN /\ quantized' = WriteQuantized(decisions)
          /\ packed' = WritePacked(decisions) /\ packedStart' = PackedNext
     ELSE quantized' = AppendQuantized(decisions) /\ UNCHANGED <<packed, packedStart>>
  /\ next' = next + 1
  /\ published' = Publishes /\ replayed' = IF rebuilt THEN replayed + 1 ELSE 0
  /\ UNCHANGED <<cfg, backend, origin, rebuilt>>

\* rebuildDutyDecoder resets the decoder and replays the collar, whose
\* first block may have been decoded before or not.
Rebuild(from) ==
  /\ Reset
  /\ next' = from /\ origin' = from * BlockSize
  /\ rebuilt' = TRUE /\ replayed' = 0 /\ published' = FALSE
  /\ UNCHANGED <<cfg, backend>>

Next == Decode \/ \E from \in 0 .. MaxBlocks : Rebuild(from)

Spec == Init /\ [][Next]_vars

-----------------------------------------------------------------------------
(* What the search and the parsers read                                    *)

QuantizedAt(i) == quantized[Wrapped(start + i, BufferLength)]

\* packQuantizedRing, in two pieces when the window wraps.
PackRing(i) ==
  LET needed == (BlockSize + PreambleLength + Byte - 1) \div Byte
      before == BufferLength - start
      first  == before \div Byte
      from   == IF needed * Byte <= before \/ i < first THEN start + i * Byte ELSE (i - first) * Byte
  IN  [b \in 0 .. (Byte - 1) |-> quantized[from + b]]

SearchByte(i) == IF backend = "packed" THEN packed[packedStart + i] ELSE PackRing(i)

\* slice: the decisions of a packet, one symbol apart around the ring.
SliceWalk(candidate) ==
  LET at[k \in 0 .. (cfg.packet - 1)] ==
        IF k = 0 THEN Wrapped(start + candidate, BufferLength)
        ELSE Wrapped(at[k - 1] + SymbolLength, BufferLength)
  IN  [k \in 0 .. (cfg.packet - 1) |-> quantized[at[k]]]

\* SignalWindow and Power16Window: a window across the end of a block is
\* read from the overlap of the next.
WindowStart(i, length) ==
  LET physical == Gap + i
      offset   == physical % BlockSize
      b        == Wrapped(block + 1 + physical \div BlockSize, BlockCount)
      after    == IF b + 1 = BlockCount THEN 0 ELSE b + 1
  IN  IF offset + length > BlockSize
      THEN after * Stride + Overlap - (BlockSize - offset)
      ELSE b * Stride + Overlap + offset

\* r900: where the payload of a candidate begins in the magnitudes.
PayloadIdx(candidate) == candidate + PreambleLength - SymbolLength

-----------------------------------------------------------------------------
(* Properties                                                              *)

TypeOK ==
  /\ start \in 0 .. (BufferLength - 1) /\ block \in 0 .. (BlockCount - 1)
  /\ packedStart \in 0 .. (PackedLength - 1) /\ next \in 0 .. MaxBlocks
  /\ \A i \in DOMAIN signal : signal[i] \in Nat
  /\ \A i \in DOMAIN quantized : quantized[i] \in Nat

End == next * BlockSize
Fresh(position) == IF position > origin THEN position ELSE Cold

\* The sample position the decision at index i of the window starts at.
DecisionStart(i) == End - SymbolLength - BufferLength + 1 + i

\* The decision ring holds the last BufferLength decisions in order, and no
\* decision mixes samples from before a reset with later ones, however
\* blocks fall on the ends of ring and extension (appendQuantized,
\* commitQuantizedOutput).
DecisionsExact == \A i \in 0 .. (BufferLength - 1) : QuantizedAt(i) = Fresh(DecisionStart(i))

\* The bytes the preamble search reads are the packed decisions of the same
\* window, for every position of the packed ring and its mirror.
PackedExact ==
  \A i \in 0 .. (Lookahead - 1), b \in 0 .. (Byte - 1) : SearchByte(i)[b] = QuantizedAt(i * Byte + b)

\* The packet sliced for a candidate consists of decisions exactly one
\* symbol apart, all of them inside the window.
PacketsExact ==
  \A candidate \in 0 .. (BlockSize - 1), k \in 0 .. (cfg.packet - 1) :
    SliceWalk(candidate)[k] = Fresh(DecisionStart(candidate) + k * SymbolLength)

\* Every window a parser may ask for is contiguous in the magnitudes and
\* lies where its index says, across block boundaries and the ring's end.
WindowsContiguous ==
  ~Short =>
    \A length \in 1 .. Overlap : \A i \in 0 .. (BufferLength - length), k \in 0 .. (length - 1) :
      signal[WindowStart(i, length) + k] = Fresh(End - BufferLength + 1 + i + k)

\* Index arithmetic between the two histories: R900's payload index names
\* the magnitude that follows the preamble found in the decisions.
PayloadFollowsPreamble ==
  ~Short =>
    \A candidate \in 0 .. (BlockSize - 1) :
      QuantizedAt(candidate) # Cold =>
        signal[WindowStart(PayloadIdx(candidate), 1)] = QuantizedAt(candidate) + PreambleLength

\* After a rebuild nothing is published before every decision of the window
\* comes from replayed samples: warmupBlocks covers the filter's history too.
WarmBeforePublish ==
  rebuilt /\ published => \A i \in 0 .. (BufferLength - 1) : QuantizedAt(i) = DecisionStart(i)

\* What search, slicer and parsers read is what was received.
HistoryExact ==
  /\ TypeOK /\ DecisionsExact /\ PackedExact /\ PacketsExact /\ WindowsContiguous
  /\ PayloadFollowsPreamble /\ WarmBeforePublish
=============================================================================
