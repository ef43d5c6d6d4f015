--------------------------- MODULE DecoderDispatch --------------------------
(***************************************************************************)
(* How the packet decoder is put together and serves its parsers           *)
(* (protocol/decode.go, power16.go): parsers are registered in any order,  *)
(* Allocate chooses the representation of the magnitudes, and every block  *)
(* is searched for the preambles, which several parsers may share.  Two    *)
(* preambles may be searched together by one native kernel.                *)
(*                                                                         *)
(* The decision window of a block is an input; DecoderHistory models how   *)
(* it is kept.  A packed byte is the set of its phases that are one.       *)
(***************************************************************************)
EXTENDS Integers, Sequences, FiniteSets, SequencesExt, FiniteSetsExt

CONSTANTS
  Parsers,
  Preamble,      \* parser -> its preamble, a sequence of bits
  Takes,         \* parser -> "indices" (CandidateIndexParser), "bytes" (PacketBytesOnly) or "bits"
  HistoryOf,     \* parser -> SignalHistoryOverlap, or 0
  Power16Of,     \* parser -> "consumer" (Power16HistoryConsumer), "compatible" or "no"
  FixedIDM, FixedR900,   \* the two preambles of the dual kernel
  Byte, SymbolBytes, BlockBytes,
  Decisions      \* the packed bytes considered

DispatchAssumption ==
  /\ {Byte, SymbolBytes, BlockBytes} \subseteq Nat \ {0}
  /\ Preamble \in [Parsers -> Seq({0, 1})] /\ FixedIDM # FixedR900
  /\ HistoryOf \in [Parsers -> Nat]
  /\ Decisions \subseteq SUBSET (0 .. (Byte - 1))
  /\ \A p \in Parsers : HistoryOf[p] > 0 => HistoryOf[p] >= SymbolBytes * Byte

VARIABLES
  registered,       \* parsers in the order of RegisterProtocol
  preambles,        \* preamble -> its parsers, in order
  fixedIDM, fixedR900,   \* fixedIDMParsers, fixedR900Parsers
  preambleSymbols, overlap, compatible, consumers,
  allocated,        \* Allocate was called after the last registration
  active,           \* power16 # nil
  attached,         \* parsers with a Power16 history
  history,          \* magnitudes that can be looked back at in one window
  window,           \* the packed decision window of the last block
  calls             \* the calls of parsers by the last Decode

vars == <<registered, preambles, fixedIDM, fixedR900, preambleSymbols, overlap, compatible, consumers,
          allocated, active, attached, history, window, calls>>

Init ==
  /\ registered = <<>> /\ preambles = <<>> /\ fixedIDM = <<>> /\ fixedR900 = <<>>
  /\ preambleSymbols = 0 /\ overlap = 0 /\ compatible = TRUE /\ consumers = <<>>
  /\ allocated = FALSE /\ active = FALSE /\ attached = {} /\ history = 0
  /\ window = <<>> /\ calls = {}

-----------------------------------------------------------------------------
(* RegisterProtocol and Allocate                                           *)

\* A bug: the fixed family is cached only once.
CachedOnce(cache, fixed, key, parsers) == IF key = fixed /\ cache = <<>> THEN parsers ELSE cache

\* The parsers of a fixed preamble are cached beside the map.
Cached(cache, fixed, key, parsers) == IF key = fixed THEN parsers ELSE cache

\* A parser rules Power16 out unless it declares itself compatible and, if
\* it looks back at magnitudes, can read them as Power16.
Compatible(p) == Power16Of[p] # "no" /\ (HistoryOf[p] > 0 => Power16Of[p] = "consumer")

RegisterProtocol(p) ==
  LET key     == Preamble[p]
      parsers == (IF key \in DOMAIN preambles THEN preambles[key] ELSE <<>>) \o <<p>>
  IN  /\ p \notin Range(registered)
      /\ registered' = Append(registered, p)
      /\ preambles' = [k \in DOMAIN preambles \cup {key} |-> IF k = key THEN parsers ELSE preambles[k]]
      /\ fixedIDM' = Cached(fixedIDM, FixedIDM, key, parsers)
      /\ fixedR900' = Cached(fixedR900, FixedR900, key, parsers)
      /\ preambleSymbols' = Max({preambleSymbols, Len(key)})
      /\ overlap' = Max({overlap, HistoryOf[p]})
      /\ compatible' = (compatible /\ Compatible(p))
      /\ consumers' = IF Power16Of[p] = "consumer" THEN Append(consumers, p) ELSE consumers
      /\ allocated' = FALSE /\ window' = <<>> /\ calls' = {}
      /\ UNCHANGED <<active, attached, history>>

\* detachPower16Consumers, and attachPower16Consumers when it is chosen.
Attached(chosen) == IF chosen THEN Range(consumers) ELSE {}

\* usable: geometry, CPU, self test and kill switch allow Power16.
Allocate(usable) ==
  LET chosen == usable /\ registered # <<>> /\ compatible
  IN  /\ registered # <<>>
      /\ active' = chosen /\ attached' = Attached(chosen)
      /\ history' = IF chosen THEN Max({overlap, SymbolBytes * Byte}) ELSE overlap
      /\ allocated' = TRUE /\ window' = <<>> /\ calls' = {}
      /\ UNCHANGED <<registered, preambles, fixedIDM, fixedR900, preambleSymbols, overlap, compatible, consumers>>

-----------------------------------------------------------------------------
(* Decode                                                                  *)

Phases == 0 .. (Byte - 1)

\* The bytes of the packed window a search reads: the buffer has one symbol
\* more.
WindowBytes == BlockBytes + (preambleSymbols - 1) * SymbolBytes

\* The phases of a byte whose decision is the bit.
Matching(byte, bit) == IF bit = 1 THEN byte ELSE Phases \ byte

\* searchPackedByteAligned: the phases of byte q at which the preamble
\* begins.  Four symbols at once, the others only where these match.
Candidates(w, preamble, q) ==
  LET at(k)  == Matching(w[q + k * SymbolBytes], preamble[k + 1])
      first  == {b \in Phases : \A k \in 0 .. 3 : b \in at(k)}
      rest   == {b \in first : \A k \in 4 .. (Len(preamble) - 1) : b \in at(k)}
  IN  IF Len(preamble) < 4 THEN {b \in Phases : \A k \in 0 .. (Len(preamble) - 1) : b \in at(k)}
      ELSE IF first = {} THEN {} ELSE rest

\* Indices in the order of bytes and, within one, of phases: the first n
\* samples of the block have been searched.
SearchPacked(w, preamble) ==
  LET found[n \in 0 .. (BlockBytes * Byte)] ==
        IF n = 0 THEN <<>>
        ELSE IF (n - 1) % Byte \in Candidates(w, preamble, (n - 1) \div Byte)
        THEN Append(found[n - 1], n - 1) ELSE found[n - 1]
  IN  found[BlockBytes * Byte]

\* parseCandidates: packets are sliced once for all parsers of a preamble,
\* with their bits if one of them needs the bits.  A call is told by the
\* search it comes from (by) and the place of its parser in the list (slot).
IncludeBits(parsers) == \E i \in DOMAIN parsers : Takes[parsers[i]] = "bits"

ParseCandidates(by, indices, parsers) ==
  {[by |-> by, slot |-> i, parser |-> parsers[i], indices |-> indices,
    form |-> IF Takes[parsers[i]] = "indices" THEN "indices"
             ELSE IF IncludeBits(parsers) THEN "bits" ELSE "bytes"] : i \in DOMAIN parsers}

\* The preambles the loop of decodeQuantized searches one by one.
Loop(dualFixed) == IF dualFixed THEN DOMAIN preambles \ {FixedIDM, FixedR900} ELSE DOMAIN preambles

\* decodeQuantized.  The order of the map's loop is arbitrary; parsers of
\* different preambles do not see each other.  One block is followed, as a
\* block leaves nothing that the next one uses.
Decode(w, dual) ==
  LET dualFixed == dual /\ fixedIDM # <<>> /\ fixedR900 # <<>>
      fixed     == IF dualFixed
                   THEN ParseCandidates("dual", SearchPacked(w, FixedIDM), fixedIDM)
                        \cup ParseCandidates("dual", SearchPacked(w, FixedR900), fixedR900)
                   ELSE {}
      loop      == UNION {ParseCandidates("loop", SearchPacked(w, k), preambles[k]) : k \in Loop(dualFixed)}
  IN  /\ allocated /\ calls = {}
      /\ window' = w
      /\ calls' = IF dualFixed /\ Cardinality(DOMAIN preambles) = 2 THEN fixed
                  ELSE fixed \cup loop
      /\ UNCHANGED <<registered, preambles, fixedIDM, fixedR900, preambleSymbols, overlap, compatible,
                     consumers, allocated, active, attached, history>>

Windows == [0 .. (WindowBytes - 1) -> Decisions]

Next ==
  \/ \E p \in Parsers : RegisterProtocol(p)
  \/ \E usable \in BOOLEAN : Allocate(usable)
  \/ \E dual \in BOOLEAN : \E w \in Windows : Decode(w, dual)

Spec == Init /\ [][Next]_vars

-----------------------------------------------------------------------------
(* Properties                                                              *)

TypeOK ==
  /\ Range(registered) \subseteq Parsers /\ IsInjective(registered)
  /\ Range(consumers) \subseteq Range(registered)
  /\ attached \subseteq Range(registered) /\ {compatible, allocated, active} \subseteq BOOLEAN
  /\ \A c \in calls : c.parser \in Range(registered)

\* The decision of sample i of the window.
Decision(i) == IF i % Byte \in window[i \div Byte] THEN 1 ELSE 0

\* Positions of the block at which a preamble begins, by definition.
Occurrences(preamble) ==
  {i \in 0 .. (BlockBytes * Byte - 1) :
     \A k \in DOMAIN preamble : Decision(i + (k - 1) * SymbolBytes * Byte) = preamble[k]}

Ascending(seq) == \A i, j \in DOMAIN seq : i < j => seq[i] < seq[j]

\* Whatever the order of registration, the preambles that are shared and the
\* kernel that is used: every parser is called exactly once per block, with
\* exactly the positions of its preamble in ascending order.
ServedOnce ==
  calls # {} =>
    \A p \in Range(registered) :
      \E c \in calls :
        /\ {d \in calls : d.parser = p} = {c}
        /\ Ascending(c.indices) /\ Range(c.indices) = Occurrences(Preamble[p])

\* A parser that reads bits gets packets with bits, although they are sliced
\* once and a parser before it may not need them.
BitsWhereNeeded ==
  \A c \in calls : Takes[c.parser] = "bits" => c.form = "bits"

\* After Allocate, repeated or not, there is one representation: with
\* Power16 every parser that looks back has its history attached and can
\* ask for the window it needs; without it no parser is attached.
OneRepresentation ==
  allocated =>
    \A p \in Range(registered) :
      /\ p \in attached <=> active /\ Power16Of[p] = "consumer"
      /\ HistoryOf[p] > 0 => history >= HistoryOf[p] /\ (active => p \in attached)

\* Every parser is served, once, in the form it needs.
DispatchExact == TypeOK /\ ServedOnce /\ BitsWhereNeeded /\ OneRepresentation
=============================================================================
