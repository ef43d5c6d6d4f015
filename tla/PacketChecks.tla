---------------------------- MODULE PacketChecks ----------------------------
(***************************************************************************)
(* The arithmetic that decides whether a packet is believed: the table     *)
(* driven CRC (crc/crc.go), the field GF(32) and the Reed-Solomon syndrome *)
(* (r900/gf/gf.go), and the checks the parsers of SCM, SCM+, IDM, NetIDM   *)
(* and R900 make with them, at the sizes and with the parameters of the    *)
(* code.  A packet is sent, and some of its bits or decisions are received *)
(* wrongly.                                                                *)
(*                                                                         *)
(* A word of bits is the set of the positions that are one, 0 the lowest:  *)
(* exclusive or is the symmetric difference.                               *)
(***************************************************************************)
EXTENDS Integers, Sequences, FiniteSets, FiniteSetsExt, SequencesExt

CONSTANTS
  Sent,       \* code -> the packet on the air: bytes, or R900's six-valued decisions
  MaxErrors   \* code -> how many bits or decisions may be wrong

ASSUME ChecksAssumption == DOMAIN Sent = DOMAIN MaxErrors

Codes == DOMAIN Sent

VARIABLES
  code,    \* the protocol of the packet
  word,    \* the packet as received
  errors   \* how often it was disturbed

vars == <<code, word, errors>>

Byte == 0 .. 7
Bit16 == 0 .. 15
Shl(x, n, bits) == {b + n : b \in x} \cap bits
Shr(x, n) == {b - n : b \in {c \in x : c >= n}}

-----------------------------------------------------------------------------
(* crc/crc.go                                                              *)

\* Init 0xFFFF, Poly 0x1021, Residue 0x1D0F; for SCM 0, 0x6F63 and 0.
CCITT == [init |-> Bit16, poly |-> {0, 5, 12}, residue |-> {0, 1, 2, 3, 8, 10, 11, 12}]
BCH   == [init |-> {}, poly |-> {0, 1, 5, 6, 8, 9, 10, 11, 13, 14}, residue |-> {}]

TableStep(crc, poly) ==
  IF 15 \in crc THEN SymDiff(Shl(crc, 1, Bit16), poly) ELSE Shl(crc, 1, Bit16)

NewTable(poly) ==
  [t \in SUBSET Byte |->
     LET crc[n \in 0 .. 8] == IF n = 0 THEN Shl(t, 8, Bit16) ELSE TableStep(crc[n - 1], poly)
     IN  crc[8]]

CCITTTable == NewTable(CCITT.poly)
BCHTable == NewTable(BCH.poly)
TableOf(kind) == IF kind = CCITT THEN CCITTTable ELSE BCHTable

\* One byte of Checksum.
Absorb(crc, v, kind) == SymDiff(Shl(crc, 8, Bit16), TableOf(kind)[SymDiff(Shr(crc, 8), v)])

Checksum(kind, data) ==
  LET crc[n \in 0 .. Len(data)] == IF n = 0 THEN kind.init ELSE Absorb(crc[n - 1], data[n], kind)
  IN  crc[Len(data)]

-----------------------------------------------------------------------------
(* r900/gf/gf.go                                                           *)

Order == 31
Element == SUBSET (0 .. 4)
FieldPoly == {0, 2, 5}

Double(y) == IF 4 \in y THEN SymDiff(Shl(y, 1, 0 .. 5), FieldPoly) ELSE Shl(y, 1, 0 .. 5)

\* mul: y, doubled as often as the position of each bit of x, added up.
Multiply(x, y) ==
  LET doubled[k \in 0 .. 4] == IF k = 0 THEN y ELSE Double(doubled[k - 1])
  IN  {b \in 0 .. 4 : Cardinality({k \in x : b \in doubled[k]}) % 2 = 1}

Alpha == {1}

\* The exponents, twice, and the logarithms.
FieldExp ==
  FoldLeft(LAMBDA exp, i : Append(exp, IF i = 1 THEN {0} ELSE Multiply(exp[i - 1], Alpha)),
                 <<>>, [i \in 1 .. (2 * Order) |-> i])

FieldLog == [e \in Element \ {{}} |-> CHOOSE i \in 0 .. (Order - 1) : FieldExp[i + 1] = e]

Exp(e) == FieldExp[(e % Order) + 1]

Mul(x, y) == IF x = {} \/ y = {} THEN {} ELSE FieldExp[FieldLog[x] + FieldLog[y] + 1]

ParitySymbols == 5
Offset == 29

Syndrome(message) ==
  [j \in 0 .. (ParitySymbols - 1) |->
     LET syn[n \in DOMAIN message] ==
           IF n = 1 THEN message[1] ELSE SymDiff(Mul(syn[n - 1], Exp(Offset + j)), message[n])
     IN  syn[Len(message)]]

-----------------------------------------------------------------------------
(* The parsers                                                             *)

Bytes(from, to) == SubSeq(word, from + 1, to)   \* word[from:to]

\* Bytes[9:13] and Bytes[88:90], counted from the end: the packet modelled
\* may have fewer than IDM's 53 bytes of intervals.
SerialBytes == Bytes(9, 13) \o Bytes(Len(word) - 4, Len(word) - 2)

\* The bits of the meter id.
IdZero ==
  CASE code = "scm" -> word[3] \cap {1, 2} = {} /\ \A i \in 8 .. 10 : word[i] = {}
    [] code = "scm+" -> \A i \in 5 .. 8 : word[i] = {}
    [] OTHER -> \A i \in 10 .. 13 : word[i] = {}

AcceptSCM == Checksum(BCH, Bytes(2, 12)) = BCH.residue /\ ~ IdZero

ProtocolID == {1, 2, 3, 4}   \* 0x1E
AcceptSCMPlus == Checksum(CCITT, Bytes(2, 16)) = CCITT.residue /\ ~ IdZero /\ word[3] = ProtocolID

\* IDM and NetIDM: a packet checksum and one of the serial number.
AcceptIDM ==
  /\ Checksum(CCITT, Bytes(4, Len(word))) = CCITT.residue
  /\ Checksum(CCITT, SerialBytes) = CCITT.residue
  /\ ~ IdZero

\* Two decisions are one symbol; some pairs are no symbol.
Symbol(i) == word[2 * i - 1] * 6 + word[2 * i]
BadSymbol == \E i \in 1 .. 21 : Symbol(i) > 31
Binary(n) == {b \in 0 .. 4 : (n \div 2 ^ b) % 2 = 1}

\* rsBuf: sixteen data symbols, ten zeros, five parity symbols.
RsBuf ==
  LET symbols == [i \in 1 .. 21 |-> Binary(Symbol(i))]
  IN  SubSeq(symbols, 1, 16) \o [i \in 1 .. 10 |-> {}] \o SubSeq(symbols, 17, 21)

\* A bug: only the first syndrome decides.
AcceptR900First == ~ BadSymbol /\ Syndrome(RsBuf)[0] = {}

AcceptR900 == ~ BadSymbol /\ \A j \in 0 .. (ParitySymbols - 1) : Syndrome(RsBuf)[j] = {}

Accepted ==
  CASE code = "scm"  -> AcceptSCM
    [] code = "scm+" -> AcceptSCMPlus
    [] code = "r900" -> AcceptR900
    [] OTHER         -> AcceptIDM

-----------------------------------------------------------------------------
(* Reception                                                               *)

\* The first bytes are the preamble, which the search has found.
Covered(c) == (IF c = "r900" THEN 1 ELSE IF c \in {"scm", "scm+"} THEN 3 ELSE 5) .. Len(Sent[c])

Init == \E c \in Codes : code = c /\ word = Sent[c] /\ errors = 0

Disturb(i, value) ==
  /\ errors < MaxErrors[code] /\ errors' = errors + 1
  /\ word' = [word EXCEPT ![i] = value] /\ UNCHANGED code

FlipBit(i, b) == code # "r900" /\ Disturb(i, SymDiff(word[i], {b}))
Misread(i, d) == code = "r900" /\ Disturb(i, d)

Next ==
  \E i \in Covered(code) : \/ \E b \in Byte : FlipBit(i, b)
                           \/ \E d \in 0 .. 5 : Misread(i, d)

Spec == Init /\ [][Next]_vars

-----------------------------------------------------------------------------
(* Properties                                                              *)

\* The checksum of what follows the preamble.
PacketChecksum ==
  IF code = "scm" THEN Checksum(BCH, Bytes(2, 12)) ELSE Checksum(CCITT, Bytes(2, Len(word)))

\* A checksum is a uint16, and a symbol fits in five bits.
TypeOK ==
  /\ code \in Codes /\ errors \in 0 .. MaxErrors[code] /\ Len(word) = Len(Sent[code])
  /\ \A i \in DOMAIN word : IF code = "r900" THEN word[i] \in 0 .. 5 ELSE word[i] \subseteq Byte
  /\ code \in {"scm", "scm+"} => PacketChecksum \subseteq Bit16
  /\ code = "r900" /\ ~ BadSymbol => \A j \in 0 .. (ParitySymbols - 1) : Syndrome(RsBuf)[j] \in Element

\* A packet is believed exactly if it is the one that was sent, as long as at
\* most MaxErrors bits, or R900 decisions, were received wrongly.
ErrorsDetected == Accepted <=> word = Sent[code]

\* Remainder of a polynomial over GF(2), from the highest of its terms down.
Remainder(poly, generator, top, degree) ==
  LET r[n \in degree .. (top + 1)] ==
        IF n = top + 1 THEN poly
        ELSE LET rest == r[n + 1]
             IN  IF n \in rest THEN SymDiff(rest, {n - degree + e : e \in generator}) ELSE rest
  IN  r[degree]

\* The bytes as one polynomial, the first byte highest.
Polynomial(data) == UNION {{b + 8 * (Len(data) - i) : b \in data[i]} : i \in DOMAIN data}

\* The table driven checksum of a packet is the remainder of its division by
\* the generator, the initial value added to its first sixteen bits.
ChecksumIsRemainder ==
  code \in {"scm", "scm+"} =>
    LET kind == IF code = "scm" THEN BCH ELSE CCITT
        data == Bytes(2, Len(word))
        top  == 8 * Len(data) + 15
        dividend == SymDiff({b + 16 : b \in Polynomial(data)}, {b + 8 * Len(data) : b \in kind.init})
    IN  PacketChecksum = Remainder(dividend, kind.poly \cup {16}, top, 16)

\* The value of the received polynomial at alpha to the power of n, without
\* the tables: alpha is x, so its powers are terms (the 31st is one again),
\* which cancel in pairs and are reduced at the end.
Value(n) ==
  LET message  == RsBuf
      shift(i) == (n * (31 - i)) % 31
      odd(e)   == Cardinality({i \in 1 .. 31 : e - shift(i) \in message[i]}) % 2 = 1
  IN  Remainder({e \in 0 .. 34 : odd(e)}, FieldPoly, 34, 5)

\* The syndromes are the values of the received polynomial at five
\* consecutive powers of alpha, beginning with the 29th and passing the end
\* of the exponent table.
SyndromeIsValue ==
  code = "r900" /\ ~ BadSymbol =>
    \A j \in 0 .. (ParitySymbols - 1) : Syndrome(RsBuf)[j] = Value(Offset + j)
\* The tables compute what the codes are defined by.
CodesExact == TypeOK /\ ChecksumIsRemainder /\ SyndromeIsValue
=============================================================================
