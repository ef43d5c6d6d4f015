--------------------------- MODULE MCMessagePath ----------------------------
EXTENDS MessagePath

-----------------------------------------------------------------------------
(* DecoderHistory                                                          *)

G(c, p, q, o) == [chip |-> c, preamble |-> p, packet |-> q, overlap |-> o]

\* Packets shorter than, equal to, longer than a block and a multiple of it;
\* preambles that fill a block and that do not; with and without a history.
MCGeometries ==
  {G(1, 2, 3, 4), G(1, 2, 4, 4), G(1, 2, 2, 0), G(1, 3, 3, 3), G(1, 3, 5, 0), G(2, 1, 3, 4)}

-----------------------------------------------------------------------------
(* DecoderDispatch                                                         *)

MCFixedIDM  == <<0, 1, 0, 1, 1>>
MCFixedR900 == <<0, 0, 1, 0>>
MCShort     == <<1, 0>>

\* IDM and NetIDM share a preamble, as do two parsers of which only one
\* needs bits; the plain parser reads magnitudes itself.
MCParsers == {"idm", "netidm", "r900", "scm"}
MCPreamble == [p \in MCParsers |->
                 CASE p \in {"idm", "netidm"} -> MCFixedIDM [] p = "r900" -> MCFixedR900 [] OTHER -> MCShort]
MCTakes == [p \in MCParsers |-> CASE p = "idm" -> "bytes" [] p = "r900" -> "indices" [] OTHER -> "bits"]
MCHistory == [p \in MCParsers |-> IF p = "r900" THEN 3 ELSE IF p = "scm" THEN 2 ELSE 0]
MCPower16 == [p \in MCParsers |-> IF p = "r900" THEN "consumer" ELSE "compatible"]

\* Both phases, one of them, or none.
MCDecisions == {{}, {0}, {0, 1}}

-----------------------------------------------------------------------------
(* MessageOutput                                                           *)

CONSTANT Wanted

\* -single with and without -filterid and -samplefile, -unique, and both
\* filters without a sample file.
Line(filter, unique, single, samples) ==
  [filter |-> filter, unique |-> unique, single |-> single, samples |-> samples]
MCCommandLines ==
  {Line(Wanted, FALSE, TRUE, TRUE), Line({}, FALSE, TRUE, TRUE), Line({}, TRUE, FALSE, TRUE),
   Line(Wanted, TRUE, FALSE, FALSE), Line(Wanted, FALSE, TRUE, FALSE), Line({}, FALSE, TRUE, FALSE)}

\* Without -unique only whose message it is matters; with it two meters are
\* heard, for a shorter time, as is a -single run that nothing ends.
MCAir == [f \in MCCommandLines |->
            IF f.unique THEN [meter : Wanted, sum : Sums]
            ELSE [meter : Meters, sum : {CHOOSE sum \in Sums : TRUE}]]
MCOutputBlocks == [f \in MCCommandLines |->
                     IF f.unique THEN IF f.samples THEN 4 ELSE 3 ELSE IF f.samples THEN 6 ELSE 4]

-----------------------------------------------------------------------------
(* PacketChecks                                                            *)

\* A byte, or a checksum's two bytes, from a number.
Bits(n) == {b \in Byte : (n \div 2 ^ b) % 2 = 1}
TwoBytes(crc) == <<Shr(crc, 8), crc \cap Byte>>

\* The sender of a CCITT packet transmits the complement.
Complement(crc) == Bit16 \ crc

\* Packets of the length each protocol has, with some content; of IDM's
\* bytes between the serial number and its checksum there are 19, not 75.
Content(n, first) == [i \in 1 .. n |-> Bits((37 * i + first) % 256)]

MCSCM ==
  LET body == Content(8, 5) IN <<Bits(249), Bits(83)>> \o body \o TwoBytes(Checksum(BCH, body))

MCSCMPlus ==
  LET body == <<Bits(30)>> \o Content(11, 9)
  IN  <<Bits(22), Bits(163)>> \o body \o TwoBytes(Complement(Checksum(CCITT, body)))

MCIDM ==
  LET head   == Content(5, 1)
      serial == Content(4, 200)
      body   == head \o serial \o Content(19, 17) \o TwoBytes(Complement(Checksum(CCITT, serial)))
  IN  <<Bits(85), Bits(85), Bits(22), Bits(163)>> \o body \o TwoBytes(Complement(Checksum(CCITT, body)))

\* Sixteen symbols and their parity, each as two decisions.
MCSymbols == <<3, 17, 0, 9, 30, 4, 25, 1, 12, 8, 31, 2, 19, 6, 0, 21, 13, 26, 17, 12, 10>>
MCR900 == [i \in 1 .. 42 |-> LET s == MCSymbols[(i + 1) \div 2] IN IF i % 2 = 1 THEN s \div 6 ELSE s % 6]

MCCodes == {"scm", "scm+", "idm", "r900"}
MCSent == [c \in MCCodes |->
             CASE c = "scm" -> MCSCM [] c = "scm+" -> MCSCMPlus [] c = "idm" -> MCIDM [] OTHER -> MCR900]
MCMaxErrors == [c \in MCCodes |-> IF c = "idm" THEN 1 ELSE 2]
=============================================================================
