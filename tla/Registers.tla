----------------------------- MODULE Registers -----------------------------
(***************************************************************************)
(* Register words and their addresses.  A word is the set of its bits that *)
(* are 1; the getters and setters of the code are membership, With, Field  *)
(* and WithField at the positions named here.                              *)
(***************************************************************************)
EXTENDS Integers, FiniteSets, FiniteSetsExt

Bits(v, width) == {i \in 0 .. width - 1 : (v \div 2 ^ i) % 2 = 1}
Shifted(v, width, lo) == {lo + i : i \in Bits(v, width)} \cap (0 .. 31)

Field(word, lo, width) ==
  MapThenSumSet(LAMBDA b : 2 ^ (b - lo), word \cap (lo .. lo + width - 1))
With(word, bit, v) == IF v THEN word \cup {bit} ELSE word \ {bit}
WithField(word, lo, width, v) == (word \ (lo .. lo + width - 1)) \cup Shifted(v, width, lo)

-----------------------------------------------------------------------------
(* Addresses *)

fifo_con(f)     == 92 + 12 * (f - 1)       \* 0x05C
fifo_sta(f)     == fifo_con(f) + 4
fifo_ua(f)      == fifo_con(f) + 8
flt_con_byte(k) == 464 + k                 \* 0x1D0
flt_obj(k)      == 496 + 8 * k             \* 0x1F0
flt_mask(k)     == flt_obj(k) + 4

RAM_START == 1024                          \* 0x400
RAM_SIZE  == 2048

(* No two registers of FIFOs and filters share a byte, with each other or  *)
(* with C1CON .. C1TREC (0x000 .. 0x037), and all lie below the RAM.       *)
ASSUME RegistersApart ==
  LET word(a) == a .. a + 3
      bytes == UNION ({word(fifo_con(f)) : f \in 1 .. 31} \cup {word(fifo_sta(f)) : f \in 1 .. 31}
                \cup {word(fifo_ua(f)) : f \in 1 .. 31} \cup {{flt_con_byte(k)} : k \in 0 .. 31}
                \cup {word(flt_obj(k)) : k \in 0 .. 31} \cup {word(flt_mask(k)) : k \in 0 .. 31})
  IN  bytes \subseteq 56 .. RAM_START - 1 /\ Cardinality(bytes) = 31 * 12 + 32 * 9

-----------------------------------------------------------------------------
(* OSC *)
PLLEN == 0
LPMEN == 3
SCLKDIV == 4
CLKODIV == 5         \* and 6

(* CiCON *)
ISOCRCEN == 5
BRSDIS == 12

(* CiTDC: mode and offset, two's complement in seven bits *)
TdcMode == [Disabled |-> 0, Manual |-> 1, Auto |-> 2]
with_mode(word, mode) == WithField(word, 16, 2, TdcMode[mode])
with_tdco(word, tdco) == WithField(word, 8, 7, tdco % 128)
EDGFLTEN == 25

(* CiNBTCFG and CiDBTCFG hold value - 1, in the width of the argument.      *)
MinusOne(v, width) == (v - 1) % 2 ^ width
NbtCfg(t) == Shifted(MinusOne(t.brp, 16), 16, 24) \cup Shifted(MinusOne(t.tseg1, 16), 16, 16)
        \cup Shifted(MinusOne(t.tseg2, 16), 16, 8) \cup Shifted(MinusOne(t.sjw, 16), 16, 0)
DbtCfg(t) == Shifted(MinusOne(t.brp, 16), 16, 24) \cup Shifted(MinusOne(t.tseg1, 8), 8, 16)
        \cup Shifted(MinusOne(t.tseg2, 8), 8, 8) \cup Shifted(MinusOne(t.sjw, 8), 8, 0)

(* CiFIFOCON *)
TFNRFNIE == 0
RXOVIE == 3
TXEN == 7
FRESET == 10
PayloadBytes == <<8, 12, 16, 20, 24, 32, 48, 64>>      \* by PLSIZE code, from 0
plsize_code(payload) == (CHOOSE i \in DOMAIN PayloadBytes : PayloadBytes[i] = payload) - 1
with_payload_size(word, payload) == WithField(word, 29, 3, plsize_code(payload))
with_fifo_size(word, depth) == WithField(word, 24, 5, MinusOne(depth, 8))
=============================================================================
