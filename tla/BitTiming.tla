----------------------------- MODULE BitTiming -----------------------------
(***************************************************************************)
(* Config: clock and bit timing, what validate accepts of them, and the    *)
(* rates that follow.  Rates are in Hz, segments in time quanta.           *)
(***************************************************************************)
EXTENDS Registers

Clock(xtal_hz, pll, sclk_div2) == [xtal_hz |-> xtal_hz, pll |-> pll, sclk_div2 |-> sclk_div2]
MHZ40    == Clock(40000000, FALSE, FALSE)
MHZ20    == Clock(20000000, FALSE, FALSE)
MHZ4_PLL == Clock(4000000, TRUE, FALSE)

sysclk_hz(c) ==
  LET base == IF c.pll THEN c.xtal_hz * 10 ELSE c.xtal_hz
  IN  IF c.sclk_div2 THEN base \div 2 ELSE base

SysclkRange == 2000000 .. 40000000

(* A PLL input above 5 MHz is refused before SYSCLK is computed.           *)
ValidClock(c) ==
  /\ ~(c.pll /\ c.xtal_hz > 5000000)
  /\ sysclk_hz(c) \in SysclkRange

-----------------------------------------------------------------------------
Timing(brp, tseg1, tseg2, sjw) == [brp |-> brp, tseg1 |-> tseg1, tseg2 |-> tseg2, sjw |-> sjw]

tq_per_bit(t) == 1 + t.tseg1 + t.tseg2
bit_rate_hz(t, sysclk) == sysclk \div (t.brp * tq_per_bit(t))
sample_point_permille(t) == ((1 + t.tseg1) * 1000) \div tq_per_bit(t)

(* The presets: SYSCLK and rate in their names, sample point in their docs. *)
Preset(sysclk, rate, point, t) ==
  [sysclk |-> sysclk, rate |-> rate, point |-> point, timing |-> t]

NominalPresets == {
  Preset(40000000,  125000, 800, Timing(2, 127, 32, 32)),
  Preset(40000000,  250000, 800, Timing(1, 127, 32, 32)),
  Preset(40000000,  500000, 800, Timing(1, 63, 16, 16)),
  Preset(40000000, 1000000, 800, Timing(1, 31, 8, 8)),
  Preset(20000000,  125000, 800, Timing(1, 127, 32, 32)),
  Preset(20000000,  250000, 800, Timing(1, 63, 16, 16)),
  Preset(20000000,  500000, 800, Timing(1, 31, 8, 8)),
  Preset(20000000, 1000000, 800, Timing(1, 15, 4, 4)) }

DataPresets == {
  Preset(40000000, 2000000, 800, Timing(1, 15, 4, 4)),
  Preset(40000000, 5000000, 750, Timing(1, 5, 2, 2)),
  Preset(40000000, 8000000, 800, Timing(1, 3, 1, 1)),
  Preset(20000000, 1000000, 800, Timing(1, 15, 4, 4)),
  Preset(20000000, 2000000, 800, Timing(1, 7, 2, 2)),
  Preset(20000000, 4000000, 800, Timing(1, 3, 1, 1)) }

-----------------------------------------------------------------------------
JumpsWithin(t) == t.sjw <= t.tseg2 /\ t.sjw <= t.tseg1

ValidNominal(t) ==
  /\ t.brp \in 1 .. 256 /\ t.tseg1 \in 2 .. 256 /\ t.tseg2 \in 1 .. 128 /\ t.sjw \in 1 .. 128
  /\ JumpsWithin(t)

(* The offset of the secondary sample point, in SYSCLK cycles. *)
tdco_fits(t) == t.brp * t.tseg1 <= 63
tdco(t) == IF tdco_fits(t) THEN t.brp * t.tseg1 ELSE 63

(* mutant: without the check of the offset *)
ValidDataClamped(t) ==
  /\ t.brp \in 1 .. 256 /\ t.tseg1 \in 1 .. 32 /\ t.tseg2 \in 1 .. 16 /\ t.sjw \in 1 .. 16
  /\ JumpsWithin(t)

ValidData(t) ==
  /\ t.brp \in 1 .. 256 /\ t.tseg1 \in 1 .. 32 /\ t.tseg2 \in 1 .. 16 /\ t.sjw \in 1 .. 16
  /\ JumpsWithin(t) /\ tdco_fits(t)

(* data is the empty sequence for None. *)
Config(clock, nominal, data) == [clock |-> clock, nominal |-> nominal, data |-> data]

Valid(c) ==
  /\ ValidClock(c.clock) /\ ValidNominal(c.nominal)
  /\ c.data # <<>> => ValidData(c.data[1])

(* Each value of a timing field survives: the register takes it minus one  *)
(* in the bits of that field only, and the field reads back plus one.      *)
Survives(v, width, lo, bits) ==
  LET w == Shifted(MinusOne(v, width), width, lo)
  IN  w \subseteq lo .. lo + bits - 1 /\ Field(w, lo, bits) + 1 = v

ASSUME FieldsHoldTheirRange ==
  /\ \A v \in 1 .. 256 : Survives(v, 16, 24, 8) /\ Survives(v, 16, 16, 8)
  /\ \A v \in 1 .. 128 : Survives(v, 16, 8, 7) /\ Survives(v, 16, 0, 7)
  /\ \A v \in 1 .. 32 : Survives(v, 8, 16, 5)
  /\ \A v \in 1 .. 16 : Survives(v, 8, 8, 4) /\ Survives(v, 8, 0, 4)

(* Every preset is valid, and runs at the rate and sample point it names.  *)
ASSUME PresetsKeepTheirName ==
  /\ \A p \in NominalPresets : ValidNominal(p.timing)
  /\ \A p \in DataPresets : ValidData(p.timing)
  /\ \A p \in NominalPresets \cup DataPresets :
       bit_rate_hz(p.timing, p.sysclk) = p.rate /\ sample_point_permille(p.timing) = p.point
=============================================================================
