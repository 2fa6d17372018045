--------------------------- MODULE BringUpProofs ---------------------------
(***************************************************************************)
(* Theorems about BringUp, for every set of configurations, every number   *)
(* of RAM blocks and polls, and every chip init may find.  The invariant   *)
(* says of each program point what the transactions before it have         *)
(* settled, and that nothing the chip does in its own time unsettles it.   *)
(***************************************************************************)
EXTENDS BringUp, TLAPS

Words == SUBSET (0 .. 31)
Modes == WarmModes \cup {"Configuration"}

ChipType ==
  [mode : Modes, pend : {"none", "Configuration"}, stale : BOOLEAN, used : SUBSET (1 .. Blocks),
   osc : Words, oscReady : BOOLEAN, pllReady : BOOLEAN,
   nbtcfg : Words, dbtcfg : Words, tdc : Words, con : Words, ints : BOOLEAN]
OpType ==
  [left : Int, block : 1 .. Blocks + 1, found : {"none", "Mcp2517Fd", "Mcp2518Fd"}]

(* The program points from one on, to the return of Ok. *)
FromInt     == {"int"}
FromPoll    == {"mode_poll"} \cup FromInt
FromCon     == {"con"} \cup FromPoll
FromTdc     == {"tdc"} \cup FromCon
FromDbt     == {"dbtcfg"} \cup FromTdc
FromNbt     == {"nbtcfg"} \cup FromDbt
FromZero    == {"zero"} \cup FromNbt
FromBack    == {"osc_back"} \cup FromZero
FromLpmen   == {"lpmen", "variant"} \cup FromBack
FromOscPoll == {"osc_poll"} \cup FromLpmen

Done == pc = "idle" /\ ret = "Ok"
Since(points) == pc \in points \/ Done

BringType ==
  /\ pc \in Writes \cup Reads \cup {"idle"} /\ op \in OpType
  /\ config \in Configs /\ chip \in ChipType /\ variant \in Variants
  /\ pc # "idle" => ret = "none"
  /\ pc # "idle" \/ Done => Valid(config)

(* Only a chip whose RESET was ignored leaves Configuration mode. *)
ResetOk == ~chip.stale => chip.mode = "Configuration"

OscInv ==
  /\ Since(FromOscPoll) => /\ 0 \in chip.osc <=> config.clock.pll
                           /\ 4 \in chip.osc <=> config.clock.sclk_div2
  /\ Since(FromLpmen) => chip.oscReady /\ (config.clock.pll => chip.pllReady)
  /\ Since(FromZero) => 3 \notin chip.osc

(* The variant is known from the probe on, the mask right from zero on.    *)
VariantInv ==
  /\ seqMask \in {7, 23} /\ seqMask <= seq_mask(variant)
  /\ pc = "variant" => (LPMEN \in chip.osc <=> variant = "Mcp2518Fd")
  /\ pc = "osc_back" => op.found = variant
  /\ Since(FromZero) => seqMask = seq_mask(variant)

(* Blocks below op.block are zero. *)
RamInv ==
  /\ pc \notin FromZero => op.block = 1
  /\ pc = "zero" => op.block <= Blocks
  /\ pc \in FromNbt => op.block = Blocks + 1
  /\ pc \in FromZero /\ ~chip.stale => chip.used \subseteq op.block .. Blocks
  /\ Done /\ ~chip.stale => chip.used = {}

(* Bit timings stand where the RESET took effect: such a chip stays in     *)
(* Configuration mode and takes them.                                      *)
WordInv ==
  /\ Since(FromDbt) /\ ~chip.stale => chip.nbtcfg = NbtCfg(config.nominal)
  /\ Since(FromTdc) /\ HasData(config) /\ ~chip.stale => chip.dbtcfg = DbtCfg(config.data[1])
  /\ Since(FromCon) /\ ~chip.stale => chip.tdc = TdcWord
  /\ Since(FromPoll) => chip.con = ConWord

(* Once OPMOD was seen to be Configuration only an Ok can follow. *)
ModeInv ==
  /\ Since(FromInt) => chip.mode = "Configuration"
  /\ Done => ~chip.ints

BringInv ==
  BringType /\ ResetOk /\ OscInv /\ VariantInv /\ RamInv /\ WordInv /\ ModeInv

-----------------------------------------------------------------------------
(* The words. *)

LEMMA ConfigFacts ==
  ASSUME NEW c \in Configs
  PROVE  /\ c \in ConfigType /\ c.clock \in ClockType /\ c.nominal \in TimingType
         /\ c.clock.pll \in BOOLEAN /\ c.clock.sclk_div2 \in BOOLEAN
         /\ HasData(c) => c.data[1] \in TimingType
<1>1. c \in ConfigType  BY ConfigsAssumption
<1>2. c.clock \in ClockType /\ c.nominal \in TimingType /\ c.data \in Seq(TimingType)
  BY <1>1 DEF ConfigType
<1>3. c.data # <<>> => c.data[1] \in TimingType  BY <1>2
<1>. QED  BY <1>1, <1>2, <1>3 DEF ClockType, HasData

LEMMA WordTypes ==
  /\ \A v, width, lo : Shifted(v, width, lo) \in Words
  /\ \A w \in Words : \A v, width, lo : WithField(w, lo, width, v) \in Words
  /\ \A w \in Words : \A bit \in 0 .. 31 : \A v \in BOOLEAN : With(w, bit, v) \in Words
  /\ {} \in Words
BY DEF Words, Shifted, WithField, With

LEMMA OscWordIs ==
  ASSUME config \in Configs
  PROVE  /\ OscWord \in Words /\ With(OscWord, LPMEN, TRUE) \in Words
         /\ 0 \in OscWord <=> config.clock.pll
         /\ 4 \in OscWord <=> config.clock.sclk_div2
         /\ 3 \notin OscWord
         /\ \A b : b \in With(OscWord, LPMEN, TRUE) <=> b = 3 \/ b \in OscWord
<1>1. config.clock.pll \in BOOLEAN /\ config.clock.sclk_div2 \in BOOLEAN  BY ConfigFacts
<1>2. PICK w : w = With(With({}, 0, config.clock.pll), 4, config.clock.sclk_div2)  OBVIOUS
<1>3. /\ w \in Words
      /\ 0 \in w <=> config.clock.pll
      /\ 4 \in w <=> config.clock.sclk_div2
      /\ 3 \notin w
  BY <1>1, <1>2 DEF With, Words
<1>4. OscWord = WithField(w, 5, 2, 3)  BY <1>2 DEF OscWord, PLLEN, SCLKDIV, CLKODIV
<1>5. \A b : b \in Shifted(3, 2, 5) => b \in 5 .. 6  BY DEF Shifted, Bits
<1>6. OscWord \in Words  BY <1>3, <1>4, WordTypes
<1>7. \A b \in {0, 3, 4} : b \in OscWord <=> b \in w  BY <1>4, <1>5 DEF WithField
<1>8. With(OscWord, LPMEN, TRUE) = OscWord \cup {3}  BY DEF With, LPMEN
<1>9. OscWord \cup {3} \in Words  BY <1>6 DEF Words
<1>. QED  BY <1>3, <1>6, <1>7, <1>8, <1>9

LEMMA OtherWords ==
  ASSUME config \in Configs
  PROVE  /\ NbtCfg(config.nominal) \in Words /\ DbtCfg(config.data[1]) \in Words
         /\ TdcWord \in Words /\ ConWord \in Words
<1>1. NbtCfg(config.nominal) \in Words  BY DEF NbtCfg, Shifted, Words
<1>2. DbtCfg(config.data[1]) \in Words  BY DEF DbtCfg, Shifted, Words
<1>3. ASSUME NEW v PROVE AutoTdc(v) \in Words
  <2>1. PICK w : w = with_tdco(with_mode({}, "Auto"), v)  OBVIOUS
  <2>2. w \in Words  BY <2>1, WordTypes DEF with_tdco, with_mode
  <2>3. AutoTdc(v) = w \cup {25}  BY <2>1 DEF AutoTdc, With, EDGFLTEN
  <2>. QED  BY <2>2, <2>3 DEF Words
<1>4. TdcWord \in Words  BY <1>3, WordTypes DEF TdcWord
<1>5. ConWord = With({5}, 12, ~HasData(config))  BY DEF ConWord, With, ISOCRCEN, BRSDIS
<1>6. ConWord = {5} \/ ConWord = {5, 12}  BY <1>5 DEF With
<1>7. ConWord \in Words  BY <1>6 DEF Words
<1>. QED  BY <1>1, <1>2, <1>4, <1>7

LEMMA ResetTypes == ResetState \in ChipType /\ ~ResetState.stale /\ ResetState.mode = "Configuration"
<1>1. ResetState.osc \in Words /\ ResetState.nbtcfg \in Words /\ ResetState.dbtcfg \in Words
      /\ ResetState.tdc \in Words /\ ResetState.con \in Words
  BY DEF ResetState, Words
<1>. QED  BY <1>1 DEF ResetState, ChipType, Modes

(* What a write leaves is a chip, and one that is in Configuration mode    *)
(* unless its RESET was ignored.                                           *)
LEMMA WrittenTypes ==
  ASSUME BringType, ResetOk, NEW c, NEW p \in Writes, c \in Written(p)
  PROVE  c \in ChipType /\ (~c.stale => c.mode = "Configuration")
<1>. USE DEF BringType, ResetOk
<1>0. config \in Configs /\ chip \in ChipType  OBVIOUS
<1>1. CASE p = "reset"  BY <1>1, ResetTypes DEF Written
<1>2. CASE p = "echo_write"
  <2>1. c = [chip EXCEPT !.used = @ \cup {Blocks}]  BY <1>2 DEF Written
  <2>2. Blocks \in 1 .. Blocks  BY BringUpAssumption
  <2>. QED  BY <2>1, <2>2 DEF ChipType
<1>3. ASSUME NEW w \in Words PROVE WriteOsc(w) \in ChipType /\ WriteOsc(w).stale = chip.stale
                                   /\ WriteOsc(w).mode = chip.mode
  <2>1. w \ {LPMEN} \in Words  BY DEF Words
  <2>. QED  BY <2>1 DEF WriteOsc, ChipType
<1>4. CASE p \in {"osc", "lpmen", "osc_back"}
  <2>1. OscWord \in Words /\ With(OscWord, LPMEN, TRUE) \in Words  BY OscWordIs
  <2>2. c \in {[WriteOsc(OscWord) EXCEPT !.oscReady = FALSE, !.pllReady = FALSE],
               WriteOsc(With(OscWord, LPMEN, TRUE)), WriteOsc(OscWord)}
    BY <1>4 DEF Written
  <2>3. [WriteOsc(OscWord) EXCEPT !.oscReady = FALSE, !.pllReady = FALSE] \in ChipType
        /\ [WriteOsc(OscWord) EXCEPT !.oscReady = FALSE, !.pllReady = FALSE].stale = chip.stale
        /\ [WriteOsc(OscWord) EXCEPT !.oscReady = FALSE, !.pllReady = FALSE].mode = chip.mode
    <3>1. PICK k : k = WriteOsc(OscWord)  OBVIOUS
    <3>2. k \in ChipType /\ k.stale = chip.stale /\ k.mode = chip.mode  BY <1>3, <2>1, <3>1
    <3>3. [k EXCEPT !.oscReady = FALSE, !.pllReady = FALSE] \in ChipType
          /\ [k EXCEPT !.oscReady = FALSE, !.pllReady = FALSE].stale = k.stale
          /\ [k EXCEPT !.oscReady = FALSE, !.pllReady = FALSE].mode = k.mode
      BY <3>2 DEF ChipType
    <3>. QED  BY <3>1, <3>2, <3>3
  <2>. QED  BY <1>3, <2>1, <2>2, <2>3
<1>5. CASE p = "zero"
  <2>1. c = [chip EXCEPT !.used = @ \ {op.block}]  BY <1>5 DEF Written
  <2>. QED  BY <2>1 DEF ChipType
<1>6. CASE p \in {"nbtcfg", "dbtcfg", "tdc", "con"}
  <2>1. c \in {[chip EXCEPT !.nbtcfg = NbtCfg(config.nominal)],
               [chip EXCEPT !.dbtcfg = DbtCfg(config.data[1])],
               [chip EXCEPT !.tdc = TdcWord],
               [chip EXCEPT !.con = ConWord, !.pend = "Configuration"], chip}
    BY <1>6 DEF Written, Guarded
  <2>. QED  BY <2>1, OtherWords DEF ChipType
<1>7. CASE p = "int"
  <2>1. c = [chip EXCEPT !.ints = FALSE]  BY <1>7 DEF Written
  <2>. QED  BY <2>1 DEF ChipType
<1>. QED  BY <1>1, <1>2, <1>4, <1>5, <1>6, <1>7 DEF Writes

-----------------------------------------------------------------------------
(* The driver's steps.  What was settled before a step and is not touched  *)
(* by it stays so; each write settles its own part.                        *)
Settled == OscInv /\ VariantInv /\ RamInv /\ WordInv /\ ModeInv

LEMMA NumberTypes ==
  ASSUME BringType
  PROVE  /\ Blocks \in Nat /\ Blocks > 0 /\ MaxPolls \in Nat
         /\ op.left \in Int /\ op.block \in 1 .. Blocks + 1
         /\ seq_mask(variant) \in {7, 23} /\ variant \in {"Mcp2517Fd", "Mcp2518Fd"}
  BY BringUpAssumption DEF BringType, OpType, seq_mask

LEMMA WriteKeepsTypes == ASSUME BringInv, Write PROVE BringType' /\ ResetOk'
<1>. USE DEF BringInv, BringType
<1>1. pc \in Writes /\ chip' \in Written(pc)  BY DEF Write
<1>2. chip' \in ChipType /\ ResetOk'  BY <1>1, WrittenTypes DEF ResetOk
<1>3. UNCHANGED <<config, variant>>  BY DEF Write, world
<1>4. CASE pc = "int"
  <2>1. pc' = "idle" /\ ret' = "Ok" /\ op' = NoOp  BY <1>4 DEF Write, Return
  <2>2. NoOp \in OpType  BY BringUpAssumption DEF NoOp, OpType
  <2>. QED  BY <1>2, <1>3, <1>4, <2>1, <2>2 DEF Done
<1>5. CASE pc # "int"
  <2>1. pc' = After(pc) /\ ret' = ret  BY <1>5 DEF Write
  <2>2. pc' \in Writes \cup Reads  BY <1>1, <1>5, <2>1 DEF After, Writes, Reads
  <2>3. op' \in OpType
    <3>1. CASE pc \in {"osc", "con"}
      <4>1. op' = [op EXCEPT !.left = MaxPolls]  BY <1>5, <3>1 DEF Write
      <4>. QED  BY <4>1, NumberTypes DEF OpType
    <3>2. CASE pc = "zero"
      <4>1. op' = [op EXCEPT !.block = @ + 1]  BY <1>5, <3>2 DEF Write
      <4>2. op.block + 1 \in 1 .. Blocks + 1  BY <3>2, NumberTypes DEF RamInv
      <4>. QED  BY <4>1, <4>2 DEF OpType
    <3>3. CASE pc \notin {"osc", "con", "zero"}
      <4>1. op' = op  BY <1>5, <3>3 DEF Write
      <4>. QED  BY <4>1
    <3>. QED  BY <3>1, <3>2, <3>3
  <2>4. pc # "idle"  BY <1>1 DEF Writes
  <2>. QED  BY <1>2, <1>3, <2>1, <2>2, <2>3, <2>4 DEF Done, Writes, Reads
<1>. QED  BY <1>4, <1>5

(* Where nothing is settled yet, or nothing any more. *)
LEMMA Unsettled ==
  ASSUME BringInv, pc' \notin FromOscPoll, ~Done', op'.block = 1, UNCHANGED <<seqMask, variant>>
  PROVE  Settled'
BY DEF BringInv, Settled, OscInv, VariantInv, RamInv, WordInv, ModeInv, Since, FromInt, FromPoll,
       FromCon, FromTdc, FromDbt, FromNbt, FromZero, FromBack, FromLpmen, FromOscPoll

LEMMA ProbeWord ==
  ASSUME config \in Configs
  PROVE  /\ 0 \in With(OscWord, LPMEN, TRUE) <=> config.clock.pll
         /\ 4 \in With(OscWord, LPMEN, TRUE) <=> config.clock.sclk_div2
         /\ 3 \in With(OscWord, LPMEN, TRUE)
<1>1. With(OscWord, LPMEN, TRUE) = OscWord \cup {3}  BY DEF With, LPMEN
<1>2. PICK w : w = With(OscWord, LPMEN, TRUE)  OBVIOUS
<1>3. PICK o : o = OscWord  OBVIOUS
<1>4. w = o \cup {3}  BY <1>1, <1>2, <1>3, Zenon
<1>5. (0 \in w <=> 0 \in o) /\ (4 \in w <=> 4 \in o) /\ 3 \in w  BY <1>4
<1>. QED  BY <1>2, <1>3, <1>5, OscWordIs, Zenon

LEMMA WordWrites ==
  ASSUME chip \in ChipType, pc \in {"nbtcfg", "dbtcfg", "tdc", "con"}, chip' \in Written(pc)
  PROVE  UNCHANGED <<chip.osc, chip.oscReady, chip.pllReady, chip.stale, chip.used>>
<1>1. chip' \in {[chip EXCEPT !.nbtcfg = NbtCfg(config.nominal)],
                [chip EXCEPT !.dbtcfg = DbtCfg(config.data[1])],
                [chip EXCEPT !.tdc = TdcWord],
                [chip EXCEPT !.con = ConWord, !.pend = "Configuration"], chip}
  BY DEF Written, Guarded
<1>. QED  BY <1>1 DEF ChipType

LEMMA WriteSettles == ASSUME BringInv, Write PROVE Settled'
<1>. USE DEF BringInv
<1>1. pc \in Writes /\ chip' \in Written(pc) /\ ret = "none"  BY DEF Write, BringType, Writes
<1>2. /\ UNCHANGED <<config, variant>>
      /\ pc # "int" => pc' = After(pc) /\ ret' = ret
      /\ pc # "osc_back" => seqMask' = seqMask
      /\ pc \notin {"int", "osc", "con", "zero"} => op' = op
  BY DEF Write, world
<1>3. chip \in ChipType /\ op \in OpType /\ config \in Configs  BY DEF BringType
<1>4. CASE pc \in {"reset", "echo_write"}
  <2>1. pc' \in {"echo_write", "echo_read"}  BY <1>2, <1>4 DEF After
  <2>2. op'.block = 1  BY <1>2, <1>4 DEF RamInv, FromZero, FromNbt, FromDbt, FromTdc, FromCon, FromPoll, FromInt
  <2>. QED
    BY <1>2, <1>4, <2>1, <2>2, Unsettled
    DEF Done, FromInt, FromPoll, FromCon, FromTdc, FromDbt, FromNbt, FromZero, FromBack,
        FromLpmen, FromOscPoll
<1>. USE DEF Settled, OscInv, VariantInv, RamInv, WordInv, ModeInv, Since, Done, FromInt, FromPoll,
             FromCon, FromTdc, FromDbt, FromNbt, FromZero, FromBack, FromLpmen, FromOscPoll
<1>5. CASE pc = "osc"
  <2>1. pc' = "osc_poll"  BY <1>2, <1>5 DEF After
  <2>2. chip' = [WriteOsc(OscWord) EXCEPT !.oscReady = FALSE, !.pllReady = FALSE]
    BY <1>1, <1>5 DEF Written
  <2>3. chip'.osc = OscWord
    <3>1. WriteOsc(OscWord).osc \in {OscWord, OscWord \ {LPMEN}}  BY <1>3 DEF WriteOsc, ChipType
    <3>2. 3 \notin OscWord  BY <1>3, OscWordIs
    <3>3. OscWord \ {LPMEN} = OscWord  BY <3>2 DEF LPMEN
    <3>4. DOMAIN WriteOsc(OscWord) = DOMAIN chip  BY DEF WriteOsc
    <3>. QED  BY <1>3, <2>2, <3>1, <3>3, <3>4 DEF ChipType
  <2>4. op'.block = 1
    <3>1. op' = [op EXCEPT !.left = MaxPolls]  BY <1>5 DEF Write
    <3>. QED  BY <1>3, <1>5, <3>1 DEF OpType
  <2>. QED  BY <1>1, <1>2, <1>3, <1>5, <2>1, <2>3, <2>4, OscWordIs
<1>6. CASE pc = "lpmen"
  <2>1. pc' = "variant"  BY <1>2, <1>6 DEF After
  <2>2. chip' = WriteOsc(With(OscWord, LPMEN, TRUE))  BY <1>1, <1>6 DEF Written
  <2>3. PICK w : w = With(OscWord, LPMEN, TRUE)  OBVIOUS
  <2>4. /\ 0 \in w <=> config.clock.pll
        /\ 4 \in w <=> config.clock.sclk_div2
        /\ 3 \in w
    BY <1>3, <2>3, ProbeWord
  <2>5. chip' = [chip EXCEPT !.osc = IF variant = "Mcp2518Fd" THEN w ELSE w \ {3}]
    BY <2>2, <2>3 DEF WriteOsc, LPMEN
  <2>6. /\ chip'.osc = IF variant = "Mcp2518Fd" THEN w ELSE w \ {3}
        /\ chip'.oscReady = chip.oscReady /\ chip'.pllReady = chip.pllReady
    BY <1>3, <2>5 DEF ChipType
  <2>. QED  BY <1>1, <1>2, <1>3, <1>6, <2>1, <2>4, <2>6 DEF LPMEN
<1>7. CASE pc = "osc_back"
  <2>1. pc' = "zero"  BY <1>2, <1>7 DEF After
  <2>2. chip' = WriteOsc(OscWord)  BY <1>1, <1>7 DEF Written
  <2>3. /\ 0 \in chip'.osc <=> config.clock.pll
        /\ 4 \in chip'.osc <=> config.clock.sclk_div2
        /\ 3 \notin chip'.osc
        /\ chip'.oscReady = chip.oscReady /\ chip'.pllReady = chip.pllReady
        /\ chip'.used = chip.used
    BY <1>3, <2>2, OscWordIs DEF WriteOsc, ChipType, LPMEN
  <2>4. seqMask' = seq_mask(variant)  BY <1>7 DEF Write
  <2>5. chip.used \subseteq 1 .. Blocks  BY <1>3 DEF ChipType
  <2>6. Blocks \in Nat \ {0} /\ seq_mask(variant) \in {7, 23}  BY BringUpAssumption DEF seq_mask
  <2>. QED  BY <1>1, <1>2, <1>3, <1>7, <2>1, <2>3, <2>4, <2>5, <2>6
<1>8. CASE pc = "zero"
  <2>1. pc' = IF LastBlock THEN "nbtcfg" ELSE "zero"  BY <1>2, <1>8 DEF After
  <2>2. chip' = [chip EXCEPT !.used = @ \ {op.block}]  BY <1>1, <1>8 DEF Written
  <2>3. op' = [op EXCEPT !.block = @ + 1]  BY <1>8 DEF Write
  <2>4. op'.block = op.block + 1  BY <1>3, <2>3 DEF OpType
  <2>5. /\ chip'.used = chip.used \ {op.block}
        /\ UNCHANGED <<chip.osc, chip.oscReady, chip.pllReady, chip.stale>>
    BY <1>3, <2>2 DEF ChipType
  <2>6. Blocks \in Nat /\ op.block \in Nat  BY NumberTypes
  <2>7. ~chip.stale => chip'.used \subseteq op'.block .. Blocks
    <3>1. ~chip.stale => chip.used \subseteq op.block .. Blocks  BY <1>8
    <3>. QED  BY <2>4, <2>5, <2>6, <3>1
  <2>8. op'.block <= Blocks \/ (pc' = "nbtcfg" /\ op'.block = Blocks + 1)
    BY <1>8, <2>1, <2>4, <2>6 DEF LastBlock
  <2>. QED  BY <1>1, <1>2, <1>8, <2>1, <2>5, <2>7, <2>8, <2>4 DEF LastBlock
<1>9. CASE pc \in {"nbtcfg", "dbtcfg", "tdc", "con"}
  <2>1. pc' = After(pc) /\ pc' \in {"dbtcfg", "tdc", "con", "mode_poll"}  BY <1>2, <1>9 DEF After
  <2>2. UNCHANGED <<chip.osc, chip.oscReady, chip.pllReady, chip.stale, chip.used>>
    BY <1>1, <1>3, <1>9, WordWrites
  <2>3. op'.block = op.block
    <3>1. op' \in {op, [op EXCEPT !.left = MaxPolls]}  BY <1>9 DEF Write
    <3>. QED  BY <1>3, <3>1 DEF OpType
  <2>4. WordInv'
    <3>0. ~chip.stale => \A n : Guarded(n) = {n}  BY DEF Guarded, ResetOk
    <3>1. CASE pc = "nbtcfg"
      <4>1. pc' \in {"dbtcfg", "tdc"} /\ (pc' = "tdc" => ~HasData(config))
        BY <1>2, <3>1 DEF After
      <4>2. ~chip.stale => chip'.nbtcfg = NbtCfg(config.nominal)
        <5>1. PICK n : n = [chip EXCEPT !.nbtcfg = NbtCfg(config.nominal)]  OBVIOUS
        <5>2. n.nbtcfg = NbtCfg(config.nominal)  BY <1>3, <5>1 DEF ChipType
        <5>3. chip' \in Guarded(n)  BY <1>1, <3>1, <5>1 DEF Written
        <5>. QED  BY <3>0, <5>2, <5>3
      <4>. QED  BY <1>1, <1>2, <2>2, <4>1, <4>2
    <3>2. CASE pc = "dbtcfg"
      <4>1. pc' = "tdc"  BY <1>2, <3>2 DEF After
      <4>2. ~chip.stale =>
              chip'.dbtcfg = DbtCfg(config.data[1]) /\ chip'.nbtcfg = chip.nbtcfg
        <5>1. PICK n : n = [chip EXCEPT !.dbtcfg = DbtCfg(config.data[1])]  OBVIOUS
        <5>2. n.dbtcfg = DbtCfg(config.data[1]) /\ n.nbtcfg = chip.nbtcfg
          BY <1>3, <5>1 DEF ChipType
        <5>3. chip' \in Guarded(n)  BY <1>1, <3>2, <5>1 DEF Written
        <5>. QED  BY <3>0, <5>2, <5>3
      <4>. QED  BY <1>1, <1>2, <2>2, <3>2, <4>1, <4>2
    <3>3. CASE pc = "tdc"
      <4>1. pc' = "con"  BY <1>2, <3>3 DEF After
      <4>2. ~chip.stale => /\ chip'.tdc = TdcWord /\ chip'.nbtcfg = chip.nbtcfg
                           /\ chip'.dbtcfg = chip.dbtcfg
        <5>1. PICK n : n = [chip EXCEPT !.tdc = TdcWord]  OBVIOUS
        <5>2. n.tdc = TdcWord /\ n.nbtcfg = chip.nbtcfg /\ n.dbtcfg = chip.dbtcfg
          BY <1>3, <5>1 DEF ChipType
        <5>3. chip' \in Guarded(n)  BY <1>1, <3>3, <5>1 DEF Written
        <5>. QED  BY <3>0, <5>2, <5>3
      <4>3. TdcWord' = TdcWord /\ ConWord' = ConWord  BY <1>2 DEF TdcWord, ConWord
      <4>. QED  BY <1>1, <1>2, <2>2, <3>3, <4>1, <4>2, <4>3
    <3>4. CASE pc = "con"
      <4>1. pc' = "mode_poll"  BY <1>2, <3>4 DEF After
      <4>2. /\ chip'.con = ConWord
            /\ UNCHANGED <<chip.nbtcfg, chip.dbtcfg, chip.tdc>>
        BY <1>1, <1>3, <3>4 DEF Written, ChipType
      <4>3. TdcWord' = TdcWord /\ ConWord' = ConWord  BY <1>2 DEF TdcWord, ConWord
      <4>. QED  BY <1>1, <1>2, <2>2, <3>4, <4>1, <4>2, <4>3
    <3>. QED  BY <1>9, <3>1, <3>2, <3>3, <3>4
  <2>5. op.block = 1 \/ op.block = Blocks + 1  BY <1>9
  <2>6. op'.block = op.block /\ pc' \in FromNbt /\ pc \in FromNbt  BY <1>9, <2>1, <2>3
  <2>7. RamInv'  BY <1>1, <1>2, <1>9, <2>1, <2>2, <2>6
  <2>. QED  BY <1>1, <1>2, <1>9, <2>1, <2>2, <2>4, <2>7
<1>10. CASE pc = "int"
  <2>1. pc' = "idle" /\ ret' = "Ok" /\ op' = NoOp  BY <1>10 DEF Write, Return
  <2>2. chip' = [chip EXCEPT !.ints = FALSE]  BY <1>1, <1>10 DEF Written
  <2>3. /\ ~chip'.ints
        /\ UNCHANGED <<chip.osc, chip.oscReady, chip.pllReady, chip.stale, chip.used, chip.mode,
                       chip.nbtcfg, chip.dbtcfg, chip.tdc, chip.con>>
    BY <1>3, <2>2 DEF ChipType
  <2>4. TdcWord' = TdcWord /\ ConWord' = ConWord  BY <1>2 DEF TdcWord, ConWord
  <2>5. ~chip.stale => chip.used = {}
    <3>1. op.block = Blocks + 1 /\ Blocks \in Nat  BY <1>10, NumberTypes
    <3>2. ~chip.stale => chip.used \subseteq Blocks + 1 .. Blocks  BY <1>10, <3>1
    <3>. QED  BY <3>1, <3>2
  <2>6. NoOp.block = 1  BY DEF NoOp
  <2>. QED  BY <1>1, <1>2, <1>10, <2>1, <2>3, <2>4, <2>5, <2>6
<1>. QED  BY <1>1, <1>4, <1>5, <1>6, <1>7, <1>8, <1>9, <1>10 DEF Writes

(* A call that returns an error leaves nothing settled but the types.      *)
LEMMA ErrorReturns ==
  ASSUME BringInv, NEW res, res # "Ok", Return(res), chip' \in ChipType,
         UNCHANGED <<config, seqMask, world>>
  PROVE  BringType' /\ Settled'
<1>1. pc' = "idle" /\ ret' # "Ok" /\ op' = NoOp /\ UNCHANGED <<config, seqMask, variant>>
  BY DEF Return, world
<1>2. NoOp \in OpType /\ NoOp.block = 1  BY BringUpAssumption DEF NoOp, OpType
<1>3. pc' \notin FromOscPoll /\ ~Done'
  BY <1>1 DEF Done, FromInt, FromPoll, FromCon, FromTdc, FromDbt, FromNbt, FromZero, FromBack,
              FromLpmen, FromOscPoll
<1>4. Settled'  BY <1>1, <1>2, <1>3, Unsettled
<1>5. BringType'  BY <1>1, <1>2 DEF BringInv, BringType, Done
<1>. QED  BY <1>4, <1>5

LEMMA InitStep == ASSUME BringInv, NEW c \in Configs, InitDriver(c) PROVE BringInv'
<1>1. config' = c /\ pc = "idle" /\ UNCHANGED <<seqMask, chip, variant>>
  BY DEF InitDriver, world
<1>2. CASE Valid(c)
  <2>1. pc' = "reset" /\ op' = NoOp /\ ret' = "none"  BY <1>2 DEF InitDriver
  <2>2. NoOp \in OpType /\ NoOp.block = 1  BY BringUpAssumption DEF NoOp, OpType
  <2>3. Settled'
    BY <1>1, <2>1, <2>2, Unsettled
    DEF Done, FromInt, FromPoll, FromCon, FromTdc, FromDbt, FromNbt, FromZero, FromBack,
        FromLpmen, FromOscPoll
  <2>. QED  BY <1>1, <1>2, <2>1, <2>2, <2>3 DEF BringInv, Settled, BringType, ResetOk, Done, Writes
<1>3. CASE ~Valid(c)
  <2>1. pc' = "idle" /\ op' = NoOp /\ ret' = "InvalidConfig"  BY <1>3 DEF InitDriver, Return
  <2>2. NoOp \in OpType /\ NoOp.block = 1  BY BringUpAssumption DEF NoOp, OpType
  <2>3. Settled'
    BY <1>1, <2>1, <2>2, Unsettled
    DEF Done, FromInt, FromPoll, FromCon, FromTdc, FromDbt, FromNbt, FromZero, FromBack,
        FromLpmen, FromOscPoll
  <2>. QED  BY <1>1, <2>1, <2>2, <2>3 DEF BringInv, Settled, BringType, ResetOk, Done
<1>. QED  BY <1>2, <1>3

LEMMA FailStep == ASSUME BringInv, SpiFails PROVE BringInv'
<1>1. chip' = chip \/ (pc \in Writes /\ chip' \in Written(pc))  BY DEF SpiFails
<1>2. chip' \in ChipType /\ ResetOk'
  BY <1>1, WrittenTypes DEF BringInv, BringType, ResetOk
<1>3. BringType' /\ Settled'  BY <1>2, ErrorReturns DEF SpiFails
<1>. QED  BY <1>2, <1>3 DEF BringInv, Settled

(* Reads: the chip stays as it is. *)
LEMMA EchoReadStep == ASSUME BringInv, EchoRead PROVE BringInv'
<1>1. pc = "echo_read" /\ UNCHANGED <<config, seqMask, chip, variant>> /\ UNCHANGED world
  BY DEF EchoRead, world
<1>2. CASE Return("CommunicationCheckFailed")
  BY <1>1, <1>2, ErrorReturns DEF BringInv, BringType, Settled, ResetOk
<1>3. CASE Goto("osc")
  <2>1. pc' = "osc" /\ op' = op /\ ret' = ret  BY <1>3 DEF Goto
  <2>2. op.block = 1
    BY <1>1 DEF BringInv, RamInv, FromZero, FromNbt, FromDbt, FromTdc, FromCon, FromPoll, FromInt
  <2>3. Settled'
    BY <1>1, <2>1, <2>2, Unsettled
    DEF Done, FromInt, FromPoll, FromCon, FromTdc, FromDbt, FromNbt, FromZero, FromBack,
        FromLpmen, FromOscPoll
  <2>. QED  BY <1>1, <2>1, <2>3 DEF BringInv, Settled, BringType, ResetOk, Done, Writes, Reads
<1>. QED  BY <1>2, <1>3 DEF EchoRead

LEMMA PollTypes == ASSUME BringType, Poll PROVE op' \in OpType /\ op'.block = op.block
<1>1. op' = [op EXCEPT !.left = @ - 1]  BY DEF Poll
<1>. QED  BY <1>1 DEF BringType, OpType

LEMMA OscPollStep == ASSUME BringInv, OscPoll PROVE BringInv'
<1>1. pc = "osc_poll" /\ UNCHANGED <<config, seqMask, chip, variant>> /\ UNCHANGED world
  BY DEF OscPoll, world
<1>2. CASE Return("ClockNotReady")
  BY <1>1, <1>2, ErrorReturns DEF BringInv, BringType, Settled, ResetOk
<1>. USE DEF BringInv, Settled, OscInv, VariantInv, RamInv, WordInv, ModeInv, Since, Done, FromInt,
             FromPoll, FromCon, FromTdc, FromDbt, FromNbt, FromZero, FromBack, FromLpmen,
             FromOscPoll
<1>3. CASE Poll
  <2>1. op' \in OpType /\ op'.block = op.block  BY <1>3, PollTypes
  <2>2. pc' = pc /\ ret' = ret  BY <1>3 DEF Poll
  <2>. QED  BY <1>1, <2>1, <2>2 DEF BringType, ResetOk
<1>4. CASE ClockReady /\ Goto("lpmen")
  <2>1. pc' = "lpmen" /\ op' = op /\ ret' = ret  BY <1>4 DEF Goto
  <2>2. chip.oscReady /\ (config.clock.pll => chip.pllReady)  BY <1>4 DEF ClockReady
  <2>. QED  BY <1>1, <2>1, <2>2 DEF BringType, ResetOk, Writes, Reads
<1>. QED  BY <1>2, <1>3, <1>4 DEF OscPoll

LEMMA VariantStep == ASSUME BringInv, Variant PROVE BringInv'
<1>. USE DEF BringInv, Settled, OscInv, VariantInv, RamInv, WordInv, ModeInv, Since, Done, FromInt,
             FromPoll, FromCon, FromTdc, FromDbt, FromNbt, FromZero, FromBack, FromLpmen,
             FromOscPoll
<1>1. pc = "variant" /\ pc' = "osc_back" /\ UNCHANGED <<ret, config, seqMask, chip, variant>>
  BY DEF Variant, world
<1>2. op' = [op EXCEPT !.found = IF LPMEN \in chip.osc THEN "Mcp2518Fd" ELSE "Mcp2517Fd"]
  BY DEF Variant
<1>3. op' \in OpType /\ op'.block = op.block
      /\ op'.found = IF LPMEN \in chip.osc THEN "Mcp2518Fd" ELSE "Mcp2517Fd"
  BY <1>2 DEF BringType, OpType
<1>4. variant \in {"Mcp2517Fd", "Mcp2518Fd"}  BY NumberTypes
<1>. QED  BY <1>1, <1>3, <1>4 DEF BringType, ResetOk, Writes, Reads

LEMMA ModePollStep == ASSUME BringInv, ModePoll PROVE BringInv'
<1>1. pc = "mode_poll" /\ UNCHANGED <<config, seqMask, chip, variant>> /\ UNCHANGED world
  BY DEF ModePoll, world
<1>2. CASE Return("ModeChangeTimeout")
  BY <1>1, <1>2, ErrorReturns DEF BringInv, BringType, Settled, ResetOk
<1>3. TdcWord' = TdcWord /\ ConWord' = ConWord  BY <1>1 DEF TdcWord, ConWord
<1>. USE DEF BringInv, Settled, OscInv, VariantInv, RamInv, WordInv, ModeInv, Since, Done, FromInt,
             FromPoll, FromCon, FromTdc, FromDbt, FromNbt, FromZero, FromBack, FromLpmen,
             FromOscPoll
<1>4. CASE Poll
  <2>1. op' \in OpType /\ op'.block = op.block  BY <1>4, PollTypes
  <2>2. pc' = pc /\ ret' = ret  BY <1>4 DEF Poll
  <2>. QED  BY <1>1, <1>3, <2>1, <2>2 DEF BringType, ResetOk
<1>5. CASE InConfig /\ Goto("int")
  <2>1. pc' = "int" /\ op' = op /\ ret' = ret  BY <1>5 DEF Goto
  <2>2. chip.mode = "Configuration"  BY <1>5 DEF InConfig
  <2>. QED  BY <1>1, <1>3, <2>1, <2>2 DEF BringType, ResetOk, Writes, Reads
<1>. QED  BY <1>2, <1>4, <1>5 DEF ModePoll

-----------------------------------------------------------------------------
(* The chip in its own time: clocks only start, a mode change can only be  *)
(* one to Configuration, and frames are stored only where RESET was        *)
(* ignored.                                                                *)
LEMMA ChipStep == ASSUME BringInv, Chip PROVE BringInv'
<1>1. UNCHANGED <<pc, op, ret, config, seqMask, variant>>
  BY DEF Chip, ClockStarts, ModeChange, FrameStored, world
<1>2. TdcWord' = TdcWord /\ ConWord' = ConWord  BY <1>1 DEF TdcWord, ConWord
<1>3. chip \in ChipType  BY DEF BringInv, BringType
<1>4. CASE ClockStarts
  <2>1. chip' = [chip EXCEPT !.oscReady = TRUE] \/ chip' = [chip EXCEPT !.pllReady = TRUE]
    BY <1>4 DEF ClockStarts
  <2>2. /\ chip' \in ChipType
        /\ chip.oscReady => chip'.oscReady
        /\ chip.pllReady => chip'.pllReady
        /\ UNCHANGED <<chip.osc, chip.stale, chip.used, chip.mode, chip.nbtcfg, chip.dbtcfg,
                       chip.tdc, chip.con, chip.ints>>
    BY <1>3, <2>1 DEF ChipType
  <2>. QED
    BY <1>1, <1>2, <2>2
    DEF BringInv, BringType, ResetOk, OscInv, VariantInv, RamInv, WordInv, ModeInv, Since, Done
<1>5. CASE ModeChange
  <2>1. chip' = [chip EXCEPT !.mode = "Configuration", !.pend = "none"]
    BY <1>3, <1>5 DEF ModeChange, ChipType
  <2>2. /\ chip' \in ChipType /\ chip'.mode = "Configuration"
        /\ UNCHANGED <<chip.osc, chip.oscReady, chip.pllReady, chip.stale, chip.used, chip.nbtcfg,
                       chip.dbtcfg, chip.tdc, chip.con, chip.ints>>
    BY <1>3, <2>1 DEF ChipType, Modes
  <2>. QED
    BY <1>1, <1>2, <2>2
    DEF BringInv, BringType, ResetOk, OscInv, VariantInv, RamInv, WordInv, ModeInv, Since, Done
<1>6. CASE FrameStored
  <2>1. chip' = [chip EXCEPT !.used = @ \cup {1}, !.ints = TRUE]  BY <1>6 DEF FrameStored
  <2>2. chip.mode # "Configuration"  BY <1>6 DEF FrameStored
  <2>3. chip.stale /\ ~Since(FromInt)  BY <2>2 DEF BringInv, ResetOk, ModeInv
  <2>4. 1 \in 1 .. Blocks  BY BringUpAssumption
  <2>5. /\ chip' \in ChipType
        /\ UNCHANGED <<chip.osc, chip.oscReady, chip.pllReady, chip.stale, chip.mode, chip.nbtcfg,
                       chip.dbtcfg, chip.tdc, chip.con>>
    BY <1>3, <2>1, <2>4 DEF ChipType
  <2>. QED
    BY <1>1, <1>2, <2>3, <2>5
    DEF BringInv, BringType, ResetOk, OscInv, VariantInv, RamInv, WordInv, ModeInv, Since, Done
<1>. QED  BY <1>4, <1>5, <1>6 DEF Chip

LEMMA BringInit == Init => BringInv
<1>. SUFFICES ASSUME Init PROVE BringInv  OBVIOUS
<1>1. /\ pc = "idle" /\ op = NoOp /\ ret = "none" /\ config \in Configs /\ seqMask = 7
      /\ variant \in Variants /\ chip \in {ResetState} \cup {Warm(m) : m \in WarmModes}
  BY DEF Init
<1>2. NoOp \in OpType /\ NoOp.block = 1  BY BringUpAssumption DEF NoOp, OpType
<1>3. ASSUME NEW m \in WarmModes PROVE Warm(m) \in ChipType /\ Warm(m).stale
  <2>1. {LPMEN} \in Words  BY DEF Words, LPMEN
  <2>. QED  BY <2>1, ResetTypes DEF Warm, ChipType, Modes
<1>4. chip \in ChipType /\ ResetOk  BY <1>1, <1>3, ResetTypes DEF ResetOk
<1>5. variant \in {"Mcp2517Fd", "Mcp2518Fd"}  BY <1>1, BringUpAssumption
<1>. QED
  BY <1>1, <1>2, <1>4, <1>5
  DEF BringInv, BringType, OscInv, VariantInv, RamInv, WordInv, ModeInv, Since, Done, seq_mask,
      FromInt, FromPoll, FromCon, FromTdc, FromDbt, FromNbt, FromZero, FromBack, FromLpmen,
      FromOscPoll

LEMMA BringStep == ASSUME BringInv, [Next]_vars PROVE BringInv'
<1>1. CASE Write
  BY <1>1, WriteKeepsTypes, WriteSettles DEF BringInv, Settled
<1>2. CASE UNCHANGED vars
  <2>1. TdcWord' = TdcWord /\ ConWord' = ConWord  BY <1>2 DEF TdcWord, ConWord, vars
  <2>. QED
    BY <1>2, <2>1
    DEF vars, BringInv, BringType, ResetOk, OscInv, VariantInv, RamInv, WordInv, ModeInv, Since, Done
<1>. QED
  BY <1>1, <1>2, InitStep, FailStep, EchoReadStep, OscPollStep, VariantStep, ModePollStep, ChipStep
  DEF Next, Driver

LEMMA BringAlways == Spec => []BringInv
<1>. QED  BY BringInit, BringStep, PTL DEF Spec

-----------------------------------------------------------------------------
(* Ok of init means what its doc says, in whatever mode the chip was and   *)
(* wherever earlier calls failed: Configuration mode, clocks running,      *)
(* LPMEN off, no flags and enables, and zeroed RAM if RESET took effect.   *)
THEOREM OkIsReady == Spec => []OkMeansReady
<1>1. BringInv => OkMeansReady
  <2>. SUFFICES ASSUME BringInv, ret = "Ok" PROVE OkMeansReady  BY DEF OkMeansReady
  <2>1. Done  BY DEF Done, BringInv, BringType
  <2>2. chip \in ChipType  BY DEF BringInv, BringType
  <2>3. chip.pend \in {"none", "Configuration"}  BY <2>2 DEF ChipType
  <2>4. 0 \in chip.osc => chip.pllReady  BY <2>1 DEF BringInv, OscInv, Since
  <2>. QED
    BY <2>1, <2>3, <2>4 DEF OkMeansReady, BringInv, OscInv, RamInv, ModeInv, Since
<1>. QED  BY <1>1, BringAlways, PTL

(* The driver never writes more sequence bits than the chip's TX object    *)
(* has, whichever call of init broke off and where; after Ok it uses all.  *)
THEOREM MaskAlwaysFits == Spec => []SeqMaskFits
<1>1. BringInv => SeqMaskFits
  <2>. SUFFICES ASSUME BringInv PROVE SeqMaskFits  OBVIOUS
  <2>1. ret = "Ok" => Done  BY DEF Done, BringInv, BringType
  <2>. QED  BY <2>1 DEF SeqMaskFits, BringInv, VariantInv, Since
<1>. QED  BY <1>1, BringAlways, PTL

-----------------------------------------------------------------------------
(* The registers, as the chip reads them.  A field depends on its own bits *)
(* only.                                                                   *)
LEMMA FieldLocal ==
  ASSUME NEW w, NEW v, NEW lo, NEW n, w \cap (lo .. lo + n - 1) = v \cap (lo .. lo + n - 1)
  PROVE  Field(w, lo, n) = Field(v, lo, n)
BY DEF Field

(* The fields of a register do not meet, so each reads back its own value. *)
LEMMA NominalReadsBack ==
  ASSUME NEW t \in TimingType, ValidNominal(t)
  PROVE  /\ Field(NbtCfg(t), 24, 8) + 1 = t.brp /\ Field(NbtCfg(t), 16, 8) + 1 = t.tseg1
         /\ Field(NbtCfg(t), 8, 7) + 1 = t.tseg2 /\ Field(NbtCfg(t), 0, 7) + 1 = t.sjw
<1>1. PICK a : a = Shifted(MinusOne(t.brp, 16), 16, 24)  OBVIOUS
<1>2. PICK b : b = Shifted(MinusOne(t.tseg1, 16), 16, 16)  OBVIOUS
<1>3. PICK c : c = Shifted(MinusOne(t.tseg2, 16), 16, 8)  OBVIOUS
<1>4. PICK d : d = Shifted(MinusOne(t.sjw, 16), 16, 0)  OBVIOUS
<1>5. /\ t.brp \in 1 .. 256 /\ t.tseg1 \in 1 .. 256 /\ t.tseg2 \in 1 .. 128 /\ t.sjw \in 1 .. 128
  BY DEF ValidNominal, TimingType
<1>6. /\ Survives(t.brp, 16, 24, 8) /\ Survives(t.tseg1, 16, 16, 8)
      /\ Survives(t.tseg2, 16, 8, 7) /\ Survives(t.sjw, 16, 0, 7)
  BY <1>5, FieldsHoldTheirRange
<1>7. /\ a \subseteq 24 .. 31 /\ Field(a, 24, 8) + 1 = t.brp
      /\ b \subseteq 16 .. 23 /\ Field(b, 16, 8) + 1 = t.tseg1
      /\ c \subseteq 8 .. 14 /\ Field(c, 8, 7) + 1 = t.tseg2
      /\ d \subseteq 0 .. 6 /\ Field(d, 0, 7) + 1 = t.sjw
  BY <1>1, <1>2, <1>3, <1>4, <1>6 DEF Survives
<1>8. NbtCfg(t) = a \cup b \cup c \cup d  BY <1>1, <1>2, <1>3, <1>4 DEF NbtCfg
<1>9. /\ NbtCfg(t) \cap (24 .. 24 + 8 - 1) = a \cap (24 .. 24 + 8 - 1)
      /\ NbtCfg(t) \cap (16 .. 16 + 8 - 1) = b \cap (16 .. 16 + 8 - 1)
      /\ NbtCfg(t) \cap (8 .. 8 + 7 - 1) = c \cap (8 .. 8 + 7 - 1)
      /\ NbtCfg(t) \cap (0 .. 0 + 7 - 1) = d \cap (0 .. 0 + 7 - 1)
  BY <1>7, <1>8
<1>10. Field(NbtCfg(t), 24, 8) = Field(a, 24, 8)  BY <1>9, FieldLocal
<1>11. Field(NbtCfg(t), 16, 8) = Field(b, 16, 8)  BY <1>9, FieldLocal
<1>12. Field(NbtCfg(t), 8, 7) = Field(c, 8, 7)  BY <1>9, FieldLocal
<1>13. Field(NbtCfg(t), 0, 7) = Field(d, 0, 7)  BY <1>9, FieldLocal
<1>. QED  BY <1>7, <1>10, <1>11, <1>12, <1>13

LEMMA DataReadsBack ==
  ASSUME NEW t \in TimingType, ValidData(t)
  PROVE  /\ Field(DbtCfg(t), 24, 8) + 1 = t.brp /\ Field(DbtCfg(t), 16, 5) + 1 = t.tseg1
         /\ Field(DbtCfg(t), 8, 4) + 1 = t.tseg2 /\ Field(DbtCfg(t), 0, 4) + 1 = t.sjw
<1>1. PICK a : a = Shifted(MinusOne(t.brp, 16), 16, 24)  OBVIOUS
<1>2. PICK b : b = Shifted(MinusOne(t.tseg1, 8), 8, 16)  OBVIOUS
<1>3. PICK c : c = Shifted(MinusOne(t.tseg2, 8), 8, 8)  OBVIOUS
<1>4. PICK d : d = Shifted(MinusOne(t.sjw, 8), 8, 0)  OBVIOUS
<1>5. /\ t.brp \in 1 .. 256 /\ t.tseg1 \in 1 .. 32 /\ t.tseg2 \in 1 .. 16 /\ t.sjw \in 1 .. 16
  BY DEF ValidData, TimingType
<1>6. /\ Survives(t.brp, 16, 24, 8) /\ Survives(t.tseg1, 8, 16, 5)
      /\ Survives(t.tseg2, 8, 8, 4) /\ Survives(t.sjw, 8, 0, 4)
  BY <1>5, FieldsHoldTheirRange
<1>7. /\ a \subseteq 24 .. 31 /\ Field(a, 24, 8) + 1 = t.brp
      /\ b \subseteq 16 .. 20 /\ Field(b, 16, 5) + 1 = t.tseg1
      /\ c \subseteq 8 .. 11 /\ Field(c, 8, 4) + 1 = t.tseg2
      /\ d \subseteq 0 .. 3 /\ Field(d, 0, 4) + 1 = t.sjw
  BY <1>1, <1>2, <1>3, <1>4, <1>6 DEF Survives
<1>8. DbtCfg(t) = a \cup b \cup c \cup d  BY <1>1, <1>2, <1>3, <1>4 DEF DbtCfg
<1>9. /\ DbtCfg(t) \cap (24 .. 24 + 8 - 1) = a \cap (24 .. 24 + 8 - 1)
      /\ DbtCfg(t) \cap (16 .. 16 + 5 - 1) = b \cap (16 .. 16 + 5 - 1)
      /\ DbtCfg(t) \cap (8 .. 8 + 4 - 1) = c \cap (8 .. 8 + 4 - 1)
      /\ DbtCfg(t) \cap (0 .. 0 + 4 - 1) = d \cap (0 .. 0 + 4 - 1)
  BY <1>7, <1>8
<1>10. Field(DbtCfg(t), 24, 8) = Field(a, 24, 8)  BY <1>9, FieldLocal
<1>11. Field(DbtCfg(t), 16, 5) = Field(b, 16, 5)  BY <1>9, FieldLocal
<1>12. Field(DbtCfg(t), 8, 4) = Field(c, 8, 4)  BY <1>9, FieldLocal
<1>13. Field(DbtCfg(t), 0, 4) = Field(d, 0, 4)  BY <1>9, FieldLocal
<1>. QED  BY <1>7, <1>10, <1>11, <1>12, <1>13

(* After Ok of an init whose opening RESET took effect, the chip runs at   *)
(* the rates of this configuration and of no earlier one, as it reads its  *)
(* registers, the sample point of the data phase included, for every       *)
(* configuration that validate accepts.  The argument needs that such a    *)
(* chip never leaves Configuration mode until the call returns, so that    *)
(* none of the timing writes is ignored.  Bit rate switching is right      *)
(* whether RESET took effect or not.                                       *)
THEOREM TimingIsInForce == Spec => []TimingInForce
<1>1. BringInv => TimingInForce
  <2>. SUFFICES ASSUME BringInv, ret = "Ok" PROVE TimingInForce  BY DEF TimingInForce
  <2>1. Done  BY DEF Done, BringInv, BringType
  <2>2. config \in Configs /\ Valid(config)  BY <2>1 DEF BringInv, BringType
  <2>3. /\ config.clock \in ClockType /\ config.nominal \in TimingType
        /\ HasData(config) => config.data[1] \in TimingType
    BY <2>2, ConfigFacts
  <2>4. /\ chip.con = ConWord
        /\ ~chip.stale => /\ chip.nbtcfg = NbtCfg(config.nominal) /\ chip.tdc = TdcWord
                          /\ HasData(config) => chip.dbtcfg = DbtCfg(config.data[1])
    BY <2>1 DEF BringInv, WordInv, Since
  <2>5. ChipSysclk = sysclk_hz(config.clock)
    <3>1. (0 \in chip.osc <=> config.clock.pll) /\ (4 \in chip.osc <=> config.clock.sclk_div2)
      BY <2>1 DEF BringInv, OscInv, Since
    <3>2. (0 \in chip.osc) = config.clock.pll /\ (4 \in chip.osc) = config.clock.sclk_div2
      BY <2>3, <3>1 DEF ClockType
    <3>3. [config.clock EXCEPT !.pll = 0 \in chip.osc, !.sclk_div2 = 4 \in chip.osc] = config.clock
      BY <2>3, <3>2 DEF ClockType
    <3>. QED  BY <3>3 DEF ChipSysclk
  <2>6. ChipSysclk \in SysclkRange  BY <2>2, <2>5 DEF Valid, ValidClock
  <2>7. ASSUME ~chip.stale PROVE ChipNominal = config.nominal
    <3>1. ValidNominal(config.nominal)  BY <2>2 DEF Valid
    <3>2. ChipNominal = Timing(config.nominal.brp, config.nominal.tseg1,
                               config.nominal.tseg2, config.nominal.sjw)
      BY <2>3, <2>4, <2>7, <3>1, NominalReadsBack DEF ChipNominal
    <3>. QED  BY <2>3, <3>2 DEF Timing, TimingType
  <2>8. ASSUME HasData(config), ~chip.stale
        PROVE  /\ ChipData = config.data[1] /\ Compensates
               /\ ChipTdco = ChipData.brp * ChipData.tseg1
    <3>1. PICK t : t = config.data[1]  OBVIOUS
    <3>2. t \in TimingType /\ ValidData(t)  BY <2>2, <2>3, <2>8, <3>1 DEF Valid, HasData
    <3>3. ChipData = Timing(t.brp, t.tseg1, t.tseg2, t.sjw)
      BY <2>4, <2>8, <3>1, <3>2, DataReadsBack DEF ChipData
    <3>4. ChipData = t  BY <3>2, <3>3 DEF Timing, TimingType
    <3>5. tdco(t) = t.brp * t.tseg1 /\ t.brp * t.tseg1 \in 0 .. 63
      <4>1. t.brp \in Nat /\ t.tseg1 \in Nat /\ t.brp * t.tseg1 <= 63
        BY <3>2 DEF TimingType, ValidData, tdco_fits
      <4>2. t.brp * t.tseg1 \in Nat  BY <4>1, SMT
      <4>3. PICK offset : offset = t.brp * t.tseg1  OBVIOUS
      <4>4. offset \in 0 .. 63
        <5>1. offset \in Nat /\ offset <= 63  BY <4>1, <4>2, <4>3, Zenon
        <5>. QED  BY <5>1, SMT
      <4>5. tdco(t) = offset  BY <4>1, <4>3 DEF tdco, tdco_fits
      <4>. QED  BY <4>3, <4>4, <4>5
    <3>6. chip.tdc = AutoTdc(t.brp * t.tseg1)  BY <2>4, <2>8, <3>1, <3>5 DEF TdcWord
    <3>7. Compensates /\ Field(chip.tdc, 8, 7) = t.brp * t.tseg1
      BY <3>5, <3>6, OffsetsSurvive DEF Compensates
    <3>8. ChipTdco = t.brp * t.tseg1  BY <3>5, <3>7 DEF ChipTdco
    <3>. QED  BY <3>1, <3>4, <3>7, <3>8
  <2>9. ASSUME ~HasData(config), ~chip.stale PROVE ~Compensates
    <3>1. TdcWord = {}  BY <2>9 DEF TdcWord
    <3>. QED  BY <2>4, <2>9, <3>1, OffsetsSurvive DEF Compensates
  <2>10. Switches = HasData(config)
    <3>1. ConWord = With({5}, 12, ~HasData(config))  BY DEF ConWord, With, ISOCRCEN, BRSDIS
    <3>2. 12 \in ConWord <=> ~HasData(config)  BY <3>1 DEF With
    <3>. QED  BY <2>4, <3>2 DEF Switches, HasData
  <2>11. ~chip.stale => Compensates = HasData(config)
    <3>1. Compensates \in BOOLEAN  BY DEF Compensates, AutoMode
    <3>2. HasData(config) \in BOOLEAN  BY DEF HasData
    <3>. QED  BY <2>8, <2>9, <3>1, <3>2
  <2>. QED  BY <2>5, <2>6, <2>7, <2>8, <2>10, <2>11 DEF TimingInForce
<1>. QED  BY <1>1, BringAlways, PTL
=============================================================================
