------------------------------ MODULE BringUp ------------------------------
(***************************************************************************)
(* init: from a controller in any state to one in Configuration mode, one  *)
(* action per SPI transaction.  The application may call init again after  *)
(* any outcome, with another configuration.  The registers of oscillator,  *)
(* bit timing and CiCON are words; the modes and the readiness of clocks,  *)
(* which the chip changes, are kept apart from them.                       *)
(***************************************************************************)
EXTENDS BitTiming, Sequences

CONSTANTS
  Configs,     \* the configurations init is called with, good and bad
  Variants,    \* the chips: {"Mcp2517Fd", "Mcp2518Fd"}
  WarmModes,   \* the modes the chip may be in when init is called
  WiringFails, \* whether the RAM echo may come back wrong: SUBSET BOOLEAN
  Blocks,      \* 64-byte blocks of message RAM (32 on the chip)
  MaxPolls,    \* polls of OSC (40 in the code) and of OPMOD (80)
  SlowClocks,  \* whether oscillator or PLL may outlast the polls of OSC (4 ms)
  MaxFaults,   \* bound: failed SPI transactions
  Faults       \* how an SPI transaction may fail: {"lost", "late"}

ASSUME BringUpAssumption ==
  /\ Variants \subseteq {"Mcp2517Fd", "Mcp2518Fd"} /\ WiringFails \subseteq BOOLEAN
  /\ SlowClocks \subseteq BOOLEAN
  /\ Blocks \in Nat \ {0} /\ MaxPolls \in Nat \ {0} /\ MaxFaults \in Nat
  /\ Faults \subseteq {"lost", "late"}

(* What the types of Config, ClockConfig and the bit timings let through.  *)
ClockType  == [xtal_hz : Nat, pll : BOOLEAN, sclk_div2 : BOOLEAN]
TimingType == [brp : Nat, tseg1 : Nat, tseg2 : Nat, sjw : Nat]
ConfigType == [clock : ClockType, nominal : TimingType, data : Seq(TimingType)]

ASSUME ConfigsAssumption == \A c \in Configs : c \in ConfigType /\ Len(c.data) <= 1

VARIABLES
  pc, op, ret,       \* the driver: program point, locals of init, last result
  config,            \* the driver: argument of the last init
  seqMask,           \* the driver: bits of a sequence number
  chip,              \* the controller
  variant,           \* which chip it is
  broken, slow,      \* whether the wiring is bad, and the clock slow
  faults             \* bound
vars  == <<pc, op, ret, config, seqMask, chip, variant, broken, slow, faults>>
world == <<variant, broken, slow>>

seq_mask(v) == IF v = "Mcp2518Fd" THEN 23 ELSE 7

HasData(c) == c.data # <<>>

(* Registers after a reset; the message RAM holds anything. *)
ResetState ==
  [mode |-> "Configuration", pend |-> "none", stale |-> FALSE, used |-> 1 .. Blocks,
   osc |-> {5, 6}, oscReady |-> TRUE, pllReady |-> FALSE,
   nbtcfg |-> {}, dbtcfg |-> {}, tdc |-> {17, 12}, con |-> {5}, ints |-> FALSE]

(* A chip an earlier program left running: other registers, FIFOs, flags.  *)
Warm(m) == [ResetState EXCEPT !.mode = m, !.stale = TRUE, !.ints = TRUE, !.osc = {LPMEN}]

NoOp == [left |-> 0, block |-> 1, found |-> "none"]

Init ==
  /\ pc = "idle" /\ op = NoOp /\ ret = "none" /\ config \in Configs
  /\ seqMask = 7                  \* MCP251xFd::new assumes the MCP2517FD
  /\ variant \in Variants /\ broken \in WiringFails /\ slow \in SlowClocks /\ faults = 0
  /\ chip \in {ResetState} \cup {Warm(m) : m \in WarmModes}

-----------------------------------------------------------------------------
(* The words init writes. *)

OscWord == WithField(With(With({}, PLLEN, config.clock.pll), SCLKDIV, config.clock.sclk_div2),
                     CLKODIV, 2, 3)
AutoTdc(offset) == With(with_tdco(with_mode({}, "Auto"), offset), EDGFLTEN, TRUE)
TdcWord == IF HasData(config) THEN AutoTdc(tdco(config.data[1])) ELSE {}
ConWord == With(With({}, ISOCRCEN, TRUE), BRSDIS, ~HasData(config))

(* LPMEN is not implemented on the MCP2517FD. *)
WriteOsc(word) == [chip EXCEPT !.osc = IF variant = "Mcp2518Fd" THEN word ELSE word \ {LPMEN}]

(* What a write does to the chip: the chips it may leave.  "Configuration  *)
(* mode -- required for layout/timing changes": in another mode the chip   *)
(* may ignore the bit timings, which init writes before it asks for the    *)
(* mode.                                                                   *)
Guarded(c) == IF chip.mode = "Configuration" THEN {c} ELSE {c, chip}

Written(p) ==
  CASE p = "reset" -> IF chip.mode = "Configuration" THEN {ResetState}
                      ELSE {ResetState, chip}     \* not guaranteed in other modes
    [] p = "echo_write" -> {[chip EXCEPT !.used = @ \cup {Blocks}]}
    [] p = "osc" -> {[WriteOsc(OscWord) EXCEPT !.oscReady = FALSE, !.pllReady = FALSE]}
    [] p = "lpmen" -> {WriteOsc(With(OscWord, LPMEN, TRUE))}
    [] p = "osc_back" -> {WriteOsc(OscWord)}
    [] p = "zero" -> {[chip EXCEPT !.used = @ \ {op.block}]}
    [] p = "nbtcfg" -> Guarded([chip EXCEPT !.nbtcfg = NbtCfg(config.nominal)])
    [] p = "dbtcfg" -> Guarded([chip EXCEPT !.dbtcfg = DbtCfg(config.data[1])])
    [] p = "tdc" -> Guarded([chip EXCEPT !.tdc = TdcWord])
    [] p = "con" -> {[chip EXCEPT !.con = ConWord, !.pend = "Configuration"]}
    [] p = "int" -> {[chip EXCEPT !.ints = FALSE]}
    [] OTHER -> {chip}

Writes == {"reset", "echo_write", "osc", "lpmen", "osc_back", "zero",
           "nbtcfg", "dbtcfg", "tdc", "con", "int"}
Reads  == {"echo_read", "osc_poll", "variant", "mode_poll"}

LastBlock == op.block = Blocks

(* The program point after a write. *)
After(p) ==
  CASE p = "reset" -> "echo_write"    [] p = "echo_write" -> "echo_read"
    [] p = "osc" -> "osc_poll"        [] p = "lpmen" -> "variant"
    [] p = "osc_back" -> "zero"
    [] p = "zero" -> IF LastBlock THEN "nbtcfg" ELSE "zero"
    [] p = "nbtcfg" -> IF HasData(config) THEN "dbtcfg" ELSE "tdc"
    [] p = "dbtcfg" -> "tdc"          [] p = "tdc" -> "con"
    [] p = "con" -> "mode_poll"

-----------------------------------------------------------------------------
Return(res) == pc' = "idle" /\ ret' = res /\ op' = NoOp
Goto(p) == pc' = p /\ UNCHANGED <<op, ret>>
Poll == op' = [op EXCEPT !.left = @ - 1] /\ UNCHANGED <<pc, ret>>

InitDriver(c) ==
  /\ pc = "idle"
  /\ config' = c
  /\ IF Valid(c) THEN pc' = "reset" /\ op' = NoOp /\ ret' = "none"
                 ELSE Return("InvalidConfig")
  /\ UNCHANGED <<seqMask, chip, world, faults>>

Write ==
  /\ pc \in Writes /\ chip' \in Written(pc)
  /\ IF pc = "int" THEN Return("Ok")
     ELSE /\ pc' = After(pc)
          /\ op' = CASE pc \in {"osc", "con"} -> [op EXCEPT !.left = MaxPolls]
                     [] pc = "zero" -> [op EXCEPT !.block = @ + 1]
                     [] OTHER -> op
          /\ UNCHANGED ret
  (* the mask is taken over once OSC is restored *)
  /\ seqMask' = IF pc = "osc_back" THEN seq_mask(op.found) ELSE seqMask
  /\ UNCHANGED <<config, world, faults>>

(* A transaction fails before or after the chip took it. *)
SpiFails ==
  /\ pc \in Writes \cup Reads /\ (pc \in {"osc_poll", "mode_poll"} => op.left > 0)
  /\ faults < MaxFaults /\ faults' = faults + 1
  /\ \/ Faults # {} /\ (pc \in Reads \/ "lost" \in Faults) /\ UNCHANGED chip
     \/ "late" \in Faults /\ pc \in Writes /\ chip' \in Written(pc)
  /\ Return("Spi")
  /\ UNCHANGED <<config, seqMask, world>>

(* The echo does not come back through bad wiring, or while RAM is asleep. *)
EchoRead ==
  /\ pc = "echo_read"
  /\ IF broken \/ chip.mode = "Sleep" THEN Return("CommunicationCheckFailed")
                                      ELSE Goto("osc")
  /\ UNCHANGED <<config, seqMask, chip, world, faults>>

ClockReadyPll == chip.oscReady /\ chip.pllReady     \* mutant
ClockReady == chip.oscReady /\ (config.clock.pll => chip.pllReady)

OscPoll ==
  /\ pc = "osc_poll"
  /\ \/ op.left > 0 /\ ClockReady /\ Goto("lpmen")
     \/ op.left > 0 /\ ~ClockReady /\ (slow \/ op.left > 1) /\ Poll
     \/ op.left = 0 /\ Return("ClockNotReady")
  /\ UNCHANGED <<config, seqMask, chip, world, faults>>

(* mutant: the probe is not read back *)
VariantAssumed ==
  /\ pc = "variant" /\ pc' = "osc_back"
  /\ op' = [op EXCEPT !.found = "Mcp2518Fd"]
  /\ UNCHANGED <<ret, config, seqMask, chip, world, faults>>

(* LPMEN reads back set on the MCP2518FD only. *)
Variant ==
  /\ pc = "variant" /\ pc' = "osc_back"
  /\ op' = [op EXCEPT !.found = IF LPMEN \in chip.osc THEN "Mcp2518Fd" ELSE "Mcp2517Fd"]
  /\ UNCHANGED <<ret, config, seqMask, chip, world, faults>>

InConfigAlways == TRUE                               \* mutant
InConfig == chip.mode = "Configuration"

ModePoll ==
  /\ pc = "mode_poll"
  /\ \/ op.left > 0 /\ InConfig /\ Goto("int")
     \/ op.left > 0 /\ ~InConfig /\ Poll
     \/ op.left = 0 /\ Return("ModeChangeTimeout")
  /\ UNCHANGED <<config, seqMask, chip, world, faults>>

-----------------------------------------------------------------------------
(* The controller, in its own time. *)

ClockStarts ==
  /\ \/ ~chip.oscReady /\ chip' = [chip EXCEPT !.oscReady = TRUE]
     \/ 0 \in chip.osc /\ ~chip.pllReady /\ chip' = [chip EXCEPT !.pllReady = TRUE]
  /\ UNCHANGED <<pc, op, ret, config, seqMask, world, faults>>

ModeChange ==
  /\ chip.pend # "none" /\ chip' = [chip EXCEPT !.mode = chip.pend, !.pend = "none"]
  /\ UNCHANGED <<pc, op, ret, config, seqMask, world, faults>>

(* A warm chip still takes frames into its RAM and raises flags. *)
FrameStored ==
  /\ chip.mode \in {"NormalFd", "ListenOnly"}
  /\ chip' = [chip EXCEPT !.used = @ \cup {1}, !.ints = TRUE]
  /\ UNCHANGED <<pc, op, ret, config, seqMask, world, faults>>

-----------------------------------------------------------------------------
Driver == Write \/ SpiFails \/ EchoRead \/ OscPoll \/ Variant \/ ModePoll
Chip == ClockStarts \/ ModeChange \/ FrameStored
Next == (\E c \in Configs : InitDriver(c)) \/ Driver \/ Chip

Spec == Init /\ [][Next]_vars

(* Clocks start, mode requests are granted, calls make their steps, and a  *)
(* failed init is called again with a valid configuration.                 *)
RetrySpec ==
  /\ Init /\ [][Next]_vars
  /\ WF_vars(Driver) /\ WF_vars(ClockStarts) /\ WF_vars(ModeChange)
  /\ WF_vars(\E c \in Configs : Valid(c) /\ InitDriver(c))

-----------------------------------------------------------------------------
(* The controller's reading of its registers. *)
ChipSysclk == sysclk_hz([config.clock EXCEPT !.pll = 0 \in chip.osc, !.sclk_div2 = 4 \in chip.osc])
ChipNominal == Timing(Field(chip.nbtcfg, 24, 8) + 1, Field(chip.nbtcfg, 16, 8) + 1,
                      Field(chip.nbtcfg, 8, 7) + 1, Field(chip.nbtcfg, 0, 7) + 1)
ChipData == Timing(Field(chip.dbtcfg, 24, 8) + 1, Field(chip.dbtcfg, 16, 5) + 1,
                   Field(chip.dbtcfg, 8, 4) + 1, Field(chip.dbtcfg, 0, 4) + 1)
ChipTdco == LET v == Field(chip.tdc, 8, 7) IN IF v < 64 THEN v ELSE v - 128
Switches == 12 \notin chip.con
AutoMode(word) == Field(word, 16, 2) = 2
Compensates == AutoMode(chip.tdc)

(* The chip reads the offsets that fit as the driver means them.           *)
ASSUME OffsetsSurvive ==
  /\ \A v \in 0 .. 63 : AutoMode(AutoTdc(v)) /\ Field(AutoTdc(v), 8, 7) = v
  /\ ~AutoMode({})

(* init that returned Ok leaves the chip as its doc says, whatever mode    *)
(* the chip was in and whatever earlier calls of init failed half-way: in  *)
(* Configuration mode with no request outstanding elsewhere, oscillator    *)
(* and PLL running, LPMEN off again, interrupt flags and enables clear.    *)
(* When the opening RESET took effect (the chip was in Configuration mode) *)
(* also a message RAM of zeroes.                                           *)
OkMeansReady == ret = "Ok" =>
  /\ chip.mode = "Configuration" /\ chip.pend \in {"none", "Configuration"}
  /\ chip.oscReady /\ (0 \in chip.osc => chip.pllReady) /\ 3 \notin chip.osc /\ ~chip.ints
  /\ ~chip.stale => chip.used = {}

(* After Ok of an init whose opening RESET took effect the chip runs at    *)
(* the rates of this configuration and of no earlier one, as it reads its  *)
(* registers: SYSCLK in its range, nominal timing as asked; with a data    *)
(* timing also that one, and the secondary sample point at the sample      *)
(* point of the data phase.  Earlier inits may have failed anywhere.       *)
(* Bit rate switching is on exactly with a data timing, whatever mode the  *)
(* chip was in.  The premise is the one the doc of init puts to its        *)
(* caller: if RESET was ignored the chip may ignore the timings too, and   *)
(* the final poll of the mode, which does notice a chip that stayed in its *)
(* mode, does not notice timings written before the mode was granted.      *)
TimingInForce == ret = "Ok" =>
  /\ Switches = HasData(config)
  /\ ~chip.stale =>
       /\ ChipSysclk = sysclk_hz(config.clock) /\ ChipSysclk \in SysclkRange
       /\ ChipNominal = config.nominal /\ Compensates = HasData(config)
       /\ HasData(config) => /\ ChipData = config.data[1]
                             /\ ChipTdco = ChipData.brp * ChipData.tseg1

(* The driver never writes more sequence bits than the chip's TX object    *)
(* has, at any moment of bring-up and after any failure of it; after Ok it *)
(* uses all of them.                                                       *)
SeqMaskFits ==
  /\ seqMask <= seq_mask(variant)
  /\ ret = "Ok" => seqMask = seq_mask(variant)

(* A chip with sound wiring and clock that is not asleep comes up, if init *)
(* is called again after it failed: no half-done init keeps the next one   *)
(* from succeeding.                                                        *)
ComesUp == ~broken /\ ~slow /\ chip.mode # "Sleep" => <>(ret = "Ok")

(* The doc of transmit_fd says of the brs flag that BRSDIS stays clear.    *)
BrsdisStaysClear == ret = "Ok" => Switches
=============================================================================
