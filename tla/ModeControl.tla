---------------------------- MODULE ModeControl ----------------------------
(***************************************************************************)
(* The operation modes: set_mode, apply_layout, configure_interrupts,      *)
(* interrupt_flags with clear_interrupts after it, and                     *)
(* recover_system_error, one action per SPI transaction, against a         *)
(* controller that changes modes in its own time and is parked by system   *)
(* errors.                                                                 *)
(***************************************************************************)
EXTENDS Integers, FiniteSets

CONSTANTS
  Modes,         \* the modes the application asks for
  Calls,         \* the driver calls the application makes
  Fifos,         \* number of FIFOs in the layout, written in order 1 .. Fifos
  MaxPolls,      \* bound: polls of OPMOD in set_mode (80 in the code)
  MaxSysErrors,  \* bound: system errors
  MaxFaults,     \* bound: failed SPI transactions
  Faults         \* how an SPI transaction may fail: {"lost", "late"}

AllModes == {"NormalFd", "Normal20", "Sleep", "InternalLoopback", "ListenOnly",
             "Configuration", "ExternalLoopback", "RestrictedOperation"}
ErrorModes == {"RestrictedOperation", "ListenOnly"}  \* one of them, by SERR2LOM
Normal == {"NormalFd", "Normal20"}
Debug  == {"InternalLoopback", "ExternalLoopback"}
AllCalls == {"set_mode", "apply_layout", "clear_interrupts", "configure_interrupts",
             "recover"}
Flags == {"SERRIF", "MODIF", "IVMIF"}
None == "none"

ASSUME ModeAssumption ==
  /\ Modes \subseteq AllModes /\ Calls \subseteq AllCalls
  /\ Fifos \in Nat /\ MaxPolls \in Nat \ {0}
  /\ MaxSysErrors \in Nat /\ MaxFaults \in Nat
  /\ Faults \subseteq {"lost", "late"}

VARIABLES
  pc, op, ret,            \* the driver: where it is, its locals, its last result
  opmod, pend,            \* the chip: mode, mode requested by REQOP
  flags, enables,         \* the chip: the halves of C1INT
  applied, byError,       \* the chip: FIFOs that took the layout; parked by error
  calm,                   \* history: no mode change was due when the call began
  armed, unseen,          \* history: SERRIE set with Ok; a system error not seen yet
  sysErrors, faults       \* bounds

driverVars == <<pc, op, ret>>
chipVars   == <<opmod, pend, flags, enables, applied, byError>>
hist       == <<calm, armed, unseen>>
bounds     == <<sysErrors, faults>>
vars       == <<driverVars, chipVars, hist, bounds>>

(* OPMOD as it reads: Configuration while the chip is asleep. *)
OpMod == IF opmod = "Sleep" THEN "Configuration" ELSE opmod

-----------------------------------------------------------------------------
NoOp == [call |-> None, mode |-> None, polls |-> 0, next |-> 1, bits |-> {}]

Init ==
  /\ pc = "idle" /\ op = NoOp /\ ret = [call |-> None, mode |-> None, res |-> None]
  /\ opmod = "Configuration" /\ pend = None                    \* as init leaves it
  /\ flags = {} /\ enables = {} /\ armed = FALSE /\ unseen = FALSE
  /\ applied = {} /\ byError = FALSE /\ calm = TRUE
  /\ sysErrors = 0 /\ faults = 0

Call(c, o, first) ==
  /\ pc = "idle" /\ c \in Calls
  /\ pc' = first /\ op' = [o EXCEPT !.call = c]
  /\ calm' = (pend = None /\ opmod # "Sleep")
  /\ armed' = (armed /\ c # "configure_interrupts")
  /\ UNCHANGED <<ret, unseen, bounds>>

SetMode(m) == Call("set_mode", [NoOp EXCEPT !.mode = m], "read_con")
              /\ UNCHANGED chipVars
Recover(m) == Call("recover", [NoOp EXCEPT !.mode = m], "check_parked")
              /\ UNCHANGED chipVars
ClearInterrupts == Call("clear_interrupts", NoOp, "read_int") /\ UNCHANGED chipVars
ConfigureInterrupts(fs) ==
  Call("configure_interrupts", [NoOp EXCEPT !.bits = fs], "enable2") /\ UNCHANGED chipVars
(* What counts as applied is what this call writes. *)
ApplyLayout == Call("apply_layout", NoOp, "check_config") /\ applied' = {}
               /\ UNCHANGED <<opmod, pend, flags, enables, byError>>

Return(res) ==
  /\ pc' = "idle" /\ op' = NoOp
  /\ ret' = [call |-> op.call, mode |-> op.mode, res |-> res]

Goto(p) == pc' = p /\ UNCHANGED <<op, ret>>

-----------------------------------------------------------------------------
(* What the chip does with each write. *)

RequestMode == pend' = op.mode /\ UNCHANGED <<opmod, flags, enables, applied, byError>>

(* Bytes 0 and 1 of C1INT, the flags, are cleared by writing 0; bytes 2    *)
(* and 3 are the enables.  MODIF is in the first of each half.             *)
Byte0 == {"MODIF"}
Byte1 == {"SERRIF", "IVMIF"}

ClearByteAll(byte) == flags' = flags \ byte          \* mutant
                      /\ UNCHANGED <<opmod, pend, enables, applied, byError>>
ClearByte(byte) == flags' = flags \ (op.bits \cap byte)
                   /\ UNCHANGED <<opmod, pend, enables, applied, byError>>
EnableByte(byte) == enables' = (enables \ byte) \cup (op.bits \cap byte)
                    /\ UNCHANGED <<opmod, pend, flags, applied, byError>>

(* CiFIFOCON is write-protected outside Configuration mode. *)
WriteFifoCon == applied' = (IF opmod = "Configuration" THEN applied \cup {op.next}
                                                       ELSE applied)
                /\ UNCHANGED <<opmod, pend, flags, enables, byError>>

(* The write a program point makes. *)
Effect ==
  \/ pc = "write_con" /\ RequestMode
  \/ pc = "clear0" /\ ClearByte(Byte0)
  \/ pc = "clear1" /\ ClearByte(Byte1)
  \/ pc = "enable2" /\ EnableByte(Byte0)
  \/ pc = "enable3" /\ EnableByte(Byte1)
  \/ pc = "write_fifo" /\ op.next <= Fifos /\ WriteFifoCon

Reads == {"read_con", "poll", "check_parked", "check_config", "read_int"}

(* An SPI transaction fails before it took effect, or after. *)
SpiFails ==
  /\ pc # "idle" /\ Faults # {} /\ faults < MaxFaults
  /\ pc = "poll" => op.polls > 0
  /\ pc = "write_fifo" => op.next <= Fifos
  /\ \/ UNCHANGED chipVars /\ (pc \in Reads \/ "lost" \in Faults)
     \/ Effect /\ "late" \in Faults
  /\ faults' = faults + 1
  /\ Return("spi")
  /\ UNCHANGED <<hist, sysErrors>>

-----------------------------------------------------------------------------
(* set_mode *)

ReadCon == pc = "read_con" /\ Goto("write_con") /\ UNCHANGED <<chipVars, hist, bounds>>

(* recover_system_error goes on with clear_interrupts and set_mode, in     *)
(* that order: the flags are cleared before the mode is requested.         *)
RecoverOrderModeFirst == <<"read_con", "clear0">>   \* mutant
RecoverOrder == <<"clear0", "read_con">>

(* What follows clear_interrupts or set_mode, by the first point of it. *)
Finish(first) ==
  IF op.call = "recover" /\ first = RecoverOrder[1] THEN Goto(RecoverOrder[2])
                                                    ELSE Return("ok")

(* Sleep is not polled for: OPMOD could not show it. *)
WriteCon ==
  /\ pc = "write_con" /\ Effect
  /\ IF op.mode = "Sleep" THEN Finish("read_con")
     ELSE pc' = "poll" /\ op' = [op EXCEPT !.polls = MaxPolls] /\ UNCHANGED ret
  /\ UNCHANGED <<hist, bounds>>

PollOk ==
  /\ pc = "poll" /\ op.polls > 0 /\ OpMod = op.mode
  /\ Finish("read_con")
  /\ UNCHANGED <<chipVars, hist, bounds>>

PollAgain ==
  /\ pc = "poll" /\ op.polls > 0 /\ OpMod # op.mode
  /\ op' = [op EXCEPT !.polls = @ - 1] /\ UNCHANGED <<pc, ret>>
  /\ UNCHANGED <<chipVars, hist, bounds>>

(* mutant: an unanswered request reported as done *)
PollTimeoutOk ==
  /\ pc = "poll" /\ op.polls = 0
  /\ Return("ok")
  /\ UNCHANGED <<chipVars, hist, bounds>>

(* The request stays with the chip. *)
PollTimeout ==
  /\ pc = "poll" /\ op.polls = 0
  /\ Return("timeout")
  /\ UNCHANGED <<chipVars, hist, bounds>>

-----------------------------------------------------------------------------
(* recover_system_error and clear_interrupts *)

Parked == OpMod \in {"RestrictedOperation", "ListenOnly"}

NotParked ==
  /\ pc = "check_parked" /\ ~Parked
  /\ Return("false")
  /\ UNCHANGED <<chipVars, hist, bounds>>

IsParked ==
  /\ pc = "check_parked" /\ Parked
  /\ pc' = RecoverOrder[1] /\ op' = [op EXCEPT !.bits = Flags] /\ UNCHANGED ret
  /\ unseen' = FALSE
  /\ UNCHANGED <<chipVars, calm, armed, bounds>>

(* The application clears what it has just read.                           *)
ReadInt ==
  /\ pc = "read_int"
  /\ pc' = "clear0" /\ op' = [op EXCEPT !.bits = flags] /\ UNCHANGED ret
  /\ unseen' = FALSE
  /\ UNCHANGED <<chipVars, calm, armed, bounds>>

Clear0 == pc = "clear0" /\ Effect /\ Goto("clear1") /\ UNCHANGED <<hist, bounds>>

Clear1 ==
  /\ pc = "clear1" /\ Effect
  /\ Finish("clear0")
  /\ UNCHANGED <<hist, bounds>>

Enable2 == pc = "enable2" /\ Effect /\ Goto("enable3") /\ UNCHANGED <<hist, bounds>>

Enable3 ==
  /\ pc = "enable3" /\ Effect
  /\ Return("ok")
  /\ armed' = ("SERRIF" \in op.bits)
  /\ UNCHANGED <<calm, unseen, bounds>>

-----------------------------------------------------------------------------
(* apply_layout *)

NotInConfig ==
  /\ pc = "check_config" /\ OpMod # "Configuration"
  /\ Return("not_config")
  /\ UNCHANGED <<chipVars, hist, bounds>>

(* mutant: the check is missing *)
InConfigUnchecked ==
  /\ pc = "check_config"
  /\ Goto("write_fifo")
  /\ UNCHANGED <<chipVars, hist, bounds>>

InConfig ==
  /\ pc = "check_config" /\ OpMod = "Configuration"
  /\ Goto("write_fifo")
  /\ UNCHANGED <<chipVars, hist, bounds>>

WriteFifo ==
  /\ pc = "write_fifo" /\ op.next <= Fifos /\ Effect
  /\ op' = [op EXCEPT !.next = @ + 1] /\ UNCHANGED <<pc, ret>>
  /\ UNCHANGED <<hist, bounds>>

LayoutDone ==
  /\ pc = "write_fifo" /\ op.next > Fifos
  /\ Return("ok")
  /\ UNCHANGED <<chipVars, hist, bounds>>

-----------------------------------------------------------------------------
(* The controller. *)

(* There is no direct way between the Normal modes, nor between the debug  *)
(* modes; a request for one stays unanswered.                              *)
CanSwitch(from, to) ==
  \/ from = to
  \/ ~({from, to} \subseteq Normal) /\ ~({from, to} \subseteq Debug)

ModeChange ==
  /\ pend # None /\ CanSwitch(opmod, pend)
  /\ opmod' = pend /\ pend' = None
  /\ flags' = IF opmod = pend THEN flags ELSE flags \cup {"MODIF"}
  /\ byError' = (byError /\ opmod = pend)
  /\ UNCHANGED <<driverVars, enables, applied, hist, bounds>>

SystemError ==
  /\ opmod \in Normal /\ sysErrors < MaxSysErrors
  /\ opmod' \in ErrorModes /\ byError' = TRUE
  /\ flags' = flags \cup {"SERRIF", "MODIF"}
  /\ sysErrors' = sysErrors + 1
  (* seen already, when a flag that was read before is about to be cleared *)
  /\ unseen' = ~(pc \in {"clear0", "clear1"} /\ "SERRIF" \in op.bits)
  /\ UNCHANGED <<driverVars, pend, enables, applied, calm, armed, faults>>

-----------------------------------------------------------------------------
Application ==
  \/ \E m \in Modes : SetMode(m)
  \/ \E m \in Modes \cap Normal : Recover(m)    \* as its doc asks
  \/ ClearInterrupts
  \/ \E fs \in {{}, {"MODIF", "SERRIF"}} : ConfigureInterrupts(fs)
  \/ ApplyLayout

Driver ==
  \/ ReadCon \/ WriteCon \/ PollOk \/ PollAgain \/ PollTimeout
  \/ NotParked \/ IsParked \/ ReadInt \/ Clear0 \/ Clear1 \/ Enable2 \/ Enable3
  \/ NotInConfig \/ InConfig \/ WriteFifo \/ LayoutDone
  \/ SpiFails

Chip == ModeChange \/ SystemError

Next == Application \/ Driver \/ Chip

Spec == Init /\ [][Next]_vars

-----------------------------------------------------------------------------
(* After set_mode or recover_system_error returned success, the chip is in *)
(* the mode asked for, and no other mode change is still due: the mode     *)
(* moves only by a system error or by the next call.                       *)
OkSettles ==
  pc = "idle" /\ ret.call \in {"set_mode", "recover"} /\ ret.res = "ok"
  /\ ret.mode # "Sleep"
     => pend \in {None, ret.mode} /\ (OpMod = ret.mode \/ byError)

(* After a recovery that reported success, a chip that is parked again     *)
(* says so: SERRIF is set, because the flags were cleared before the mode  *)
(* was requested and not after.                                            *)
SecondErrorVisible ==
  pc = "idle" /\ ret.call = "recover" /\ ret.res = "ok" /\ byError
     => "SERRIF" \in flags

(* apply_layout that returned Ok has configured every FIFO, provided that  *)
(* no mode request was outstanding when it was called (one from a set_mode *)
(* that timed out, or failed, may be granted between the check of OPMOD    *)
(* and the writes) and that the chip was not asleep, which reads as        *)
(* Configuration.                                                          *)
LayoutApplied ==
  pc = "idle" /\ ret.call = "apply_layout" /\ ret.res = "ok" /\ calm
     => applied = 1 .. Fifos

(* Once configure_interrupts returned Ok with SERRIE, nINT is low while    *)
(* the chip is parked by an error the application has not seen: clearing   *)
(* the flags it read before does not wipe out one raised since.  (An error *)
(* that raises SERRIF again, after it was read and before it is cleared,   *)
(* counts as seen: the chip keeps one bit for both.)                       *)
AlarmStands ==
  pc = "idle" /\ armed /\ byError /\ unseen => flags \cap enables # {}
=============================================================================
