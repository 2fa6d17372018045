-------------------------- MODULE StallWatchProofs --------------------------
(***************************************************************************)
(* Proofs about ModeControl and about StallWatch, which extends it.        *)
(*                                                                         *)
(* ModeControl: what the results of the mode and interrupt calls mean, for *)
(* any set of modes and calls, any number of FIFOs, polls, system errors   *)
(* and failing transactions.                                               *)
(*                                                                         *)
(* StallWatch: while no call has failed, where core 1 is in its cycle says *)
(* what mode the chip is in and how far the counters are; for every number *)
(* of FIFOs, polls, system errors, faults, rounds and phases.              *)
(***************************************************************************)
EXTENDS StallWatch, TLAPS

(***************************************************************************)
(* Part 1: ModeControl                                                     *)
(***************************************************************************)

-----------------------------------------------------------------------------
(* The call that a program point belongs to.                               *)
CallOf ==
  \/ pc = "idle" /\ op.call = None
  \/ pc \in {"read_con", "write_con", "poll"} /\ op.call \in {"set_mode", "recover"}
  \/ pc = "check_parked" /\ op.call = "recover"
  \/ pc = "read_int" /\ op.call = "clear_interrupts"
  \/ pc \in {"clear0", "clear1"} /\ op.call \in {"clear_interrupts", "recover"}
  \/ pc \in {"enable2", "enable3"} /\ op.call = "configure_interrupts"
  \/ pc \in {"check_config", "write_fifo"} /\ op.call = "apply_layout"

OpType == [call : AllCalls \cup {None}, mode : AllModes \cup {None},
           polls : Nat, next : Nat, bits : SUBSET Flags]

CallInv ==
  /\ CallOf /\ op \in OpType
  /\ op.call = "set_mode" => op.mode \in AllModes
  /\ op.call = "recover" => op.mode \in Normal

(* What the chip is in, and why.                                           *)
ChipInv ==
  /\ opmod \in AllModes /\ pend \in AllModes \cup {None}
  /\ flags \subseteq Flags
  /\ byError => opmod \in ErrorModes

(* While a mode is polled for, no other one is requested.                  *)
PollInv == pc = "poll" => op.mode # "Sleep" /\ pend \in {None, op.mode}

(* A calm apply_layout finds the chip in the mode it needs, at each write. *)
LayoutInv == op.call = "apply_layout" /\ calm =>
  /\ pend = None /\ opmod # "Sleep"
  /\ op.next \in 1 .. Fifos + 1 /\ applied = 1 .. op.next - 1
  /\ pc = "write_fifo" => opmod = "Configuration"

(* An error not seen yet has its flag, and no half-made call clears it.    *)
AlarmInv ==
  /\ armed => "SERRIF" \in enables /\ op.call # "configure_interrupts"
  /\ unseen => "SERRIF" \in flags
  /\ unseen => ~(pc \in {"clear0", "clear1"} /\ "SERRIF" \in op.bits)

Results == OkSettles /\ SecondErrorVisible /\ LayoutApplied

ModeInv == CallInv /\ ChipInv /\ PollInv /\ LayoutInv /\ AlarmInv /\ Results

-----------------------------------------------------------------------------
LEMMA NoOpType == NoOp \in OpType /\ NoOp.call = None /\ NoOp.next = 1
  BY SMT DEF NoOp, OpType, Flags

LEMMA ModeInit == Init => ModeInv
<1>. SUFFICES ASSUME Init PROVE ModeInv  OBVIOUS
<1>1. CallInv  BY NoOpType DEF Init, CallInv, CallOf, None
<1>2. ChipInv /\ PollInv  BY DEF Init, ChipInv, PollInv, AllModes
<1>3. LayoutInv  BY NoOpType DEF Init, LayoutInv, None
<1>4. AlarmInv  BY DEF Init, AlarmInv
<1>5. Results  BY DEF Init, Results, OkSettles, SecondErrorVisible, LayoutApplied, None
<1>. QED  BY <1>1, <1>2, <1>3, <1>4, <1>5 DEF ModeInv

(* A call begins.                                                          *)
LEMMA CallStep ==
  ASSUME ModeInv, NEW c \in AllCalls, NEW o \in OpType, NEW first, Call(c, o, first),
         UNCHANGED <<opmod, pend, flags, enables, byError>>,
         o.next = 1, first \notin {"idle", "poll", "clear0", "clear1", "write_fifo"},
         c = "apply_layout" => applied' = {},
         CallOf', c = "set_mode" => o.mode \in AllModes, c = "recover" => o.mode \in Normal
  PROVE  ModeInv'
<1>. USE DEF ModeInv
<1>. DEFINE p == [o EXCEPT !.call = c]
<1>1. pc' = first /\ op' = p  BY DEF Call
<1>2. p \in OpType /\ p.call = c /\ p.mode = o.mode /\ p.next = 1  BY SMT DEF OpType
<1>. HIDE DEF p
<1>3. CallInv'  BY <1>1, <1>2 DEF CallInv
<1>4. ChipInv' /\ PollInv'  BY <1>1 DEF ChipInv, PollInv
<1>5. LayoutInv'
  <2>. SUFFICES ASSUME c = "apply_layout", calm'
                PROVE  pend = None /\ opmod # "Sleep" /\ 1 \in 1 .. Fifos + 1 /\ {} = 1 .. 1 - 1
    BY <1>1, <1>2 DEF LayoutInv
  <2>1. 1 \in 1 .. Fifos + 1 /\ {} = 1 .. 1 - 1  BY ModeAssumption, SMT
  <2>. QED  BY <2>1 DEF Call
<1>6. AlarmInv'  BY <1>1, <1>2 DEF AlarmInv, Call
<1>7. Results'  BY <1>1 DEF Results, OkSettles, SecondErrorVisible, LayoutApplied
<1>. QED  BY <1>3, <1>4, <1>5, <1>6, <1>7

LEMMA ModeApplication == ASSUME ModeInv, Application PROVE ModeInv'
<1>1. ASSUME NEW m \in Modes, SetMode(m) PROVE ModeInv'
  <2>. DEFINE o == [NoOp EXCEPT !.mode = m]
  <2>1. m \in AllModes  BY ModeAssumption
  <2>2. o \in OpType /\ o.mode = m /\ o.next = 1
    BY <2>1, NoOpType, SMT DEF OpType
  <2>3. Call("set_mode", o, "read_con") /\ UNCHANGED chipVars  BY <1>1 DEF SetMode
  <2>. HIDE DEF o
  <2>4. CallOf'  BY <2>2, <2>3, SMT DEF Call, CallOf, OpType
  <2>. QED  BY <2>1, <2>2, <2>3, <2>4, CallStep DEF AllCalls, chipVars
<1>2. ASSUME NEW m \in Modes \cap Normal, Recover(m) PROVE ModeInv'
  <2>. DEFINE o == [NoOp EXCEPT !.mode = m]
  <2>1. m \in AllModes  BY ModeAssumption
  <2>2. o \in OpType /\ o.mode = m /\ o.next = 1
    BY <2>1, NoOpType, SMT DEF OpType
  <2>3. Call("recover", o, "check_parked") /\ UNCHANGED chipVars  BY <1>2 DEF Recover
  <2>. HIDE DEF o
  <2>4. CallOf'  BY <2>2, <2>3, SMT DEF Call, CallOf, OpType
  <2>. QED  BY <2>1, <2>2, <2>3, <2>4, CallStep DEF AllCalls, chipVars
<1>3. CASE ClearInterrupts
  <2>1. Call("clear_interrupts", NoOp, "read_int") /\ UNCHANGED chipVars
    BY <1>3 DEF ClearInterrupts
  <2>2. CallOf'  BY <2>1, NoOpType, SMT DEF Call, CallOf, OpType
  <2>. QED  BY <2>1, <2>2, NoOpType, CallStep DEF AllCalls, chipVars
<1>4. ASSUME NEW fs \in {{}, {"MODIF", "SERRIF"}}, ConfigureInterrupts(fs) PROVE ModeInv'
  <2>. DEFINE o == [NoOp EXCEPT !.bits = fs]
  <2>1. fs \in SUBSET Flags  BY DEF Flags
  <2>2. o \in OpType /\ o.next = 1
    BY <2>1, NoOpType, SMT DEF OpType
  <2>3. Call("configure_interrupts", o, "enable2") /\ UNCHANGED chipVars
    BY <1>4 DEF ConfigureInterrupts
  <2>. HIDE DEF o
  <2>4. CallOf'  BY <2>2, <2>3, SMT DEF Call, CallOf, OpType
  <2>. QED  BY <2>2, <2>3, <2>4, CallStep DEF AllCalls, chipVars
<1>5. CASE ApplyLayout
  <2>1. /\ Call("apply_layout", NoOp, "check_config") /\ applied' = {}
        /\ UNCHANGED <<opmod, pend, flags, enables, byError>>
    BY <1>5 DEF ApplyLayout
  <2>2. CallOf'  BY <2>1, NoOpType, SMT DEF Call, CallOf, OpType
  <2>. QED  BY <2>1, <2>2, NoOpType, CallStep DEF AllCalls
<1>. QED  BY <1>1, <1>2, <1>3, <1>4, <1>5 DEF Application

-----------------------------------------------------------------------------
(* The steps of the controller.                                            *)
LEMMA ModeChip == ASSUME ModeInv, Chip PROVE ModeInv'
<1>. USE DEF ModeInv
<1>1. CASE ModeChange
  <2>1. CallInv'  BY <1>1 DEF ModeChange, CallInv, CallOf, driverVars
  <2>2. ChipInv'  BY <1>1 DEF ModeChange, ChipInv, Flags
  <2>3. PollInv'  BY <1>1 DEF ModeChange, PollInv, driverVars
  <2>4. LayoutInv'  BY <1>1 DEF ModeChange, LayoutInv, driverVars, hist
  <2>5. AlarmInv'  BY <1>1 DEF ModeChange, AlarmInv, driverVars, hist
  <2>6. Results'
    BY <1>1 DEF ModeChange, Results, OkSettles, SecondErrorVisible, LayoutApplied,
                driverVars, hist, OpMod
  <2>. QED  BY <2>1, <2>2, <2>3, <2>4, <2>5, <2>6
<1>2. CASE SystemError
  <2>1. CallInv'  BY <1>2 DEF SystemError, CallInv, CallOf, driverVars
  <2>2. ChipInv'  BY <1>2 DEF SystemError, ChipInv, Flags, ErrorModes, AllModes
  <2>3. PollInv'  BY <1>2 DEF SystemError, PollInv, driverVars
  <2>4. LayoutInv'  BY <1>2 DEF SystemError, LayoutInv, driverVars, Normal, ErrorModes
  <2>5. AlarmInv'  BY <1>2 DEF SystemError, AlarmInv, driverVars
  <2>6. Results'
    BY <1>2 DEF SystemError, Results, OkSettles, SecondErrorVisible, LayoutApplied, driverVars
  <2>. QED  BY <2>1, <2>2, <2>3, <2>4, <2>5, <2>6
<1>. QED  BY <1>1, <1>2 DEF Chip

-----------------------------------------------------------------------------
(* What a write leaves true of the chip.                                   *)
LEMMA EffectKeeps ==
  ASSUME ModeInv, Effect
  PROVE  /\ ChipInv' /\ UNCHANGED <<opmod, byError>>
         /\ unseen => "SERRIF" \in flags'
         /\ armed => "SERRIF" \in enables'
<1>. USE DEF ModeInv
<1>1. CASE pc = "write_con" /\ RequestMode
  BY <1>1, SMT DEF RequestMode, ChipInv, AlarmInv, CallInv, CallOf, OpType
<1>2. CASE (pc = "clear0" /\ ClearByte(Byte0)) \/ (pc = "clear1" /\ ClearByte(Byte1))
  BY <1>2 DEF ClearByte, ChipInv, AlarmInv
<1>3. CASE (pc = "enable2" /\ EnableByte(Byte0)) \/ (pc = "enable3" /\ EnableByte(Byte1))
  BY <1>3 DEF EnableByte, ChipInv, AlarmInv, CallInv, CallOf
<1>4. CASE pc = "write_fifo" /\ WriteFifoCon
  BY <1>4 DEF WriteFifoCon, ChipInv, AlarmInv
<1>. QED  BY <1>1, <1>2, <1>3, <1>4 DEF Effect

(* A call that returns has nothing half-done.                              *)
LEMMA ReturnKeeps ==
  ASSUME ModeInv, NEW res, Return(res)
  PROVE  /\ CallInv' /\ PollInv' /\ LayoutInv' /\ pc' = "idle" /\ op'.call = None
         /\ ret'.call = op.call /\ ret'.mode = op.mode /\ ret'.res = res
<1>1. pc' = "idle" /\ op' = NoOp  BY DEF Return
<1>2. CallInv'  BY <1>1, NoOpType DEF CallInv, CallOf, None
<1>3. PollInv' /\ LayoutInv'  BY <1>1, NoOpType DEF PollInv, LayoutInv, None
<1>. QED  BY <1>1, <1>2, <1>3, NoOpType DEF Return

LEMMA ReturnOther ==
  ASSUME ModeInv, NEW res, res # "ok", Return(res), UNCHANGED hist,
         UNCHANGED chipVars \/ Effect
  PROVE  ModeInv'
<1>1. /\ CallInv' /\ PollInv' /\ LayoutInv' /\ pc' = "idle" /\ ret'.res # "ok"
      /\ op'.call = None
  BY ReturnKeeps
<1>2. ChipInv' /\ (unseen => "SERRIF" \in flags') /\ (armed => "SERRIF" \in enables')
  BY EffectKeeps DEF ModeInv, chipVars, ChipInv, AlarmInv
<1>3. AlarmInv'  BY <1>1, <1>2 DEF AlarmInv, hist, None
<1>4. Results'  BY <1>1 DEF Results, OkSettles, SecondErrorVisible, LayoutApplied
<1>. QED  BY <1>1, <1>2, <1>3, <1>4 DEF ModeInv

(* clear_interrupts or set_mode is through.                                *)
LEMMA FinishKeeps ==
  ASSUME ModeInv, NEW first \in {"clear0", "read_con"}, Finish(first), UNCHANGED hist,
         UNCHANGED chipVars \/ Effect,
         first = "clear0" => op.call \in {"clear_interrupts", "recover"},
         first = "read_con" /\ op.mode # "Sleep"
            => pend' \in {None, op.mode} /\ OpMod' = op.mode,
         first = "read_con" => op.call \in {"set_mode", "recover"}
  PROVE  ModeInv'
<1>. USE DEF ModeInv
<1>1. /\ ChipInv' /\ (unseen => "SERRIF" \in flags') /\ (armed => "SERRIF" \in enables')
  BY EffectKeeps DEF chipVars, ChipInv, AlarmInv
<1>2. CASE op.call = "recover" /\ first = "clear0"
  <2>1. pc' = "read_con" /\ UNCHANGED <<op, ret>>
    BY <1>2 DEF Finish, Goto, RecoverOrder
  <2>2. CallInv'  BY <1>2, <2>1 DEF CallInv, CallOf
  <2>3. PollInv' /\ LayoutInv'  BY <1>2, <2>1 DEF PollInv, LayoutInv
  <2>4. AlarmInv'  BY <1>1, <2>1 DEF AlarmInv, hist
  <2>5. Results'  BY <2>1 DEF Results, OkSettles, SecondErrorVisible, LayoutApplied
  <2>. QED  BY <1>1, <2>2, <2>3, <2>4, <2>5
<1>3. CASE ~(op.call = "recover" /\ first = "clear0")
  <2>1. Return("ok")  BY <1>3 DEF Finish, RecoverOrder
  <2>2. /\ CallInv' /\ PollInv' /\ LayoutInv' /\ pc' = "idle" /\ op'.call = None
        /\ ret'.call = op.call /\ ret'.mode = op.mode
    BY <2>1, ReturnKeeps
  <2>3. AlarmInv'  BY <1>1, <2>2 DEF AlarmInv, hist, None
  <2>4. OkSettles'  BY <1>3, <2>2 DEF OkSettles
  <2>5. LayoutApplied'  BY <2>2 DEF LayoutApplied
  <2>6. SecondErrorVisible'
    <3>. SUFFICES ASSUME op.call = "recover", byError' PROVE FALSE
      BY <2>2 DEF SecondErrorVisible
    <3>1. op.mode \in Normal  BY DEF CallInv
    <3>2. OpMod' = op.mode  BY <1>3, <3>1 DEF Normal
    <3>3. opmod' \in ErrorModes  BY <1>1 DEF ChipInv
    <3>. QED  BY <3>1, <3>2, <3>3 DEF OpMod, ErrorModes, Normal
  <2>. QED  BY <1>1, <2>2, <2>3, <2>4, <2>5, <2>6 DEF Results
<1>. QED  BY <1>2, <1>3

(* A step to the next transaction of the same call.                        *)
LEMMA GotoKeeps ==
  ASSUME ModeInv, UNCHANGED ret, UNCHANGED hist, pc' \notin {"idle", "poll"},
         UNCHANGED chipVars \/ Effect, CallInv', LayoutInv', op'.call = op.call,
         unseen => ~(pc' \in {"clear0", "clear1"} /\ "SERRIF" \in op'.bits)
  PROVE  ModeInv'
<1>1. ChipInv' /\ (unseen => "SERRIF" \in flags') /\ (armed => "SERRIF" \in enables')
  BY EffectKeeps DEF ModeInv, chipVars, ChipInv, AlarmInv
<1>2. PollInv'  BY DEF PollInv
<1>3. AlarmInv'  BY <1>1 DEF ModeInv, AlarmInv, hist
<1>4. Results'  BY DEF Results, OkSettles, SecondErrorVisible, LayoutApplied
<1>. QED  BY <1>1, <1>2, <1>3, <1>4 DEF ModeInv

-----------------------------------------------------------------------------
(* The steps of a call.                                                    *)
LEMMA ModeSet ==
  ASSUME ModeInv, ReadCon \/ WriteCon \/ PollOk \/ PollAgain \/ PollTimeout
  PROVE  ModeInv'
<1>. USE DEF ModeInv
<1>1. CASE ReadCon
  <2>1. pc = "read_con" /\ pc' = "write_con" /\ UNCHANGED <<op, ret, chipVars, hist>>
    BY <1>1 DEF ReadCon, Goto
  <2>2. CallInv' /\ LayoutInv'  BY <2>1 DEF CallInv, CallOf, LayoutInv
  <2>. QED  BY <2>1, <2>2, GotoKeeps
<1>2. CASE WriteCon
  <2>1. pc = "write_con" /\ Effect /\ UNCHANGED hist /\ op.call \in {"set_mode", "recover"}
    BY <1>2 DEF WriteCon, CallInv, CallOf
  <2>2. CASE op.mode = "Sleep"
    <3>1. Finish("read_con")  BY <1>2, <2>2 DEF WriteCon
    <3>. QED  BY <2>1, <2>2, <3>1, FinishKeeps
  <2>3. CASE op.mode # "Sleep"
    <3>. DEFINE o == [op EXCEPT !.polls = MaxPolls]
    <3>1. pc' = "poll" /\ op' = o /\ UNCHANGED ret  BY <1>2, <2>3 DEF WriteCon
    <3>2. o \in OpType /\ o.call = op.call /\ o.mode = op.mode /\ o.bits = op.bits
      BY ModeAssumption, SMT DEF CallInv, OpType
    <3>. HIDE DEF o
    <3>3. CallInv'  BY <2>1, <3>1, <3>2 DEF CallInv, CallOf
    <3>4. pend' = op.mode  BY <2>1 DEF Effect, RequestMode
    <3>5. PollInv'  BY <2>3, <3>1, <3>2, <3>4 DEF PollInv
    <3>6. LayoutInv'  BY <2>1, <3>1, <3>2 DEF LayoutInv
    <3>7. ChipInv' /\ (unseen => "SERRIF" \in flags') /\ (armed => "SERRIF" \in enables')
      BY <2>1, EffectKeeps
    <3>8. AlarmInv'  BY <2>1, <3>1, <3>2, <3>7 DEF AlarmInv, hist
    <3>9. Results'  BY <3>1 DEF Results, OkSettles, SecondErrorVisible, LayoutApplied
    <3>. QED  BY <3>3, <3>5, <3>6, <3>7, <3>8, <3>9
  <2>. QED  BY <2>2, <2>3
<1>3. CASE PollOk
  <2>1. /\ pc = "poll" /\ OpMod = op.mode /\ Finish("read_con") /\ UNCHANGED <<chipVars, hist>>
        /\ op.call \in {"set_mode", "recover"}
    BY <1>3 DEF PollOk, CallInv, CallOf
  <2>2. pend' \in {None, op.mode} /\ OpMod' = op.mode
    BY <2>1 DEF PollInv, chipVars, OpMod
  <2>. QED  BY <2>1, <2>2, FinishKeeps
<1>4. CASE PollAgain
  <2>. DEFINE o == [op EXCEPT !.polls = op.polls - 1]
  <2>1. /\ pc = "poll" /\ op.polls > 0 /\ op' = o /\ UNCHANGED <<pc, ret, chipVars, hist>>
        /\ op.call \in {"set_mode", "recover"}
    BY <1>4 DEF PollAgain, CallInv, CallOf
  <2>2. op.polls - 1 \in Nat  BY <2>1, SMT DEF CallInv, OpType
  <2>3. o \in OpType /\ o.call = op.call /\ o.mode = op.mode /\ o.bits = op.bits
    BY <2>2, SMT DEF CallInv, OpType
  <2>. HIDE DEF o
  <2>4. CallInv' /\ PollInv' /\ LayoutInv'
    BY <2>1, <2>3 DEF CallInv, CallOf, PollInv, LayoutInv, chipVars
  <2>5. ChipInv' /\ AlarmInv'  BY <2>1, <2>3 DEF ChipInv, AlarmInv, chipVars, hist
  <2>6. Results'  BY <2>1 DEF Results, OkSettles, SecondErrorVisible, LayoutApplied
  <2>. QED  BY <2>4, <2>5, <2>6
<1>5. CASE PollTimeout
  BY <1>5, ReturnOther DEF PollTimeout
<1>. QED  BY <1>1, <1>2, <1>3, <1>4, <1>5

LEMMA ModeFlags ==
  ASSUME ModeInv, NotParked \/ IsParked \/ ReadInt \/ Clear0 \/ Clear1
  PROVE  ModeInv'
<1>. USE DEF ModeInv
<1>1. CASE NotParked  BY <1>1, ReturnOther DEF NotParked
<1>2. CASE IsParked \/ ReadInt
  <2>1. /\ pc \in {"check_parked", "read_int"} /\ pc' = "clear0"
        /\ \E b \in SUBSET Flags : op' = [op EXCEPT !.bits = b]
        /\ unseen' = FALSE /\ UNCHANGED <<ret, chipVars, calm, armed>>
    BY <1>2 DEF IsParked, ReadInt, RecoverOrder, ChipInv
  <2>2. PICK b \in SUBSET Flags : op' = [op EXCEPT !.bits = b]  BY <2>1
  <2>3. op' \in OpType /\ op'.call = op.call /\ op'.mode = op.mode
    BY <2>2, SMT DEF CallInv, OpType
  <2>4. CallInv'  BY <2>1, <2>3 DEF CallInv, CallOf
  <2>5. PollInv' /\ LayoutInv' /\ ChipInv'
    BY <2>1, <2>3 DEF PollInv, LayoutInv, ChipInv, CallInv, CallOf, chipVars
  <2>6. AlarmInv'  BY <2>1, <2>3 DEF AlarmInv, chipVars
  <2>7. Results'  BY <2>1 DEF Results, OkSettles, SecondErrorVisible, LayoutApplied
  <2>. QED  BY <2>4, <2>5, <2>6, <2>7
<1>3. CASE Clear0
  <2>1. /\ pc = "clear0" /\ pc' = "clear1" /\ Effect /\ UNCHANGED <<op, ret, hist>>
    BY <1>3 DEF Clear0, Goto
  <2>2. CallInv' /\ LayoutInv'  BY <2>1 DEF CallInv, CallOf, LayoutInv
  <2>3. unseen => ~("SERRIF" \in op'.bits)  BY <2>1 DEF AlarmInv
  <2>. QED  BY <2>1, <2>2, <2>3, GotoKeeps
<1>4. CASE Clear1
  <2>1. pc = "clear1" /\ Effect /\ UNCHANGED hist /\ Finish("clear0")
        /\ op.call \in {"clear_interrupts", "recover"}
    BY <1>4 DEF Clear1, CallInv, CallOf
  <2>. QED  BY <2>1, FinishKeeps
<1>. QED  BY <1>1, <1>2, <1>3, <1>4

LEMMA ModeEnables ==
  ASSUME ModeInv, Enable2 \/ Enable3
  PROVE  ModeInv'
<1>. USE DEF ModeInv
<1>1. CASE Enable2
  <2>1. /\ pc = "enable2" /\ pc' = "enable3" /\ Effect /\ UNCHANGED <<op, ret, hist>>
    BY <1>1 DEF Enable2, Goto
  <2>2. CallInv' /\ LayoutInv'  BY <2>1 DEF CallInv, CallOf, LayoutInv
  <2>. QED  BY <2>1, <2>2, GotoKeeps
<1>2. CASE Enable3
  <2>1. /\ pc = "enable3" /\ Effect /\ Return("ok") /\ op.call = "configure_interrupts"
        /\ armed' = ("SERRIF" \in op.bits) /\ UNCHANGED <<calm, unseen>>
    BY <1>2 DEF Enable3, CallInv, CallOf
  <2>2. /\ CallInv' /\ PollInv' /\ LayoutInv' /\ pc' = "idle" /\ op'.call = None
        /\ ret'.call = "configure_interrupts"
    BY <2>1, ReturnKeeps
  <2>3. ChipInv' /\ (unseen => "SERRIF" \in flags')  BY <2>1, EffectKeeps
  <2>4. armed' => "SERRIF" \in enables'  BY <2>1 DEF Effect, EnableByte, Byte1
  <2>5. AlarmInv'  BY <2>1, <2>2, <2>3, <2>4 DEF AlarmInv, None
  <2>6. Results'  BY <2>2 DEF Results, OkSettles, SecondErrorVisible, LayoutApplied
  <2>. QED  BY <2>2, <2>3, <2>5, <2>6
<1>. QED  BY <1>1, <1>2

LEMMA ModeLayout ==
  ASSUME ModeInv, NotInConfig \/ InConfig \/ WriteFifo \/ LayoutDone
  PROVE  ModeInv'
<1>. USE DEF ModeInv
<1>1. CASE NotInConfig  BY <1>1, ReturnOther DEF NotInConfig
<1>2. CASE InConfig
  <2>1. /\ pc = "check_config" /\ pc' = "write_fifo" /\ OpMod = "Configuration"
        /\ UNCHANGED <<op, ret, chipVars, hist>>
    BY <1>2 DEF InConfig, Goto
  <2>2. CallInv'  BY <2>1 DEF CallInv, CallOf
  <2>3. LayoutInv'  BY <2>1 DEF LayoutInv, OpMod, chipVars, hist
  <2>. QED  BY <2>1, <2>2, <2>3, GotoKeeps
<1>3. CASE WriteFifo
  <2>. DEFINE o == [op EXCEPT !.next = op.next + 1]
  <2>1. /\ pc = "write_fifo" /\ op.next <= Fifos /\ Effect /\ op' = o
        /\ UNCHANGED <<pc, ret, hist>> /\ op.call = "apply_layout"
    BY <1>3 DEF WriteFifo, CallInv, CallOf
  <2>2. op.next \in Nat /\ op.next + 1 \in Nat  BY SMT DEF CallInv, OpType
  <2>3. /\ o \in OpType /\ o.call = op.call /\ o.mode = op.mode
        /\ o.next = op.next + 1
    BY <2>2, SMT DEF CallInv, OpType
  <2>. HIDE DEF o
  <2>4. CallInv'  BY <2>1, <2>3 DEF CallInv, CallOf
  <2>5. LayoutInv'
    <3>. SUFFICES ASSUME calm
                  PROVE  /\ pend' = None /\ opmod' = "Configuration"
                         /\ op.next + 1 \in 1 .. Fifos + 1
                         /\ applied' = 1 .. op.next + 1 - 1
      BY <2>1, <2>3 DEF LayoutInv, hist
    <3>1. /\ pend = None /\ opmod = "Configuration" /\ op.next \in 1 .. Fifos + 1
          /\ applied = 1 .. op.next - 1
      BY <2>1 DEF LayoutInv
    <3>2. WriteFifoCon  BY <2>1 DEF Effect
    <3>3. applied' = applied \cup {op.next} /\ UNCHANGED <<opmod, pend>>
      BY <3>1, <3>2 DEF WriteFifoCon
    <3>4. /\ op.next + 1 \in 1 .. Fifos + 1
          /\ (1 .. op.next - 1) \cup {op.next} = 1 .. op.next + 1 - 1
      BY <2>1, <2>2, <3>1, ModeAssumption, SMT
    <3>. QED  BY <3>1, <3>3, <3>4
  <2>6. pc' = "write_fifo" /\ op'.call = op.call  BY <2>1, <2>3
  <2>. QED  BY <2>1, <2>4, <2>5, <2>6, GotoKeeps
<1>4. CASE LayoutDone
  <2>1. /\ pc = "write_fifo" /\ op.next > Fifos /\ Return("ok") /\ op.call = "apply_layout"
        /\ UNCHANGED <<chipVars, hist>>
    BY <1>4 DEF LayoutDone, CallInv, CallOf
  <2>2. /\ CallInv' /\ PollInv' /\ LayoutInv' /\ pc' = "idle" /\ op'.call = None
        /\ ret'.call = "apply_layout"
    BY <2>1, ReturnKeeps
  <2>3. ChipInv' /\ AlarmInv'  BY <2>1, <2>2 DEF ChipInv, AlarmInv, chipVars, hist, None
  <2>4. OkSettles' /\ SecondErrorVisible'  BY <2>2 DEF OkSettles, SecondErrorVisible
  <2>5. LayoutApplied'
    <3>. SUFFICES ASSUME calm PROVE applied = 1 .. Fifos
      BY <2>1 DEF LayoutApplied, chipVars, hist
    <3>1. op.next \in 1 .. Fifos + 1 /\ applied = 1 .. op.next - 1
      BY <2>1 DEF LayoutInv
    <3>2. op.next - 1 = Fifos  BY <2>1, <3>1, ModeAssumption, SMT
    <3>. QED  BY <3>1, <3>2
  <2>. QED  BY <2>2, <2>3, <2>4, <2>5 DEF Results
<1>. QED  BY <1>1, <1>2, <1>3, <1>4

LEMMA ModeStep == ASSUME ModeInv, [Next]_vars PROVE ModeInv'
<1>1. CASE Application  BY <1>1, ModeApplication
<1>2. CASE Driver
  <2>1. CASE SpiFails
    BY <2>1, ReturnOther DEF SpiFails
  <2>. QED  BY <1>2, <2>1, ModeSet, ModeFlags, ModeEnables, ModeLayout DEF Driver
<1>3. CASE Chip  BY <1>3, ModeChip
<1>4. CASE UNCHANGED vars
  BY <1>4 DEF vars, driverVars, chipVars, hist, ModeInv, CallInv, CallOf, ChipInv, PollInv,
              LayoutInv, AlarmInv, Results, OkSettles, SecondErrorVisible, LayoutApplied, OpMod
<1>. QED  BY <1>1, <1>2, <1>3, <1>4 DEF Next

LEMMA ModeAlways == Spec => []ModeInv
  BY ModeInit, ModeStep, PTL DEF Spec

-----------------------------------------------------------------------------
(* Success of set_mode or recover_system_error is final: the chip is in    *)
(* the mode asked for and no other request is due, so only an error or the *)
(* next call takes it away; a request granted late, after a timeout, never *)
(* belies an Ok.                                                           *)
THEOREM OkIsFinal == Spec => []OkSettles
<1>1. ModeInv => OkSettles  BY DEF ModeInv, Results
<1>. QED  BY <1>1, ModeAlways, PTL

(* A system error after a recovery that succeeded is never hidden by that  *)
(* recovery: its flag is set.                                              *)
THEOREM SecondErrorShows == Spec => []SecondErrorVisible
<1>1. ModeInv => SecondErrorVisible  BY DEF ModeInv, Results
<1>. QED  BY <1>1, ModeAlways, PTL

(* apply_layout that returned Ok on a chip that was awake and had no       *)
(* request outstanding has configured every FIFO.                          *)
THEOREM LayoutIsApplied == Spec => []LayoutApplied
<1>1. ModeInv => LayoutApplied  BY DEF ModeInv, Results
<1>. QED  BY <1>1, ModeAlways, PTL

(* An armed alarm stands until the application has read it: no clearing of *)
(* flags read before it was raised takes it away, however the bytes of     *)
(* C1INT are written and whichever of the writes fail.                     *)
THEOREM AlarmIsKept == Spec => []AlarmStands
<1>1. ModeInv => AlarmStands  BY DEF ModeInv, AlarmInv, AlarmStands
<1>. QED  BY <1>1, ModeAlways, PTL

(***************************************************************************)
(* Part 2: StallWatch                                                      *)
(***************************************************************************)

-----------------------------------------------------------------------------
(* The lists of calls that come up, by the mode the chip is in when the    *)
(* first of them begins.                                                   *)
FromConf ==
  {<<"init", "layout", "filter", "ints", "normal">>, <<"layout", "filter", "ints", "normal">>,
   <<"filter", "ints", "normal">>, <<"ints", "normal">>,
   <<"init", "layout", "filter", "normal">>, <<"layout", "filter", "normal">>,
   <<"filter", "normal">>, <<"normal">>}
FromParked == {<<"clear">>, <<"recover">>, <<"reset_fifo", "recover">>}
Lists == FromConf \cup FromParked \cup {FullConfigCycle, <<>>}

ModeFor(l) ==
  /\ l \in FromConf => opmod = "Configuration"
  /\ l \in FromParked => opmod \in ErrorModes
  /\ l \in {FullConfigCycle, <<>>} => opmod # "Configuration"

(* The call in progress, as ModeControl sees it. *)
ModeCalls == {"config", "normal", "recover"}
Target(c) == IF c = "config" THEN "Configuration" ELSE MODE
Matches(c) ==
  /\ c = "config" => op.call = "set_mode" /\ op.mode = "Configuration"
  /\ c = "normal" => op.call = "set_mode" /\ op.mode = MODE
  /\ c = "recover" => op.call = "recover" /\ op.mode = MODE
  /\ c = "layout" => op.call = "apply_layout"
  /\ c = "ints" => op.call = "configure_interrupts"
  /\ c = "clear" => op.call = "clear_interrupts"

(* A mode call has made its request, or returned. *)
Requested == active /\ Head(calls) \in ModeCalls /\ pc \in {"poll", "idle"}

WatchChip ==
  /\ opmod \in {"Configuration", MODE} \cup ErrorModes
  /\ byError <=> opmod \in ErrorModes
  /\ ~Requested => pend = None /\ ModeFor(calls)
  /\ Requested =>
       LET t == Target(Head(calls)) IN
         \/ pend = t /\ opmod # t /\ pc = "poll"
         \/ pend = None /\ opmod = t
  /\ active /\ pc = "idle" => ret.res = "ok"

-----------------------------------------------------------------------------
(* Where core 1 is: the rest of its cycle, and the counters.  A bench      *)
(* counts the recoveries.                                                  *)
Bench == "result" \in Range(Source[prog].stalled)
Counted(stall, recovery) == parks = stalls + stall /\ (Bench => stalls = recovered + recovery)

InCycle == todo \in {<<>>, Cycle, <<"drain", "check">>, <<"check">>} /\ calls = <<>>
           /\ Counted(IF byError THEN 1 ELSE 0, 0)
StallSeen == todo = Source[prog].stalled /\ calls = <<>> /\ opmod \in ErrorModes /\ Counted(1, 0)
StallCounted ==
  /\ todo \in {<<"recover", "result">>, <<"recover">>, <<"ladder", "verify">>}
  /\ todo = Tail(Source[prog].stalled) /\ calls = <<>> /\ opmod \in ErrorModes
  /\ Counted(0, 1)
Recovering ==
  /\ todo = <<"result">> /\ calls \in {<<"recover">>, <<>>} /\ Counted(0, 1)
  /\ calls = <<>> => opmod = MODE /\ outcome = "ok"
(* Setup, the recovery of blocking_core1, the last resort of stall.rs.     *)
LastCalls ==
  /\ todo = <<>> /\ calls \in FromConf \cup {<<"recover">>, FullConfigCycle} /\ Counted(0, 0)

(* A ladder of stall.rs; the two that empty the FIFO have it empty.        *)
Emptied ==
  \/ calls \in {<<"filter", "normal">>, <<"normal">>, <<"recover">>, <<>>}
  \/ active /\ Head(calls) = "layout" /\ TX \in applied
(* Its apply_layout is calm, so that Ok means it reset the FIFO.           *)
CalmLayout == active /\ Head(calls) = "layout" => calm /\ (pc = "idle" => TX \in applied)
OnLadder ==
  /\ todo = <<"verify">> /\ prog = "stall" /\ parks = stalls
  /\ rung = 1 => calls \in {<<"clear">>, <<>>} /\ opmod \in ErrorModes
  /\ rung = 2 => calls \in {<<"recover">>, <<>>}
  /\ rung = 3 => calls \in {<<"reset_fifo", "recover">>, <<"recover">>, <<>>}
  /\ rung = 0 => calls \in {FullConfigCycle, <<"layout", "filter", "normal">>,
                            <<"filter", "normal">>, <<"normal">>, <<>>}
  /\ rung # 1 /\ calls = <<>> => opmod = MODE
  /\ rung \in {0, 3} /\ Emptied => queue = 0
  /\ CalmLayout

Where == InCycle \/ StallSeen \/ StallCounted \/ Recovering \/ LastCalls \/ OnLadder

-----------------------------------------------------------------------------
(* No call has failed so far, the one that just ended included. *)
Sound == clean /\ ~(active /\ pc = "idle" /\ Failed(ret.res))

WatchType ==
  /\ prog \in Programs /\ active \in BOOLEAN /\ clean \in BOOLEAN /\ byError \in BOOLEAN
  /\ queue \in 0 .. Depth /\ rung \in 0 .. 3
  /\ stalls \in Nat /\ recovered \in Nat /\ parks \in Nat
  /\ parks = sysErrors /\ sysErrors <= MaxSysErrors
  /\ calls \in Lists
  /\ active => calls # <<>> /\ Head(calls) \in ModeCalls \cup {"layout", "ints", "clear"}
  /\ pc # "idle" => active
  /\ outcome = "err" => ~clean

InCall == active /\ pc # "idle" => Matches(Head(calls))

WatchInv == WatchType /\ InCall /\ (Sound => WatchChip /\ Where)

-----------------------------------------------------------------------------
(* The calls of the programs are calls of ModeControl, so what is proved   *)
(* of their results holds in the programs, too.                            *)
LEMMA WatchModeInit == WatchInit => ModeInv
  BY ModeInit DEF WatchInit

LEMMA EnableCall ==
  ASSUME ModeInv, ConfigureInterrupts(Flags)
  PROVE  ModeInv'
<1>1. PICK o : o = [NoOp EXCEPT !.bits = Flags]  OBVIOUS
<1>2. o \in OpType /\ o.next = 1
  BY <1>1, NoOpType, SMT DEF OpType
<1>3. Call("configure_interrupts", o, "enable2") /\ UNCHANGED chipVars
  BY <1>1 DEF ConfigureInterrupts
<1>4. CallOf'  BY <1>2, <1>3, SMT DEF Call, CallOf, OpType
<1>. QED  BY <1>2, <1>3, <1>4, CallStep DEF AllCalls, chipVars

(* Nothing but faults changes in what ModeControl sees. *)
LEMMA OnlyFaults ==
  ASSUME ModeInv, UNCHANGED <<driverVars, chipVars, hist, sysErrors>>
  PROVE  ModeInv'
BY DEF driverVars, chipVars, hist, ModeInv, CallInv, CallOf, ChipInv, PollInv,
       LayoutInv, AlarmInv, Results, OkSettles, SecondErrorVisible, LayoutApplied, OpMod

LEMMA WatchModeStep == ASSUME ModeInv, [WatchNext]_allVars PROVE ModeInv'
<1>1. CASE Invoke
  <2>1. MODE \in Modes /\ MODE \in Normal /\ "Configuration" \in Modes
    BY WatchAssumption DEF MODE, Normal
  <2>2. Next \/ ConfigureInterrupts(Flags)
    BY <1>1, <2>1 DEF Invoke, Start, Next, Application
  <2>. QED  BY <2>2, ModeStep, EnableCall
<1>2. CASE DriverStep \/ Park \/ ChipMode
  BY <1>2, ModeStep DEF DriverStep, Park, ChipMode, Next, Chip
<1>3. CASE Returned \/ NextCycle \/ Send \/ Drain \/ Count \/ Climb \/ Result \/ Core0 \/ ChipSend
  BY <1>3, ModeStep DEF Returned, NextCycle, Send, Drain, Count, Climb, Result, Core0, LoadStalls,
                       StoreMask, PrintPhase, ChipSend
<1>4. CASE Plain \/ Check \/ Verify
  BY <1>4, OnlyFaults DEF Plain, Check, Verify
<1>5. CASE UNCHANGED allVars
  BY <1>5, ModeStep DEF allVars
<1>. QED  BY <1>1, <1>2, <1>3, <1>4, <1>5 DEF WatchNext, Core1

-----------------------------------------------------------------------------
(* The lists of calls: what is left after the first, and which mode the    *)
(* chip is in before a call that asks for one.                             *)
LEMMA FromConfTails ==
  ASSUME NEW l \in FromConf
  PROVE  /\ l # <<>> /\ l \notin FromParked /\ l # FullConfigCycle
         /\ Head(l) \in {"init", "layout", "filter", "ints", "normal"}
         /\ Head(l) = "normal" => Tail(l) = <<>>
         /\ Head(l) # "normal" => Tail(l) \in FromConf
<1>1. CASE l = <<"init", "layout", "filter", "ints", "normal">>
  <2>1. l # <<>> /\ Head(l) = "init" /\ Tail(l) = <<"layout", "filter", "ints", "normal">>  BY <1>1
  <2>2. l \notin FromParked /\ l # FullConfigCycle  BY <1>1 DEF FromParked, FullConfigCycle
  <2>. QED  BY <2>1, <2>2 DEF FromConf
<1>2. CASE l = <<"layout", "filter", "ints", "normal">>
  <2>1. l # <<>> /\ Head(l) = "layout" /\ Tail(l) = <<"filter", "ints", "normal">>  BY <1>2
  <2>2. l \notin FromParked /\ l # FullConfigCycle  BY <1>2 DEF FromParked, FullConfigCycle
  <2>. QED  BY <2>1, <2>2 DEF FromConf
<1>3. CASE l = <<"filter", "ints", "normal">>
  <2>1. l # <<>> /\ Head(l) = "filter" /\ Tail(l) = <<"ints", "normal">>  BY <1>3
  <2>2. l \notin FromParked /\ l # FullConfigCycle  BY <1>3 DEF FromParked, FullConfigCycle
  <2>. QED  BY <2>1, <2>2 DEF FromConf
<1>4. CASE l = <<"ints", "normal">>
  <2>1. l # <<>> /\ Head(l) = "ints" /\ Tail(l) = <<"normal">>  BY <1>4
  <2>2. l \notin FromParked /\ l # FullConfigCycle  BY <1>4 DEF FromParked, FullConfigCycle
  <2>. QED  BY <2>1, <2>2 DEF FromConf
<1>5. CASE l = <<"init", "layout", "filter", "normal">>
  <2>1. l # <<>> /\ Head(l) = "init" /\ Tail(l) = <<"layout", "filter", "normal">>  BY <1>5
  <2>2. l \notin FromParked /\ l # FullConfigCycle  BY <1>5 DEF FromParked, FullConfigCycle
  <2>. QED  BY <2>1, <2>2 DEF FromConf
<1>6. CASE l = <<"layout", "filter", "normal">>
  <2>1. l # <<>> /\ Head(l) = "layout" /\ Tail(l) = <<"filter", "normal">>  BY <1>6
  <2>2. l \notin FromParked /\ l # FullConfigCycle  BY <1>6 DEF FromParked, FullConfigCycle
  <2>. QED  BY <2>1, <2>2 DEF FromConf
<1>7. CASE l = <<"filter", "normal">>
  <2>1. l # <<>> /\ Head(l) = "filter" /\ Tail(l) = <<"normal">>  BY <1>7
  <2>2. l \notin FromParked /\ l # FullConfigCycle  BY <1>7 DEF FromParked, FullConfigCycle
  <2>. QED  BY <2>1, <2>2 DEF FromConf
<1>8. CASE l = <<"normal">>
  <2>1. l # <<>> /\ Head(l) = "normal" /\ Tail(l) = <<>>  BY <1>8
  <2>2. l \notin FromParked /\ l # FullConfigCycle  BY <1>8 DEF FromParked, FullConfigCycle
  <2>. QED  BY <2>1, <2>2 DEF FromConf
<1>. QED  BY <1>1, <1>2, <1>3, <1>4, <1>5, <1>6, <1>7, <1>8 DEF FromConf

LEMMA FromParkedTails ==
  ASSUME NEW l \in FromParked
  PROVE  /\ l # <<>> /\ l # FullConfigCycle /\ Head(l) \in {"clear", "recover", "reset_fifo"}
         /\ Head(l) # "reset_fifo" => Tail(l) = <<>>
         /\ Head(l) = "reset_fifo" => Tail(l) = <<"recover">>
         /\ Head(l) = "clear" => l = <<"clear">>
         /\ Head(l) = "recover" => l = <<"recover">>
<1>1. CASE l = <<"clear">>
  <2>1. l # <<>> /\ Head(l) = "clear" /\ Tail(l) = <<>>  BY <1>1
  <2>2. l # FullConfigCycle  BY <1>1 DEF FullConfigCycle
  <2>. QED  BY <1>1, <2>1, <2>2
<1>2. CASE l = <<"recover">>
  <2>1. l # <<>> /\ Head(l) = "recover" /\ Tail(l) = <<>>  BY <1>2
  <2>2. l # FullConfigCycle  BY <1>2 DEF FullConfigCycle
  <2>. QED  BY <1>2, <2>1, <2>2
<1>3. CASE l = <<"reset_fifo", "recover">>
  <2>1. l # <<>> /\ Head(l) = "reset_fifo" /\ Tail(l) = <<"recover">>  BY <1>3
  <2>2. l # FullConfigCycle  BY <1>3 DEF FullConfigCycle
  <2>. QED  BY <1>3, <2>1, <2>2
<1>. QED  BY <1>1, <1>2, <1>3 DEF FromParked

LEMMA FullConfigTails ==
  /\ FullConfigCycle # <<>> /\ Head(FullConfigCycle) = "config"
  /\ Tail(FullConfigCycle) = <<"layout", "filter", "normal">>
  /\ Tail(FullConfigCycle) \in FromConf
BY DEF FullConfigCycle, FromConf

LEMMA ListHeads ==
  ASSUME NEW l \in Lists, l # <<>>
  PROVE  /\ Head(l) = "config" <=> l = FullConfigCycle
         /\ Head(l) \in {"clear", "recover", "reset_fifo"} <=> l \in FromParked
         /\ Head(l) \in {"init", "layout", "filter", "ints", "normal"} <=> l \in FromConf
BY FromConfTails, FromParkedTails, FullConfigTails DEF Lists

LEMMA BeforeRequest ==
  ASSUME calls \in Lists, calls # <<>>, Head(calls) \in ModeCalls, ModeFor(calls)
  PROVE  opmod # Target(Head(calls))
BY ListHeads DEF ModeFor, ModeCalls, Target, MODE, ErrorModes

-----------------------------------------------------------------------------
(* The transactions of a call. *)
LEMMA DriverTouches ==
  ASSUME ModeInv, Driver
  PROVE  /\ pc # "idle" /\ UNCHANGED <<opmod, byError, sysErrors, calm>>
         /\ pend' = pend \/ (pc = "write_con" /\ pend' = op.mode)
<1>1. Effect => /\ UNCHANGED <<opmod, byError>>
                /\ pend' = pend \/ (pc = "write_con" /\ pend' = op.mode)
  BY DEF Effect, RequestMode, ClearByte, EnableByte, WriteFifoCon
<1>. USE DEF hist
<1>2. CASE SpiFails  BY <1>1, <1>2 DEF SpiFails, chipVars
<1>3. CASE ReadCon \/ WriteCon \/ PollOk \/ PollAgain \/ PollTimeout
  BY <1>1, <1>3 DEF ReadCon, WriteCon, PollOk, PollAgain, PollTimeout, chipVars, bounds
<1>4. CASE NotParked \/ IsParked \/ ReadInt \/ Clear0 \/ Clear1 \/ Enable2 \/ Enable3
  BY <1>1, <1>4 DEF NotParked, IsParked, ReadInt, Clear0, Clear1, Enable2, Enable3, chipVars, bounds
<1>5. CASE NotInConfig \/ InConfig \/ WriteFifo \/ LayoutDone
  BY <1>1, <1>5 DEF NotInConfig, InConfig, WriteFifo, LayoutDone, chipVars, bounds
<1>. QED  BY <1>2, <1>3, <1>4, <1>5 DEF Driver

(* Where a call of the programs can go: on, or back with a result.         *)
Onwards ==
  /\ op'.call = op.call /\ op'.mode = op.mode
  /\ pc' # "idle"
  /\ pc' = "poll" => \/ pc = "poll" /\ pend' = pend
                     \/ pc = "write_con" /\ pend' = op.mode
  /\ pc' # "poll" => pend' = pend /\ pc # "poll" /\ op.call \in AllCalls
Back ==
  /\ pc' = "idle" /\ ret'.res = "ok" /\ ret'.call = op.call
  /\ pend' = pend
  /\ op.call \in {"set_mode", "recover"} => pc = "poll" /\ OpMod = op.mode
Fails == pc' = "idle" /\ Failed(ret'.res)
Declines == pc = "check_parked" /\ ~Parked /\ pc' = "idle"

LEMMA DriverGoes ==
  ASSUME ModeInv, Driver, pc = "write_con" => op.mode # "Sleep"
  PROVE  Onwards \/ Back \/ Fails \/ Declines
<1>. USE DEF ModeInv
<1>1. CallOf /\ op \in OpType  BY DEF CallInv
<1>2. CASE SpiFails  BY <1>2 DEF SpiFails, Return, Fails, Failed
<1>3. CASE ReadCon
  BY <1>1, <1>3 DEF ReadCon, Goto, Onwards, chipVars, CallOf, AllCalls
<1>4. CASE WriteCon
  <2>1. pc = "write_con" /\ pc' = "poll" /\ op' = [op EXCEPT !.polls = MaxPolls]
    BY <1>4 DEF WriteCon
  <2>2. pend' = op.mode  BY <1>4, <2>1 DEF WriteCon, Effect, RequestMode
  <2>. QED  BY <1>1, <2>1, <2>2 DEF Onwards, OpType
<1>5. CASE PollOk
  <2>1. pc = "poll" /\ OpMod = op.mode /\ pend' = pend  BY <1>5 DEF PollOk, chipVars
  <2>2. Return("ok")  BY <1>5 DEF PollOk, Finish, RecoverOrder
  <2>. QED  BY <2>1, <2>2 DEF Return, Back
<1>6. CASE PollAgain
  <2>1. op' = [op EXCEPT !.polls = @ - 1] /\ pc = "poll" /\ pc' = "poll" /\ pend' = pend
    BY <1>6 DEF PollAgain, chipVars
  <2>. QED  BY <1>1, <2>1 DEF Onwards, OpType
<1>7. CASE PollTimeout  BY <1>7 DEF PollTimeout, Return, Fails, Failed
<1>8. CASE NotParked  BY <1>8 DEF NotParked, Return, Declines
<1>9. CASE IsParked
  <2>1. op' = [op EXCEPT !.bits = Flags] /\ pc = "check_parked" /\ pc' = "clear0" /\ pend' = pend
    BY <1>9 DEF IsParked, RecoverOrder, chipVars
  <2>. QED  BY <1>1, <2>1 DEF Onwards, OpType, CallOf, AllCalls
<1>10. CASE ReadInt
  <2>1. op' = [op EXCEPT !.bits = flags] /\ pc = "read_int" /\ pc' = "clear0" /\ pend' = pend
    BY <1>10 DEF ReadInt, chipVars
  <2>. QED  BY <1>1, <2>1 DEF Onwards, OpType, CallOf, AllCalls
<1>11. CASE Clear0 \/ Enable2
  <2>1. pend' = pend
    BY <1>11 DEF Clear0, Enable2, Effect, ClearByte, EnableByte
  <2>. QED  BY <1>1, <1>11, <2>1 DEF Clear0, Enable2, Goto, Onwards, CallOf, AllCalls
<1>12. CASE Clear1
  <2>1. pc = "clear1" /\ pend' = pend /\ Finish("clear0")
    BY <1>12 DEF Clear1, Effect, ClearByte
  <2>2. op.call \in {"clear_interrupts", "recover"}  BY <1>1, <2>1 DEF CallOf
  <2>3. CASE op.call = "recover"
    <3>1. Goto("read_con")  BY <2>1, <2>3 DEF Finish, RecoverOrder
    <3>. QED  BY <2>1, <2>3, <3>1 DEF Goto, Onwards, AllCalls
  <2>4. CASE op.call = "clear_interrupts"
    <3>1. Return("ok")  BY <2>1, <2>4 DEF Finish, RecoverOrder
    <3>. QED  BY <2>1, <2>4, <3>1 DEF Return, Back
  <2>. QED  BY <2>2, <2>3, <2>4
<1>13. CASE Enable3
  <2>1. pc = "enable3" /\ pend' = pend /\ Return("ok")  BY <1>13 DEF Enable3, Effect, EnableByte
  <2>. QED  BY <1>1, <2>1 DEF Return, Back, CallOf
<1>14. CASE NotInConfig  BY <1>14 DEF NotInConfig, Return, Fails, Failed
<1>15. CASE InConfig
  BY <1>1, <1>15 DEF InConfig, Goto, Onwards, chipVars, CallOf, AllCalls
<1>16. CASE WriteFifo
  <2>1. op' = [op EXCEPT !.next = @ + 1] /\ pc = "write_fifo" /\ pc' = pc /\ pend' = pend
    BY <1>16 DEF WriteFifo, Effect, WriteFifoCon
  <2>. QED  BY <1>1, <2>1 DEF Onwards, OpType, CallOf, AllCalls
<1>17. CASE LayoutDone
  <2>1. pc = "write_fifo" /\ pend' = pend /\ Return("ok")  BY <1>17 DEF LayoutDone, chipVars
  <2>. QED  BY <1>1, <2>1 DEF Return, Back, CallOf
<1>. QED  BY <1>2, <1>3, <1>4, <1>5, <1>6, <1>7, <1>8, <1>9, <1>10, <1>11, <1>12, <1>13, <1>14,
             <1>15, <1>16, <1>17 DEF Driver

(* The call of the programs that the driver is in.                         *)
LEMMA CallAt ==
  ASSUME ModeInv, WatchInv, pc # "idle"
  PROVE  /\ active /\ calls \in Lists /\ calls # <<>> /\ Matches(Head(calls))
         /\ Head(calls) \in ModeCalls \cup {"layout", "ints", "clear"}
         /\ op.call \in {"set_mode", "recover"} <=> Head(calls) \in ModeCalls
         /\ Head(calls) \in ModeCalls => op.mode = Target(Head(calls))
         /\ op.call = "recover" <=> Head(calls) = "recover"
BY DEF WatchInv, WatchType, InCall, Matches, ModeCalls, Target

(* A step that leaves the lists, the counters and the mode alone.          *)
LEMMA WhereKept ==
  ASSUME Where, UNCHANGED <<prog, core1, sweep, history, opmod, byError>>, OnLadder => OnLadder'
  PROVE  Where'
<1>. USE DEF core1, sweep, history, Counted, Bench
<1>1. InCycle => InCycle'  BY DEF InCycle
<1>2. StallSeen => StallSeen'  BY DEF StallSeen
<1>3. StallCounted => StallCounted'  BY DEF StallCounted
<1>4. Recovering => Recovering'  BY DEF Recovering
<1>5. LastCalls => LastCalls'  BY DEF LastCalls
<1>. QED  BY <1>1, <1>2, <1>3, <1>4, <1>5 DEF Where

LEMMA ModeForKept == ASSUME UNCHANGED opmod, UNCHANGED calls, ModeFor(calls) PROVE ModeFor(calls)'
BY DEF ModeFor

(* A ladder of stall.rs through a transaction that did not end its call in *)
(* failure: FIFO TX is empty from the write that resets it, and an         *)
(* apply_layout that ends in Ok has made that write.                       *)
LEMMA LadderStep ==
  ASSUME ModeInv, WatchInv, DriverStep, Sound', OnLadder PROVE OnLadder'
<1>. USE DEF WatchInv
<1>1. /\ Driver /\ pc # "idle" /\ UNCHANGED <<opmod, byError, calm>>
      /\ queue' = (IF TX \in applied' \ applied THEN 0 ELSE queue)
      /\ UNCHANGED <<prog, todo, calls, active, outcome, rung, stalls, recovered, parks, clean>>
  BY DriverTouches DEF DriverStep, core1, history
<1>2. active /\ calls # <<>> /\ Matches(Head(calls))  BY <1>1, CallAt
<1>3. rung \in {0, 3} /\ Emptied' => queue' = 0  BY <1>1 DEF Emptied, OnLadder
<1>4. CalmLayout'
  <2>. SUFFICES ASSUME Head(calls) = "layout", pc' = "idle" PROVE TX \in applied'
    BY <1>1, <1>2 DEF OnLadder, CalmLayout
  <2>1. op.call = "apply_layout" /\ calm' = TRUE
    BY <1>1, <1>2 DEF Matches, OnLadder, CalmLayout, ModeInv
  <2>2. pc \in {"check_config", "write_fifo"}  BY <1>1, <2>1 DEF ModeInv, CallInv, CallOf, None
  <2>3. Back \/ Fails  BY <1>1, <2>2, DriverGoes DEF Onwards, Declines
  <2>4. ~Fails  BY <1>1, <1>2 DEF Fails, Sound, Failed
  <2>5. ret'.call = "apply_layout" /\ ret'.res = "ok"  BY <2>1, <2>3, <2>4 DEF Back
  <2>6. ModeInv'  BY WatchModeStep DEF WatchNext
  <2>7. applied' = 1 .. Fifos  BY <2>1, <2>5, <2>6 DEF ModeInv, Results, LayoutApplied
  <2>8. 1 \in 1 .. Fifos  BY WatchAssumption, ModeAssumption
  <2>. QED  BY <2>7, <2>8 DEF TX
<1>. QED  BY <1>1, <1>3, <1>4 DEF OnLadder

LEMMA DriverStepKeeps == ASSUME ModeInv, WatchInv, DriverStep PROVE WatchInv'
<1>. USE DEF WatchInv
<1>1. Driver /\ UNCHANGED <<prog, core1, sweep, history>> /\ pc # "idle"
  BY DriverTouches DEF DriverStep
<1>2. /\ UNCHANGED <<opmod, byError, sysErrors, prog, todo, calls, active, outcome, rung, stalls,
                     recovered, parks, clean>>
      /\ queue' \in {0, queue}
  BY <1>1, DriverTouches DEF DriverStep, core1, history
<1>3. active /\ calls # <<>> /\ Matches(Head(calls))  BY <1>1, CallAt
<1>4. pc = "write_con" => op.mode # "Sleep"
  <2>1. pc = "write_con" => op.call \in {"set_mode", "recover"}  BY DEF ModeInv, CallInv, CallOf
  <2>. QED  BY <1>1, <2>1, CallAt DEF Target, MODE
<1>5. WatchType'  BY <1>2, <1>3, WatchAssumption DEF WatchType
<1>6. Sound' => Sound /\ WatchChip /\ Where  BY <1>1, <1>2 DEF Sound
<1>7. Sound' => Where'  BY <1>1, <1>2, <1>6, WhereKept, LadderStep
<1>8. CASE Onwards
  <2>1. InCall'  BY <1>2, <1>3, <1>8 DEF Onwards, InCall, Matches
  <2>2. ASSUME Sound' PROVE WatchChip'
    <3>1. WatchChip  BY <1>6, <2>2
    <3>2. CASE pc' = "poll"
      <4>1. pc \in {"poll", "write_con"}  BY <1>8, <3>2 DEF Onwards
      <4>2. Head(calls) \in ModeCalls /\ op.mode = Target(Head(calls))
        <5>1. op.call \in {"set_mode", "recover"}  BY <4>1 DEF ModeInv, CallInv, CallOf
        <5>. QED  BY <1>1, <5>1, CallAt
      <4>3. Requested'  BY <1>2, <1>3, <3>2, <4>2 DEF Requested
      <4>4. CASE pc = "poll" /\ pend' = pend
        <5>1. Requested  BY <1>3, <4>2, <4>4 DEF Requested
        <5>. QED  BY <1>2, <3>1, <3>2, <4>3, <4>4, <5>1 DEF WatchChip
      <4>5. CASE pc = "write_con" /\ pend' = op.mode
        <5>1. ~Requested  BY <4>5 DEF Requested
        <5>2. opmod # Target(Head(calls))
          BY <1>3, <3>1, <4>2, <5>1, BeforeRequest DEF WatchChip, WatchType
        <5>. QED  BY <1>2, <3>1, <3>2, <4>2, <4>3, <4>5, <5>2 DEF WatchChip
      <4>. QED  BY <1>8, <3>2, <4>4, <4>5 DEF Onwards
    <3>3. CASE pc' # "poll"
      <4>1. ~Requested /\ ~Requested' /\ pend' = pend
        BY <1>1, <1>8, <3>3 DEF Onwards, Requested
      <4>2. ModeFor(calls)'  BY <1>2, <3>1, <4>1, ModeForKept DEF WatchChip
      <4>. QED  BY <1>2, <1>8, <3>1, <4>1, <4>2 DEF WatchChip, Onwards
    <3>. QED  BY <3>2, <3>3
  <2>. QED  BY <1>5, <1>6, <1>7, <2>1, <2>2
<1>9. CASE Back
  <2>1. InCall'  BY <1>9 DEF Back, InCall
  <2>2. ASSUME Sound' PROVE WatchChip'
    <3>1. WatchChip  BY <1>6, <2>2
    <3>2. CASE Head(calls) \in ModeCalls
      <4>1. pc = "poll" /\ OpMod = Target(Head(calls))
        BY <1>1, <1>9, <3>2, CallAt DEF Back
      <4>2. Requested /\ Requested'  BY <1>2, <1>3, <1>9, <3>2, <4>1 DEF Requested, Back
      <4>3. OpMod = opmod  BY <3>1 DEF WatchChip, OpMod, MODE, ErrorModes
      <4>. QED  BY <1>2, <1>9, <3>1, <4>1, <4>2, <4>3 DEF WatchChip, Back
    <3>3. CASE Head(calls) \notin ModeCalls
      <4>1. ~Requested /\ ~Requested'  BY <1>2, <3>3 DEF Requested
      <4>2. ModeFor(calls)'  BY <1>2, <3>1, <4>1, ModeForKept DEF WatchChip
      <4>. QED  BY <1>2, <1>9, <3>1, <4>1, <4>2 DEF WatchChip, Back
    <3>. QED  BY <3>2, <3>3
  <2>. QED  BY <1>5, <1>6, <1>7, <2>1, <2>2
<1>10. CASE Fails
  <2>1. ~Sound'  BY <1>2, <1>3, <1>10 DEF Fails, Sound, Failed
  <2>2. InCall'  BY <1>10 DEF Fails, InCall
  <2>. QED  BY <1>5, <2>1, <2>2
<1>11. CASE Declines
  <2>1. InCall'  BY <1>11 DEF Declines, InCall
  <2>2. ~Sound'
    <3>1. SUFFICES ASSUME Sound' PROVE FALSE  OBVIOUS
    <3>2. WatchChip  BY <1>6, <3>1
    <3>3. op.call = "recover"  BY <1>11 DEF Declines, ModeInv, CallInv, CallOf
    <3>4. calls \in FromParked
      BY <1>1, <3>3, CallAt, ListHeads
    <3>5. opmod \in ErrorModes
      BY <1>11, <3>2, <3>4 DEF WatchChip, Requested, Declines, ModeFor
    <3>. QED  BY <1>11, <3>5 DEF Declines, Parked, OpMod, ErrorModes
  <2>. QED  BY <1>5, <2>1, <2>2
<1>. QED  BY <1>1, <1>4, <1>8, <1>9, <1>10, <1>11, DriverGoes

-----------------------------------------------------------------------------
(* What core 1 does with a stalled chip, by program.                       *)
LEMMA SourceStalled ==
  ASSUME NEW p \in DOMAIN Source
  PROVE  /\ p = "stall" => Source[p].stalled = <<"count", "ladder", "verify">>
         /\ p = "blocking_core1" => Source[p].stalled = <<"count", "recover">>
         /\ p \notin {"stall", "blocking_core1"} => Source[p].stalled = <<"count", "recover", "result">>
         /\ Source[p].setup \in FromConf
<1>1. p \in {"stall", "blocking_core1", "bench_async", "bench_blocking", "bench_interference",
             "bench_interference_blocking", "bench_d10"}
  BY DEF Source
<1>2. CASE p = "stall"
  <2>1. Source[p] = Stall  BY <1>2 DEF Source
  <2>. QED  BY <1>2, <2>1 DEF Stall, Program, Setup, FromConf
<1>3. CASE p = "blocking_core1"
  <2>1. Source[p] = BlockingCore1  BY <1>3 DEF Source
  <2>. QED  BY <1>3, <2>1 DEF BlockingCore1, Program, SetupNoInts, FromConf
<1>4. CASE p = "bench_async"
  <2>1. Source[p] = BenchAsync  BY <1>4 DEF Source
  <2>. QED  BY <1>4, <2>1 DEF BenchAsync, Program, Setup, FromConf
<1>5. CASE p = "bench_blocking"
  <2>1. Source[p] = BenchBlocking  BY <1>5 DEF Source
  <2>. QED  BY <1>5, <2>1 DEF BenchBlocking, Program, Setup, FromConf
<1>6. CASE p = "bench_interference"
  <2>1. Source[p] = BenchInterference  BY <1>6 DEF Source
  <2>. QED  BY <1>6, <2>1 DEF BenchInterference, Program, Setup, FromConf
<1>7. CASE p = "bench_interference_blocking"
  <2>1. Source[p] = BenchInterferenceBlocking  BY <1>7 DEF Source
  <2>. QED  BY <1>7, <2>1 DEF BenchInterferenceBlocking, Program, Setup, FromConf
<1>8. CASE p = "bench_d10"
  <2>1. Source[p] = BenchD10  BY <1>8 DEF Source
  <2>. QED  BY <1>8, <2>1 DEF BenchD10, Program, Setup, FromConf
<1>. QED  BY <1>1, <1>2, <1>3, <1>4, <1>5, <1>6, <1>7, <1>8

LEMMA Stalled ==
  ASSUME prog \in Programs
  PROVE  \/ Source[prog].stalled = <<"count", "ladder", "verify">> /\ prog = "stall" /\ ~Bench
         \/ Source[prog].stalled = <<"count", "recover">> /\ prog # "stall" /\ ~Bench
         \/ Source[prog].stalled = <<"count", "recover", "result">> /\ prog # "stall" /\ Bench
<1>1. prog \in DOMAIN Source  BY ProgramsAssumption
<1>2. "result" \notin Range(<<"count", "ladder", "verify">>)  BY DEF Range
<1>3. "result" \notin Range(<<"count", "recover">>)  BY DEF Range
<1>4. "result" \in Range(<<"count", "recover", "result">>)
  <2>1. PICK f : f = <<"count", "recover", "result">>  OBVIOUS
  <2>2. 3 \in DOMAIN f /\ f[3] = "result"  BY <2>1
  <2>. QED  BY <2>1, <2>2 DEF Range
<1>. QED  BY <1>1, <1>2, <1>3, <1>4, SourceStalled DEF Bench

LEMMA StepLists ==
  /\ Cycle = <<"send", "drain", "check">> /\ Cycle # <<>>
  /\ Head(Cycle) = "send" /\ Tail(Cycle) = <<"drain", "check">>
  /\ Head(<<"drain", "check">>) = "drain" /\ Tail(<<"drain", "check">>) = <<"check">>
  /\ Head(<<"check">>) = "check" /\ Tail(<<"check">>) = <<>>
  /\ Head(<<"count", "ladder", "verify">>) = "count"
  /\ Tail(<<"count", "ladder", "verify">>) = <<"ladder", "verify">>
  /\ Head(<<"count", "recover">>) = "count" /\ Tail(<<"count", "recover">>) = <<"recover">>
  /\ Head(<<"count", "recover", "result">>) = "count"
  /\ Tail(<<"count", "recover", "result">>) = <<"recover", "result">>
  /\ Head(<<"ladder", "verify">>) = "ladder" /\ Tail(<<"ladder", "verify">>) = <<"verify">>
  /\ Head(<<"recover", "result">>) = "recover" /\ Tail(<<"recover", "result">>) = <<"result">>
  /\ Head(<<"recover">>) = "recover" /\ Tail(<<"recover">>) = <<>>
  /\ Head(<<"result">>) = "result" /\ Tail(<<"result">>) = <<>>
  /\ Head(<<"verify">>) = "verify" /\ Tail(<<"verify">>) = <<>>
BY DEF Cycle

(* Where core 1 is, from the next step of its cycle.                       *)
LEMMA AtWhere ==
  ASSUME prog \in Programs, Where
  PROVE  /\ todo = <<>> /\ calls = <<>> => InCycle
         /\ todo # <<>> /\ Head(todo) \in {"send", "drain", "check"} => InCycle
         /\ todo # <<>> /\ Head(todo) = "send" => Tail(todo) = <<"drain", "check">>
         /\ todo # <<>> /\ Head(todo) = "drain" => Tail(todo) = <<"check">>
         /\ todo # <<>> /\ Head(todo) = "count" => StallSeen
         /\ todo # <<>> /\ Head(todo) \in {"ladder", "recover"} => StallCounted
         /\ todo # <<>> /\ Head(todo) = "result" => Recovering /\ Tail(todo) = <<>>
         /\ todo # <<>> /\ Head(todo) = "verify" => OnLadder /\ Tail(todo) = <<>>
         /\ calls # <<>> => Recovering \/ LastCalls \/ OnLadder
<1>1. CASE InCycle
  BY <1>1, StepLists DEF InCycle
<1>2. CASE StallSeen
  <2>1. todo # <<>> /\ Head(todo) = "count"
    <3>1. CASE todo = <<"count", "ladder", "verify">>  BY <3>1
    <3>2. CASE todo = <<"count", "recover">>  BY <3>2
    <3>3. CASE todo = <<"count", "recover", "result">>  BY <3>3
    <3>. QED  BY <1>2, <3>1, <3>2, <3>3, Stalled DEF StallSeen
  <2>2. calls = <<>>  BY <1>2 DEF StallSeen
  <2>. QED  BY <1>2, <2>1, <2>2
<1>3. CASE StallCounted
  <2>1. todo # <<>> /\ Head(todo) \in {"recover", "ladder"}
    <3>1. CASE todo = <<"recover", "result">>  BY <3>1
    <3>2. CASE todo = <<"recover">>  BY <3>2
    <3>3. CASE todo = <<"ladder", "verify">>  BY <3>3
    <3>. QED  BY <1>3, <3>1, <3>2, <3>3 DEF StallCounted
  <2>2. calls = <<>>  BY <1>3 DEF StallCounted
  <2>. QED  BY <1>3, <2>1, <2>2
<1>4. CASE Recovering
  BY <1>4, StepLists DEF Recovering
<1>5. CASE LastCalls
  <2>1. calls # <<>>  BY <1>5, FromConfTails, FullConfigTails DEF LastCalls
  <2>. QED  BY <1>5, <2>1 DEF LastCalls
<1>6. CASE OnLadder
  BY <1>6, StepLists DEF OnLadder
<1>. QED  BY <1>1, <1>2, <1>3, <1>4, <1>5, <1>6 DEF Where

-----------------------------------------------------------------------------
(* The calls: how one begins, and what is left when it is done.            *)
LEMMA TailsAreLists == ASSUME NEW l \in Lists, l # <<>> PROVE Tail(l) \in Lists
<1>1. CASE l \in FromConf  BY <1>1, FromConfTails DEF Lists
<1>2. CASE l \in FromParked
  <2>1. Tail(l) \in {<<>>, <<"recover">>}  BY <1>2, FromParkedTails
  <2>. QED  BY <2>1 DEF Lists, FromParked
<1>3. CASE l = FullConfigCycle  BY <1>3, FullConfigTails DEF Lists
<1>. QED  BY <1>1, <1>2, <1>3 DEF Lists

LEMMA TailMode ==
  ASSUME calls \in Lists, calls # <<>>,
         Head(calls) \in ModeCalls => opmod = Target(Head(calls)),
         Head(calls) \notin ModeCalls => ModeFor(calls)
  PROVE  Tail(calls) \in Lists /\ ModeFor(Tail(calls))
<1>1. CASE calls \in FromConf
  <2>1. CASE Head(calls) = "normal"
    <3>1. Tail(calls) = <<>> /\ opmod = MODE
      BY <1>1, <2>1, FromConfTails DEF ModeCalls, Target
    <3>2. <<>> \notin FromConf /\ <<>> \notin FromParked  BY FromConfTails, FromParkedTails
    <3>. QED  BY <3>1, <3>2, FullConfigTails DEF ModeFor, MODE, Lists
  <2>2. CASE Head(calls) # "normal"
    <3>1. Tail(calls) \in FromConf /\ Head(calls) \notin ModeCalls
      BY <1>1, <2>2, FromConfTails DEF ModeCalls
    <3>2. opmod = "Configuration"  BY <1>1, <3>1 DEF ModeFor
    <3>. QED  BY <3>1, <3>2, FromConfTails DEF ModeFor, Lists
  <2>. QED  BY <2>1, <2>2
<1>2. CASE calls \in FromParked
  <2>0. <<>> \notin FromConf /\ <<>> \notin FromParked  BY FromConfTails, FromParkedTails
  <2>1. CASE Head(calls) = "recover"
    <3>1. Tail(calls) = <<>> /\ opmod = MODE
      BY <1>2, <2>1, FromParkedTails DEF ModeCalls, Target
    <3>. QED  BY <2>0, <3>1, FullConfigTails DEF ModeFor, MODE, Lists
  <2>2. CASE Head(calls) = "clear"
    <3>1. Tail(calls) = <<>> /\ opmod \in ErrorModes
      BY <1>2, <2>2, FromParkedTails DEF ModeCalls, ModeFor
    <3>. QED  BY <2>0, <3>1, FullConfigTails DEF ModeFor, ErrorModes, Lists
  <2>3. CASE Head(calls) = "reset_fifo"
    <3>1. Tail(calls) = <<"recover">> /\ opmod \in ErrorModes
      BY <1>2, <2>3, FromParkedTails DEF ModeCalls, ModeFor
    <3>2. <<"recover">> \in FromParked  BY DEF FromParked
    <3>3. <<"recover">> \notin FromConf /\ <<"recover">> \notin {FullConfigCycle, <<>>}
      BY <3>2, FromConfTails, FromParkedTails
    <3>. QED  BY <3>1, <3>2, <3>3 DEF ModeFor, Lists
  <2>. QED  BY <1>2, <2>1, <2>2, <2>3, FromParkedTails
<1>3. CASE calls = FullConfigCycle
  <2>1. opmod = "Configuration" /\ Tail(calls) \in FromConf
    BY <1>3, FullConfigTails DEF ModeCalls, Target
  <2>. QED  BY <2>1, FromConfTails DEF ModeFor, Lists
<1>. QED  BY <1>1, <1>2, <1>3 DEF Lists

LEMMA StartGoes ==
  ASSUME NEW c, Start(c)
  PROVE  /\ pc' \in {"read_con", "check_parked", "read_int", "enable2", "check_config"}
         /\ Matches(c)' /\ c \in ModeCalls \cup {"layout", "ints", "clear"}
         /\ UNCHANGED <<opmod, pend, byError, sysErrors>>
         /\ applied' = IF c = "layout" THEN {} ELSE applied
         /\ calm' = (pend = None /\ opmod # "Sleep")
<1>. USE DEF Start, Call, Matches, ModeCalls, chipVars, bounds, NoOp
<1>1. CASE c = "config"  BY <1>1 DEF SetMode
<1>2. CASE c = "normal"  BY <1>2 DEF SetMode
<1>3. CASE c = "ints"  BY <1>3 DEF ConfigureInterrupts
<1>4. CASE c = "layout"  BY <1>4 DEF ApplyLayout
<1>5. CASE c = "recover"  BY <1>5 DEF Recover
<1>6. CASE c = "clear"  BY <1>6 DEF ClearInterrupts
<1>. QED  BY <1>1, <1>2, <1>3, <1>4, <1>5, <1>6

LEMMA InvokeKeeps == ASSUME WatchInv, Invoke PROVE WatchInv'
<1>. USE DEF WatchInv
<1>1. /\ pc = "idle" /\ ~active /\ calls # <<>> /\ Start(Head(calls)) /\ active' = TRUE
      /\ UNCHANGED <<prog, todo, calls, outcome, rung, stalls, recovered, queue, parks, clean>>
  BY DEF Invoke, Idle, history
<1>2. PICK c : c = Head(calls)  OBVIOUS
<1>3. /\ pc' \in {"read_con", "check_parked", "read_int", "enable2", "check_config"}
      /\ Matches(c)' /\ c \in ModeCalls \cup {"layout", "ints", "clear"}
      /\ UNCHANGED <<opmod, pend, byError, sysErrors>>
      /\ applied' = IF c = "layout" THEN {} ELSE applied
      /\ calm' = (pend = None /\ opmod # "Sleep")
  BY <1>1, <1>2, StartGoes
<1>4. Head(calls)' = c  BY <1>1, <1>2
<1>5. InCall'  BY <1>2, <1>3, <1>4, <1>1 DEF InCall, Matches
<1>6. WatchType'  BY <1>1, <1>3, <1>4, WatchAssumption DEF WatchType
<1>7. ASSUME Sound' PROVE WatchChip' /\ Where'
  <2>1. WatchChip /\ Where  BY <1>1, <1>7 DEF Sound
  <2>2. ~Requested /\ ~Requested'  BY <1>1, <1>3 DEF Requested
  <2>3. ModeFor(calls)'  BY <1>1, <1>3, <2>1, <2>2, ModeForKept DEF WatchChip
  <2>4. WatchChip'  BY <1>3, <2>1, <2>2, <2>3 DEF WatchChip
  <2>5. Recovering \/ LastCalls \/ OnLadder
    BY <1>1, <2>1, AtWhere DEF WatchType
  <2>6. Recovering => Recovering'  BY <1>1, <1>3 DEF Recovering, Counted, Bench
  <2>7. LastCalls => LastCalls'  BY <1>1, <1>3 DEF LastCalls, Counted, Bench
  <2>8. OnLadder => OnLadder'
    <3>1. Emptied' => Emptied  BY <1>1, <1>3, <1>4 DEF Emptied
    <3>2. CalmLayout'
      <4>1. pend = None /\ opmod # "Sleep"  BY <2>1, <2>2 DEF WatchChip, ErrorModes, MODE
      <4>. QED  BY <1>3, <4>1 DEF CalmLayout
    <3>. QED  BY <1>1, <1>3, <3>1, <3>2 DEF OnLadder
  <2>. QED  BY <2>4, <2>5, <2>6, <2>7, <2>8 DEF Where
<1>. QED  BY <1>5, <1>6, <1>7

(* A call that is done: the next one of the list, and where that leaves    *)
(* core 1.                                                                 *)
LEMMA CallDone ==
  ASSUME WatchInv, Sound, calls # <<>>,
         active \/ Head(calls) \in {"init", "filter", "reset_fifo"},
         calls' = Tail(calls), outcome' = "ok", active' = FALSE, pc' = "idle", pc = "idle",
         UNCHANGED <<opmod, pend, byError, prog, todo, rung, stalls, recovered, parks>>,
         queue' = IF Head(calls) = "reset_fifo" THEN 0 ELSE queue
  PROVE  Tail(calls) \in Lists /\ WatchChip' /\ Where'
<1>. USE DEF WatchInv
<1>1. WatchChip /\ Where /\ calls \in Lists  BY DEF WatchType
<1>2. /\ Head(calls) \in ModeCalls => pend = None /\ opmod = Target(Head(calls))
      /\ Head(calls) \notin ModeCalls => pend = None /\ ModeFor(calls)
  BY <1>1 DEF WatchChip, Requested, ModeCalls
<1>3. Tail(calls) \in Lists /\ ModeFor(Tail(calls))  BY <1>1, <1>2, TailMode
<1>4. WatchChip'
  <2>1. ModeFor(calls')  BY <1>3
  <2>2. ModeFor(calls)'  BY <2>1 DEF ModeFor
  <2>. QED  BY <1>1, <1>2, <2>2 DEF WatchChip, Requested
<1>5. Head(calls) \in {"config", "normal", "recover", "layout", "ints", "clear",
                       "init", "filter", "reset_fifo"}
  BY DEF WatchType, ModeCalls
<1>6. Recovering \/ LastCalls \/ OnLadder  BY <1>1, AtWhere DEF WatchType
<1>7. CASE Recovering
  <2>1. calls = <<"recover">>  BY <1>7 DEF Recovering
  <2>2. Head(calls) = "recover" /\ Tail(calls) = <<>>  BY <2>1
  <2>3. opmod = MODE  BY <1>2, <2>2 DEF ModeCalls, Target
  <2>4. Recovering'  BY <1>7, <2>2, <2>3 DEF Recovering, Counted, Bench
  <2>. QED  BY <1>3, <1>4, <2>4 DEF Where
<1>8. CASE LastCalls
  <2>1. CASE Head(calls) \in {"normal", "recover"}
    <3>1. Tail(calls) = <<>>
      <4>1. CASE calls \in FromConf  BY <2>1, <4>1, FromConfTails
      <4>2. CASE calls = <<"recover">>  BY <4>2
      <4>3. CASE calls = FullConfigCycle  BY <2>1, <4>3, FullConfigTails
      <4>. QED  BY <1>8, <4>1, <4>2, <4>3 DEF LastCalls
    <3>2. opmod = MODE  BY <1>2, <2>1 DEF ModeCalls, Target
    <3>3. ~byError  BY <1>1, <3>2 DEF WatchChip, ErrorModes, MODE
    <3>4. InCycle'  BY <1>8, <3>1, <3>3 DEF LastCalls, InCycle, Counted, Bench
    <3>. QED  BY <1>3, <1>4, <3>4 DEF Where
  <2>2. CASE Head(calls) \notin {"normal", "recover"}
    <3>1. Tail(calls) \in FromConf
      BY <1>8, <2>2, FromConfTails, FullConfigTails DEF LastCalls
    <3>2. LastCalls'  BY <1>8, <3>1 DEF LastCalls, Counted, Bench
    <3>. QED  BY <1>3, <1>4, <3>2 DEF Where
  <2>. QED  BY <2>1, <2>2
<1>9. CASE OnLadder
  <2>0. rung \in 0 .. 3 /\ queue \in Nat /\ CalmLayout'
    BY WatchAssumption DEF WatchType, CalmLayout
  <2>1. Head(calls) \in {"normal", "recover"} => opmod = MODE
    BY <1>2 DEF ModeCalls, Target
  <2>2. CASE rung = 1
    <3>1. calls = <<"clear">>  BY <1>9, <2>2 DEF OnLadder
    <3>2. Tail(calls) = <<>>  BY <3>1
    <3>. QED  BY <1>3, <1>4, <1>9, <2>0, <2>2, <3>2 DEF OnLadder, Where
  <2>3. CASE rung = 2
    <3>1. calls = <<"recover">>  BY <1>9, <2>3 DEF OnLadder
    <3>2. Head(calls) = "recover" /\ Tail(calls) = <<>>  BY <3>1
    <3>. QED  BY <1>3, <1>4, <1>9, <2>0, <2>1, <2>3, <3>2 DEF OnLadder, Where
  <2>4. CASE rung = 3
    <3>1. CASE calls = <<"recover">>
      <4>1. Head(calls) = "recover" /\ Tail(calls) = <<>>  BY <3>1
      <4>2. queue = 0  BY <1>9, <2>4, <3>1 DEF OnLadder, Emptied
      <4>. QED  BY <1>3, <1>4, <1>9, <2>0, <2>1, <2>4, <4>1, <4>2 DEF OnLadder, Where
    <3>2. CASE calls = <<"reset_fifo", "recover">>
      <4>1. Head(calls) = "reset_fifo" /\ Tail(calls) = <<"recover">>  BY <3>2
      <4>2. <<"recover">> # <<>>  OBVIOUS
      <4>. QED  BY <1>3, <1>4, <1>9, <2>0, <2>4, <4>1, <4>2 DEF OnLadder, Where
    <3>. QED  BY <1>9, <2>4, <3>1, <3>2 DEF OnLadder
  <2>5. CASE rung = 0
    <3>1. CASE calls = FullConfigCycle
      <4>1. Head(calls) = "config" /\ Tail(calls) = <<"layout", "filter", "normal">>
        BY <3>1, FullConfigTails
      <4>2. ~Emptied'  BY <4>1 DEF Emptied
      <4>3. <<"layout", "filter", "normal">> # <<>>  OBVIOUS
      <4>. QED  BY <1>3, <1>4, <1>9, <2>0, <2>5, <4>1, <4>2, <4>3 DEF OnLadder, Where
    <3>2. CASE calls = <<"layout", "filter", "normal">>
      <4>1. Head(calls) = "layout" /\ Tail(calls) = <<"filter", "normal">>  BY <3>2
      <4>2. queue = 0  BY <1>9, <2>5, <4>1 DEF OnLadder, Emptied, CalmLayout
      <4>3. <<"filter", "normal">> # <<>>  OBVIOUS
      <4>. QED  BY <1>3, <1>4, <1>9, <2>0, <2>5, <4>1, <4>2, <4>3 DEF OnLadder, Where
    <3>3. CASE calls = <<"filter", "normal">>
      <4>1. Head(calls) = "filter" /\ Tail(calls) = <<"normal">>  BY <3>3
      <4>2. queue = 0  BY <1>9, <2>5, <3>3 DEF OnLadder, Emptied
      <4>3. <<"normal">> # <<>>  OBVIOUS
      <4>. QED  BY <1>3, <1>4, <1>9, <2>0, <2>5, <4>1, <4>2, <4>3 DEF OnLadder, Where
    <3>4. CASE calls = <<"normal">>
      <4>1. Head(calls) = "normal" /\ Tail(calls) = <<>>  BY <3>4
      <4>2. queue = 0  BY <1>9, <2>5, <3>4 DEF OnLadder, Emptied
      <4>. QED  BY <1>3, <1>4, <1>9, <2>0, <2>1, <2>5, <4>1, <4>2 DEF OnLadder, Where
    <3>. QED  BY <1>9, <2>5, <3>1, <3>2, <3>3, <3>4 DEF OnLadder
  <2>. QED  BY <2>0, <2>2, <2>3, <2>4, <2>5
<1>. QED  BY <1>6, <1>7, <1>8, <1>9

(* The list after a call that failed, or did not.                          *)
LEMMA ReturnedKeeps == ASSUME WatchInv, Returned PROVE WatchInv'
<1>. USE DEF WatchInv
<1>1. /\ pc = "idle" /\ active /\ active' = FALSE /\ Ended(ret.res)
      /\ UNCHANGED <<pc, ret, opmod, pend, byError, sysErrors, prog, todo, rung, stalls,
                     recovered, queue, parks>>
  BY DEF Returned, vars, driverVars, chipVars, bounds
<1>2. calls # <<>> /\ Head(calls) \in ModeCalls \cup {"layout", "ints", "clear"}
  BY <1>1 DEF WatchType
<1>3. InCall'  BY <1>1 DEF InCall
<1>4. CASE Failed(ret.res)
  <2>1. calls' = <<>> /\ outcome' = "err" /\ clean' = FALSE  BY <1>1, <1>4 DEF Ended
  <2>2. WatchType'  BY <1>1, <2>1 DEF WatchType, Lists
  <2>3. ~Sound'  BY <2>1 DEF Sound
  <2>. QED  BY <1>3, <2>2, <2>3
<1>5. CASE ~Failed(ret.res) /\ ~clean
  <2>1. calls' = Tail(calls) /\ clean' = FALSE  BY <1>1, <1>5 DEF Ended, WatchType
  <2>2. ~Sound'  BY <2>1 DEF Sound
  <2>3. Tail(calls) \in Lists  BY <1>2, TailsAreLists DEF WatchType
  <2>4. WatchType'  BY <1>1, <2>1, <2>3 DEF WatchType
  <2>. QED  BY <1>3, <2>2, <2>4
<1>6. CASE ~Failed(ret.res) /\ clean
  <2>1. Sound  BY <1>6 DEF Sound
  <2>2. ret.res = "ok"  BY <1>1, <2>1 DEF WatchChip
  <2>3. calls' = Tail(calls) /\ outcome' = "ok" /\ clean' = TRUE
    BY <1>1, <1>6, <2>2 DEF Ended, WatchType
  <2>4. Tail(calls) \in Lists /\ WatchChip' /\ Where'
    BY <1>1, <1>2, <2>1, <2>3, CallDone DEF ModeCalls
  <2>5. WatchType'  BY <1>1, <2>3, <2>4 DEF WatchType
  <2>. QED  BY <1>3, <2>4, <2>5
<1>. QED  BY <1>4, <1>5, <1>6

LEMMA PlainKeeps == ASSUME ModeInv, WatchInv, Plain PROVE WatchInv'
<1>. USE DEF WatchInv
<1>1. /\ pc = "idle" /\ ~active /\ calls # <<>>
      /\ Head(calls) \in {"init", "filter", "reset_fifo"}
      /\ UNCHANGED <<pc, ret, opmod, pend, byError, sysErrors, prog, todo, active, rung, stalls,
                     recovered, parks>>
      /\ queue' = IF Head(calls) = "reset_fifo" /\ faults' = faults THEN 0 ELSE queue
  BY DEF Plain, Idle, driverVars, chipVars
<1>2. InCall'  BY <1>1 DEF InCall
<1>3. queue' \in 0 .. Depth  BY <1>1, WatchAssumption DEF WatchType
<1>4. CASE Ended("spi")
  <2>1. calls' = <<>> /\ outcome' = "err" /\ clean' = FALSE  BY <1>4 DEF Ended, Failed
  <2>2. WatchType'  BY <1>1, <1>3, <2>1 DEF WatchType, Lists
  <2>3. ~Sound'  BY <2>1 DEF Sound
  <2>. QED  BY <1>2, <2>2, <2>3
<1>5. CASE Ended("ok") /\ UNCHANGED faults
  <2>1. calls' = Tail(calls) /\ outcome' = "ok" /\ clean' = clean
    BY <1>5 DEF Ended, Failed, WatchType
  <2>2. Tail(calls) \in Lists  BY <1>1, TailsAreLists DEF WatchType
  <2>3. WatchType'  BY <1>1, <1>3, <2>1, <2>2 DEF WatchType
  <2>4. Sound' => Sound  BY <1>1, <2>1 DEF Sound
  <2>5. active' = FALSE  BY <1>1 DEF WatchType
  <2>6. Sound => WatchChip' /\ Where'
    BY <1>1, <1>5, <2>1, <2>5, CallDone
  <2>. QED  BY <1>2, <2>3, <2>4, <2>6
<1>. QED  BY <1>4, <1>5 DEF Plain

-----------------------------------------------------------------------------
(* The steps of a cycle, and of the chip between calls.                    *)
LEMMA EmptyList ==
  /\ <<>> \notin FromConf /\ <<>> \notin FromParked /\ <<>> # FullConfigCycle
  /\ <<>> \in Lists /\ <<"recover">> \in FromParked /\ <<"recover">> # <<>>
BY FromConfTails, FromParkedTails, FullConfigTails DEF Lists, FromParked

(* Nothing changes in what the chip and the calls are.                     *)
LEMMA ChipKept ==
  ASSUME WatchChip, ~active, UNCHANGED <<pc, ret, opmod, pend, byError, active>>,
         calls' = calls \/ ModeFor(calls')
  PROVE  WatchChip'
<1>1. ~Requested /\ ~Requested'  BY DEF Requested
<1>2. ModeFor(calls)'  BY <1>1 DEF WatchChip, ModeFor
<1>. QED  BY <1>1, <1>2 DEF WatchChip

LEMMA CycleKeeps == ASSUME WatchInv, NextCycle \/ Send \/ Drain PROVE WatchInv'
<1>. USE DEF WatchInv
<1>1. /\ pc = "idle" /\ ~active /\ calls = <<>>
      /\ UNCHANGED <<pc, ret, opmod, pend, byError, sysErrors, prog, active, calls, outcome, rung,
                     stalls, recovered, parks, clean>>
  BY DEF NextCycle, Send, Drain, At, Ready, Idle, vars, driverVars, chipVars, bounds, history
<1>2. queue' \in 0 .. Depth
  BY WatchAssumption, SMT DEF NextCycle, Send, Drain, WatchType
<1>3. WatchType'  BY <1>1, <1>2 DEF WatchType
<1>4. InCall'  BY <1>1 DEF InCall
<1>5. ASSUME Sound' PROVE WatchChip' /\ Where'
  <2>1. WatchChip /\ Where  BY <1>1, <1>5 DEF Sound
  <2>2. WatchChip'  BY <1>1, <2>1, ChipKept
  <2>3. InCycle /\ todo' \in {Cycle, <<"drain", "check">>, <<"check">>}
    BY <1>1, <2>1, AtWhere, StepLists DEF NextCycle, Send, Drain, At, WatchType
  <2>4. InCycle'  BY <1>1, <2>3 DEF InCycle, Counted, Bench
  <2>. QED  BY <2>2, <2>4 DEF Where
<1>. QED  BY <1>3, <1>4, <1>5

LEMMA CheckKeeps == ASSUME WatchInv, Check PROVE WatchInv'
<1>. USE DEF WatchInv
<1>1. /\ pc = "idle" /\ ~active /\ calls = <<>> /\ todo # <<>> /\ Head(todo) = "check"
      /\ UNCHANGED <<pc, ret, opmod, pend, byError, sysErrors, prog, active, calls, outcome, rung,
                     stalls, recovered, queue, parks>>
  BY DEF Check, At, Ready, Idle, driverVars, chipVars
<1>2. InCall'  BY <1>1 DEF InCall
<1>3. CASE FailedRead
  <2>1. WatchType' /\ ~Sound'  BY <1>1, <1>3 DEF FailedRead, WatchType, Sound
  <2>. QED  BY <1>2, <2>1
<1>4. CASE todo' = (IF is_stalled THEN Source[prog].stalled ELSE <<>>) /\ UNCHANGED clean
  <2>1. WatchType'  BY <1>1, <1>4 DEF WatchType
  <2>2. ASSUME Sound' PROVE WatchChip' /\ Where'
    <3>1. WatchChip /\ Where  BY <1>1, <1>4, <2>2 DEF Sound
    <3>2. WatchChip'  BY <1>1, <3>1, ChipKept
    <3>3. InCycle  BY <1>1, <3>1, AtWhere DEF WatchType
    <3>4. is_stalled <=> opmod \in ErrorModes
      BY <3>1 DEF WatchChip, is_stalled, OpMod, ErrorModes, MODE
    <3>5. byError <=> opmod \in ErrorModes  BY <3>1 DEF WatchChip
    <3>6. CASE is_stalled
      <4>1. StallSeen'  BY <1>1, <1>4, <3>3, <3>4, <3>5, <3>6 DEF InCycle, StallSeen, Counted, Bench
      <4>. QED  BY <3>2, <4>1 DEF Where
    <3>7. CASE ~is_stalled
      <4>1. InCycle'  BY <1>1, <1>4, <3>3, <3>4, <3>5, <3>7 DEF InCycle, Counted, Bench
      <4>. QED  BY <3>2, <4>1 DEF Where
    <3>. QED  BY <3>6, <3>7
  <2>. QED  BY <1>2, <2>1, <2>2
<1>. QED  BY <1>3, <1>4 DEF Check

LEMMA CountKeeps == ASSUME WatchInv, Count PROVE WatchInv'
<1>. USE DEF WatchInv
<1>1. /\ pc = "idle" /\ ~active /\ calls = <<>> /\ todo # <<>> /\ Head(todo) = "count"
      /\ todo' = Tail(todo)
      /\ stalls' = (IF stalls < MaxCount THEN stalls + 1 ELSE stalls)
      /\ UNCHANGED <<pc, ret, opmod, pend, byError, sysErrors, prog, active, calls, outcome, rung,
                     recovered, queue, parks, clean>>
  BY DEF Count, At, Ready, Idle, vars, driverVars, chipVars, bounds
<1>2. InCall'  BY <1>1 DEF InCall
<1>3. WatchType'  BY <1>1 DEF WatchType
<1>4. ASSUME Sound' PROVE WatchChip' /\ Where'
  <2>1. WatchChip /\ Where  BY <1>1, <1>4 DEF Sound
  <2>2. WatchChip'  BY <1>1, <2>1, ChipKept
  <2>3. StallSeen  BY <1>1, <2>1, AtWhere DEF WatchType
  <2>4. stalls' = stalls + 1
    BY <1>1, <2>3, WatchAssumption, ModeAssumption DEF StallSeen, Counted, WatchType
  <2>5. todo' = Tail(Source[prog].stalled)  BY <1>1, <2>3 DEF StallSeen
  <2>6. todo' \in {<<"recover", "result">>, <<"recover">>, <<"ladder", "verify">>}
    BY <2>5, Stalled, StepLists DEF WatchType
  <2>7. parks' = stalls' /\ (Bench' => stalls' = recovered' + 1)
    BY <1>1, <2>3, <2>4 DEF StallSeen, Counted, WatchType, Bench
  <2>8. StallCounted'  BY <1>1, <2>3, <2>5, <2>6, <2>7 DEF StallSeen, StallCounted, Counted, WatchType
  <2>. QED  BY <2>2, <2>8 DEF Where
<1>. QED  BY <1>2, <1>3, <1>4

LEMMA LadderLists ==
  /\ Ladders[1] = <<"clear">> /\ Ladders[2] = <<"recover">>
  /\ Ladders[3] = <<"reset_fifo", "recover">> /\ Ladders[4] = FullConfigCycle
  /\ Len(Ladders) = 4
BY DEF Ladders, ClearFlagsOnly, RecoverSystemError, ResetFifoThenMode

LEMMA ClimbKeeps == ASSUME WatchInv, Climb PROVE WatchInv'
<1>. USE DEF WatchInv
<1>1. /\ pc = "idle" /\ ~active /\ calls = <<>> /\ todo # <<>> /\ todo' = Tail(todo)
      /\ Head(todo) \in {"recover", "ladder"}
      /\ UNCHANGED <<pc, ret, opmod, pend, byError, sysErrors, prog, active, outcome,
                     stalls, recovered, queue, parks, clean>>
  BY DEF Climb, At, Ready, Idle, vars, driverVars, chipVars, bounds, history
<1>2. InCall'  BY <1>1 DEF InCall
<1>3. \/ Head(todo) = "recover" /\ calls' = <<"recover">> /\ rung' = rung
      \/ Head(todo) = "ladder" /\ rung = 0 /\ calls' = <<"clear">> /\ rung' = 1
      \/ Head(todo) = "ladder" /\ rung = 1 /\ calls' = <<"recover">> /\ rung' = 2
      \/ Head(todo) = "ladder" /\ rung = 2 /\ calls' = <<"reset_fifo", "recover">> /\ rung' = 3
      \/ Head(todo) = "ladder" /\ rung = 3 /\ calls' = FullConfigCycle /\ rung' = 0
  <2>1. rung \in 0 .. 3  BY DEF WatchType
  <2>2. CASE At("recover") /\ calls' = RecoverSystemError /\ UNCHANGED rung
    BY <2>2 DEF At, RecoverSystemError
  <2>3. CASE At("ladder") /\ calls' = Ladders[(rung % Len(Ladders)) + 1]
             /\ rung' = (rung + 1) % Len(Ladders)
    <3>1. calls' = Ladders[rung + 1] /\ rung' = (rung + 1) % 4
      BY <2>1, <2>3, LadderLists
    <3>. QED  BY <2>1, <2>3, <3>1, LadderLists DEF At
  <2>. QED  BY <2>2, <2>3 DEF Climb
<1>4. calls' \in FromParked \cup {FullConfigCycle} /\ rung' \in 0 .. 3
  BY <1>3 DEF FromParked, WatchType
<1>5. WatchType'  BY <1>1, <1>4 DEF WatchType, Lists
<1>6. ASSUME Sound' PROVE WatchChip' /\ Where'
  <2>1. WatchChip /\ Where  BY <1>1, <1>6 DEF Sound
  <2>2. StallCounted  BY <1>1, <2>1, AtWhere DEF WatchType
  <2>3. ModeFor(calls')
    <3>1. opmod \in ErrorModes /\ opmod # "Configuration"  BY <2>2 DEF StallCounted, ErrorModes
    <3>. QED  BY <1>4, <3>1, EmptyList, FromConfTails, FromParkedTails, FullConfigTails DEF ModeFor
  <2>4. WatchChip'  BY <1>1, <2>1, <2>3, ChipKept
  <2>5. CASE todo = <<"recover", "result">>
    <3>1. Head(todo) = "recover" /\ Tail(todo) = <<"result">>  BY <2>5
    <3>2. calls' = <<"recover">>  BY <1>3, <3>1
    <3>3. Recovering'  BY <1>1, <2>2, <3>1, <3>2, EmptyList DEF StallCounted, Recovering, Counted, Bench
    <3>. QED  BY <2>4, <3>3 DEF Where
  <2>6. CASE todo = <<"recover">>
    <3>1. Head(todo) = "recover" /\ Tail(todo) = <<>>  BY <2>6
    <3>2. calls' = <<"recover">>  BY <1>3, <3>1
    <3>3. ~Bench
      <4>1. <<"recover">> # <<"recover", "result">>  OBVIOUS
      <4>. QED  BY <2>2, <2>6, <4>1, Stalled, StepLists DEF StallCounted, WatchType
    <3>4. LastCalls'  BY <1>1, <2>2, <3>1, <3>2, <3>3 DEF StallCounted, LastCalls, Counted, Bench, WatchType
    <3>. QED  BY <2>4, <3>4 DEF Where
  <2>7. CASE todo = <<"ladder", "verify">>
    <3>1. Head(todo) = "ladder" /\ Tail(todo) = <<"verify">>  BY <2>7
    <3>2. prog = "stall"
      <4>1. <<"ladder", "verify">> # <<"recover", "result">> /\ <<"ladder", "verify">> # <<"recover">>
        BY StepLists
      <4>. QED  BY <2>2, <2>7, <4>1, Stalled, StepLists DEF StallCounted, WatchType
    <3>3. parks = stalls /\ opmod \in ErrorModes
      BY <2>2 DEF StallCounted, Counted, WatchType
    <3>4. calls' # <<>>  BY <1>4, EmptyList
    <3>5. Emptied' => rung' \notin {0, 3}
      <4>1. calls' = <<"reset_fifo", "recover">> => ~Emptied'
        <5>1. <<"reset_fifo", "recover">> \notin {<<"filter", "normal">>, <<"normal">>, <<"recover">>, <<>>}
          OBVIOUS
        <5>. QED  BY <1>1, <5>1 DEF Emptied, WatchType
      <4>2. calls' = FullConfigCycle => ~Emptied'
        <5>1. FullConfigCycle \notin {<<"filter", "normal">>, <<"normal">>, <<"recover">>, <<>>}
          BY DEF FullConfigCycle
        <5>. QED  BY <1>1, <5>1 DEF Emptied, WatchType
      <4>. QED  BY <1>3, <3>1, <4>1, <4>2
    <3>6. CalmLayout'  BY <1>1 DEF CalmLayout, WatchType
    <3>7. OnLadder'  BY <1>1, <1>3, <3>1, <3>2, <3>3, <3>4, <3>5, <3>6 DEF OnLadder
    <3>. QED  BY <2>4, <3>7 DEF Where
  <2>. QED  BY <2>2, <2>5, <2>6, <2>7 DEF StallCounted
<1>. QED  BY <1>2, <1>5, <1>6

LEMMA ResultKeeps == ASSUME WatchInv, Result PROVE WatchInv'
<1>. USE DEF WatchInv
<1>1. /\ pc = "idle" /\ ~active /\ calls = <<>> /\ todo # <<>> /\ Head(todo) = "result"
      /\ todo' = Tail(todo)
      /\ recovered' = IF outcome = "ok" /\ recovered < MaxCount THEN recovered + 1 ELSE recovered
      /\ UNCHANGED <<pc, ret, opmod, pend, byError, sysErrors, prog, active, calls, outcome, rung,
                     stalls, queue, parks, clean>>
  BY DEF Result, At, Ready, Idle, vars, driverVars, chipVars, bounds, history
<1>2. InCall'  BY <1>1 DEF InCall
<1>3. WatchType'  BY <1>1 DEF WatchType
<1>4. ASSUME Sound' PROVE WatchChip' /\ Where'
  <2>1. WatchChip /\ Where  BY <1>1, <1>4 DEF Sound
  <2>2. WatchChip'  BY <1>1, <2>1, ChipKept
  <2>3. Recovering /\ todo' = <<>>  BY <1>1, <2>1, AtWhere DEF WatchType
  <2>4. opmod = MODE /\ outcome = "ok"  BY <1>1, <2>3 DEF Recovering
  <2>5. ~byError  BY <2>1, <2>4 DEF WatchChip, ErrorModes, MODE
  <2>6. parks = stalls /\ (Bench => stalls = recovered')
    BY <1>1, <2>3, <2>4, WatchAssumption, ModeAssumption DEF Recovering, Counted, WatchType
  <2>7. InCycle'  BY <1>1, <2>3, <2>5, <2>6 DEF InCycle, Counted, Bench, WatchType
  <2>. QED  BY <2>2, <2>7 DEF Where
<1>. QED  BY <1>2, <1>3, <1>4

LEMMA VerifyKeeps == ASSUME WatchInv, Verify PROVE WatchInv'
<1>. USE DEF WatchInv
<1>1. /\ pc = "idle" /\ ~active /\ calls = <<>> /\ todo # <<>> /\ Head(todo) = "verify"
      /\ todo' = Tail(todo)
      /\ UNCHANGED <<pc, ret, opmod, pend, byError, sysErrors, prog, active, outcome, rung,
                     stalls, recovered, queue, parks>>
  BY DEF Verify, At, Ready, Idle, driverVars, chipVars
<1>2. InCall'  BY <1>1 DEF InCall
<1>3. CASE FailedRead /\ UNCHANGED calls
  <2>1. WatchType' /\ ~Sound'  BY <1>1, <1>3 DEF FailedRead, WatchType, Sound
  <2>. QED  BY <1>2, <2>1
<1>4. CASE /\ calls' = (IF outcome # "err" /\ ~is_recovered THEN FullConfigCycle ELSE <<>>)
           /\ UNCHANGED clean
  <2>1. WatchType'  BY <1>1, <1>4 DEF WatchType, Lists
  <2>2. ASSUME Sound' PROVE WatchChip' /\ Where'
    <3>1. WatchChip /\ Where  BY <1>1, <1>4, <2>2 DEF Sound
    <3>2. OnLadder /\ todo' = <<>>  BY <1>1, <3>1, AtWhere DEF WatchType
    <3>3. ModeFor(<<>>)  BY <1>1, <3>1 DEF WatchChip, Requested
    <3>4. ModeFor(FullConfigCycle)
      BY <3>3, FullConfigTails, FromConfTails, FromParkedTails DEF ModeFor
    <3>5. WatchChip'  BY <1>1, <1>4, <3>1, <3>3, <3>4, ChipKept
    <3>6. ~Bench  BY <3>2, Stalled DEF OnLadder, WatchType
    <3>7. CASE calls' = FullConfigCycle
      <4>1. LastCalls'
        BY <1>1, <3>2, <3>6, <3>7 DEF OnLadder, LastCalls, Counted, Bench, WatchType
      <4>. QED  BY <3>5, <4>1 DEF Where
    <3>8. CASE calls' = <<>> /\ is_recovered
      <4>1. ~byError
        BY <3>1, <3>8 DEF WatchChip, is_recovered, is_stalled, OpMod, ErrorModes, MODE
      <4>2. InCycle'
        BY <1>1, <3>2, <3>6, <3>8, <4>1 DEF OnLadder, InCycle, Counted, Bench, WatchType
      <4>. QED  BY <3>5, <4>2 DEF Where
    <3>9. outcome # "err"  BY <1>4, <2>2 DEF WatchType, Sound
    <3>. QED  BY <1>4, <3>7, <3>8, <3>9
  <2>. QED  BY <1>2, <2>1, <2>2
<1>. QED  BY <1>3, <1>4 DEF Verify

(* Core 0 only looks on.                                                   *)
LEMMA Core0Keeps == ASSUME WatchInv, Core0 \/ UNCHANGED allVars PROVE WatchInv'
<1>1. UNCHANGED <<vars, prog, core1, queue, history>>
  BY DEF Core0, LoadStalls, StoreMask, PrintPhase, allVars, watch
<1>2. UNCHANGED <<pc, op, ret, opmod, pend, byError, applied, calm, sysErrors, prog, todo, calls,
                  active, outcome, rung, stalls, recovered, queue, parks, clean>>
  BY <1>1 DEF vars, driverVars, chipVars, hist, bounds, core1, history
<1>3. WatchType' <=> WatchType  BY <1>2 DEF WatchType
<1>4. InCall' <=> InCall  BY <1>2 DEF InCall, Matches
<1>5. Sound' <=> Sound  BY <1>2 DEF Sound, Failed
<1>6. WatchChip' <=> WatchChip
  BY <1>2 DEF WatchChip, Requested, ModeFor, Target
<1>7. Where => Where'
  BY <1>2 DEF Where, InCycle, StallSeen, StallCounted, Recovering, LastCalls, OnLadder, Emptied,
              CalmLayout, Counted, Bench
<1>. QED  BY <1>3, <1>4, <1>5, <1>6, <1>7 DEF WatchInv

LEMMA ParkKeeps == ASSUME WatchInv, Park PROVE WatchInv'
<1>. USE DEF WatchInv
<1>1. /\ pc = "idle" /\ ~active /\ calls = <<>> /\ todo # <<>> /\ Head(todo) = "drain"
      /\ opmod \in Normal /\ sysErrors < MaxSysErrors /\ opmod' \in ErrorModes /\ byError' = TRUE
      /\ sysErrors' = sysErrors + 1 /\ parks' = parks + 1
      /\ UNCHANGED <<pc, ret, pend, prog, todo, active, calls, outcome, rung,
                     stalls, recovered, queue, clean>>
  BY DEF Park, SystemError, At, Ready, Idle, driverVars, core1
<1>2. InCall'  BY <1>1 DEF InCall
<1>3. WatchType'  BY <1>1, ModeAssumption DEF WatchType
<1>4. ASSUME Sound' PROVE WatchChip' /\ Where'
  <2>1. WatchChip /\ Where  BY <1>1, <1>4 DEF Sound
  <2>2. InCycle  BY <1>1, <2>1, AtWhere DEF WatchType
  <2>3. ~byError  BY <1>1, <2>1 DEF WatchChip, ErrorModes, Normal
  <2>4. ModeFor(calls)'  BY <1>1, EmptyList DEF ModeFor, ErrorModes
  <2>5. WatchChip'  BY <1>1, <2>1, <2>4 DEF WatchChip, Requested
  <2>6. InCycle'  BY <1>1, <2>2, <2>3 DEF InCycle, Counted, Bench, WatchType
  <2>. QED  BY <2>5, <2>6 DEF Where
<1>. QED  BY <1>2, <1>3, <1>4

LEMMA ChipSendKeeps == ASSUME WatchInv, ChipSend PROVE WatchInv'
<1>. USE DEF WatchInv
<1>1. /\ queue > 0 /\ queue' = queue - 1
      /\ UNCHANGED <<pc, op, ret, opmod, pend, byError, applied, calm, sysErrors, prog, todo, calls,
                     active, outcome, rung, stalls, recovered, parks, clean>>
  BY DEF ChipSend, vars, driverVars, chipVars, hist, bounds, core1, history
<1>3. WatchType'  BY <1>1, WatchAssumption DEF WatchType
<1>4. InCall' <=> InCall  BY <1>1 DEF InCall, Matches
<1>5. Sound' <=> Sound  BY <1>1 DEF Sound, Failed
<1>6. WatchChip' <=> WatchChip
  BY <1>1 DEF WatchChip, Requested, ModeFor, Target
<1>7. OnLadder => OnLadder'
  <2>1. Emptied' <=> Emptied  BY <1>1 DEF Emptied
  <2>2. ~(queue = 0)  BY <1>1
  <2>. QED  BY <1>1, <2>1, <2>2 DEF OnLadder, CalmLayout
<1>8. Where => Where'
  BY <1>1, <1>7 DEF Where, InCycle, StallSeen, StallCounted, Recovering, LastCalls, Counted, Bench
<1>. QED  BY <1>3, <1>4, <1>5, <1>6, <1>8

LEMMA ChipModeKeeps == ASSUME WatchInv, ChipMode PROVE WatchInv'
<1>. USE DEF WatchInv
<1>1. /\ pend # None /\ opmod' = pend /\ pend' = None /\ byError' = (byError /\ opmod = pend)
      /\ UNCHANGED <<pc, op, ret, sysErrors, applied, calm, prog, todo, calls, active, outcome,
                  rung, stalls, recovered, queue, parks, clean>>
  BY DEF ChipMode, ModeChange, driverVars, hist, bounds, watch, core1, history
<1>3. WatchType'  BY <1>1 DEF WatchType
<1>4. InCall' <=> InCall  BY <1>1 DEF InCall, Matches
<1>5. Sound' <=> Sound  BY <1>1 DEF Sound, Failed
<1>6. ASSUME Sound PROVE WatchChip' /\ Where'
  <2>1. WatchChip /\ Where  BY <1>6
  <2>2. Requested  BY <1>1, <2>1 DEF WatchChip
  <2>3. active /\ Head(calls) \in ModeCalls /\ calls # <<>>  BY <2>2 DEF Requested, WatchType
  <2>4. pend = Target(Head(calls)) /\ opmod # pend  BY <1>1, <2>1, <2>2 DEF WatchChip
  <2>5. opmod' = Target(Head(calls)) /\ byError' = FALSE  BY <1>1, <2>4
  <2>6. Target(Head(calls)) \in {"Configuration", MODE}  BY DEF Target
  <2>7. Requested' /\ Head(calls)' = Head(calls)  BY <1>1, <2>2 DEF Requested
  <2>8. WatchChip'
    <3>1. opmod' \notin ErrorModes  BY <2>5, <2>6 DEF ErrorModes, MODE
    <3>2. Target(Head(calls))' = Target(Head(calls))  BY <2>7 DEF Target
    <3>. QED  BY <1>1, <2>1, <2>5, <2>6, <2>7, <3>1, <3>2 DEF WatchChip
  <2>9. Recovering \/ LastCalls \/ OnLadder  BY <2>1, <2>3, AtWhere DEF WatchType
  <2>10. Recovering => Recovering'  BY <1>1, <2>3 DEF Recovering, Counted, Bench
  <2>11. LastCalls => LastCalls'  BY <1>1 DEF LastCalls, Counted, Bench
  <2>12. OnLadder => OnLadder'
    <3>1. Emptied' <=> Emptied  BY <1>1, <2>7 DEF Emptied
    <3>2. OnLadder => rung # 1
      <4>1. Head(<<"clear">>) = "clear"  OBVIOUS
      <4>. QED  BY <2>3, <4>1 DEF OnLadder, ModeCalls
    <3>. QED  BY <1>1, <2>3, <2>7, <3>1, <3>2 DEF OnLadder, CalmLayout
  <2>. QED  BY <2>8, <2>9, <2>10, <2>11, <2>12 DEF Where
<1>. QED  BY <1>3, <1>4, <1>5, <1>6

-----------------------------------------------------------------------------
LEMMA WatchInitInv == WatchInit => WatchInv
<1>. SUFFICES ASSUME WatchInit PROVE WatchInv  OBVIOUS
<1>1. /\ pc = "idle" /\ pend = None /\ opmod = "Configuration" /\ byError = FALSE /\ sysErrors = 0
      /\ prog \in Programs /\ todo = <<>> /\ calls = Source[prog].setup /\ active = FALSE
      /\ outcome = None /\ stalls = 0 /\ recovered = 0 /\ queue = 0 /\ parks = 0 /\ clean = TRUE
  BY DEF WatchInit, Init
<1>2. calls \in FromConf  BY <1>1, SourceStalled, ProgramsAssumption
<1>3. calls # <<>> /\ calls \notin FromParked /\ calls # FullConfigCycle  BY <1>2, FromConfTails
<1>4. rung \in 0 .. 3
  <2>1. Len(Ladders) - 1 = 3  BY LadderLists
  <2>2. rung \in (IF prog = "stall" THEN 0 .. Len(Ladders) - 1 ELSE {0})  BY DEF WatchInit
  <2>3. PICK R : R = 0 .. Len(Ladders) - 1  OBVIOUS
  <2>4. R = 0 .. 3  BY <2>1, <2>3
  <2>5. rung \in (IF prog = "stall" THEN R ELSE {0})  BY <2>2, <2>3
  <2>. QED  BY <2>4, <2>5
<1>5. WatchType
  <2>1. calls \in Lists /\ outcome # "err"  BY <1>1, <1>2 DEF Lists, None
  <2>2. Depth \in Nat /\ MaxSysErrors \in Nat  BY WatchAssumption, ModeAssumption
  <2>3. 0 \in 0 .. Depth /\ 0 <= MaxSysErrors  BY <2>2
  <2>. QED  BY <1>1, <1>4, <2>1, <2>3 DEF WatchType
<1>6. InCall  BY <1>1 DEF InCall
<1>7. WatchChip  BY <1>1, <1>2, <1>3 DEF WatchChip, Requested, ModeFor, ErrorModes
<1>8. LastCalls  BY <1>1, <1>2 DEF LastCalls, Counted
<1>. QED  BY <1>5, <1>6, <1>7, <1>8 DEF WatchInv, Where

LEMMA WatchStep == ASSUME ModeInv, WatchInv, [WatchNext]_allVars PROVE WatchInv'
BY DriverStepKeeps, InvokeKeeps, ReturnedKeeps, PlainKeeps, CycleKeeps, CheckKeeps, CountKeeps,
   ClimbKeeps, ResultKeeps, VerifyKeeps, Core0Keeps, ParkKeeps, ChipSendKeeps, ChipModeKeeps
   DEF WatchNext, Core1

LEMMA WatchInvariant == WatchSpec => [](ModeInv /\ WatchInv)
<1>1. WatchInit => ModeInv /\ WatchInv  BY WatchModeInit, WatchInitInv
<1>2. ModeInv /\ WatchInv /\ [WatchNext]_allVars => (ModeInv /\ WatchInv)'
  BY WatchModeStep, WatchStep
<1>. QED  BY <1>1, <1>2, PTL DEF WatchSpec

(* What the results of set_mode, recover_system_error, apply_layout and    *)
(* configure_interrupts mean holds in the programs, too, where system      *)
(* errors strike between the calls of a ladder and half-way through them.  *)
THEOREM CallsKeepPromises ==
  WatchSpec => [](OkSettles /\ SecondErrorVisible /\ LayoutApplied /\ AlarmStands)
<1>1. ModeInv => OkSettles /\ SecondErrorVisible /\ LayoutApplied /\ AlarmStands
  BY DEF ModeInv, Results, AlarmInv, AlarmStands
<1>. QED  BY <1>1, WatchInvariant, PTL

(* While no call has failed, each transmit stall is counted once by the    *)
(* loop of core 1, and the benches count a recovery for each: STALLS and   *)
(* RECOVERED of stall.rs, blocking_core1.rs and the benches.               *)
THEOREM FaultsAreCounted == WatchSpec => []CountsFaults
<1>1. ASSUME WatchInv PROVE CountsFaults
  <2>1. SUFFICES ASSUME clean, calls = <<>>
        PROVE  /\ todo = <<>> \/ Head(todo) \in Range(Cycle) \cup {"count"}
                    => parks = stalls + (IF byError THEN 1 ELSE 0)
               /\ todo = <<>> /\ Bench => recovered = stalls
    BY DEF CountsFaults, Bench
  <2>2. WatchChip /\ Where /\ prog \in Programs
    BY <1>1, <2>1 DEF WatchInv, Sound, WatchType
  <2>3. Range(Cycle) \subseteq {"send", "drain", "check"}
    BY StepLists DEF Range
  <2>4. CASE todo = <<>>
    <3>1. InCycle  BY <2>1, <2>2, <2>4, AtWhere
    <3>. QED  BY <1>1, <2>4, <3>1 DEF InCycle, Counted, WatchInv, WatchType
  <2>5. CASE todo # <<>> /\ Head(todo) \in {"send", "drain", "check"}
    <3>1. InCycle  BY <2>2, <2>5, AtWhere
    <3>. QED  BY <2>5, <3>1 DEF InCycle, Counted
  <2>6. CASE todo # <<>> /\ Head(todo) = "count"
    <3>1. StallSeen  BY <2>2, <2>6, AtWhere
    <3>2. byError  BY <2>2, <3>1 DEF StallSeen, WatchChip
    <3>. QED  BY <2>6, <3>1, <3>2 DEF StallSeen, Counted
  <2>. QED  BY <2>3, <2>4, <2>5, <2>6
<1>. QED  BY <1>1, WatchInvariant, PTL

(* While no call has failed: clear-flags-only leaves the chip parked,      *)
(* recover_system_error always has it back in its mode, and the ladders    *)
(* that empty the FIFO always pass the program's check.  That the second   *)
(* passes it too is not claimed: is_recovered fails on a full FIFO.        *)
THEOREM LaddersDoAsExpected == WatchSpec => []LaddersAsExpected
<1>1. ASSUME WatchInv PROVE LaddersAsExpected
  <2>1. SUFFICES ASSUME clean, At("verify")
        PROVE  CASE rung = 1 -> opmod \in ErrorModes
                 [] rung = 2 -> opmod = MODE
                 [] OTHER    -> opmod = MODE /\ is_recovered
    BY DEF LaddersAsExpected
  <2>2. ~active /\ calls = <<>> /\ todo # <<>> /\ Head(todo) = "verify"
    BY <2>1 DEF At, Ready, Idle
  <2>3. WatchChip /\ OnLadder
    BY <1>1, <2>1, <2>2, AtWhere DEF WatchInv, Sound, WatchType
  <2>4. queue \in 0 .. Depth /\ rung \in 0 .. 3 /\ Depth \in Nat \ {0}
    BY <1>1, WatchAssumption DEF WatchInv, WatchType
  <2>5. is_stalled <=> opmod \in ErrorModes
    BY <2>3 DEF WatchChip, is_stalled, OpMod, ErrorModes, MODE
  <2>6. CASE rung = 1  BY <2>3, <2>6 DEF OnLadder
  <2>7. CASE rung # 1
    <3>1. opmod = MODE /\ ~is_stalled
      BY <2>2, <2>3, <2>5, <2>7 DEF OnLadder, ErrorModes, MODE
    <3>2. rung \in {0, 3} => queue = 0  BY <2>2, <2>3 DEF OnLadder, Emptied
    <3>. QED  BY <2>4, <2>7, <3>1, <3>2 DEF is_recovered
  <2>. QED  BY <2>6, <2>7
<1>. QED  BY <1>1, WatchInvariant, PTL

-----------------------------------------------------------------------------
(* The sweeps of core 0: what has been printed was counted before the      *)
(* phase that runs now began.                                              *)
Phases == {Source[p].phases[i] : p \in Programs, i \in Nat}

PhaseInv ==
  /\ stalls \in Nat /\ prog \in Programs
  /\ core0 \in [at : {"load", "store", "phase"}, phase : Nat, before : Nat]
  /\ printed \in Seq([phase : Phases, from : Nat, to : Nat])
  /\ core0.at # "load" =>
       core0.before <= stalls /\ \A i \in DOMAIN printed : printed[i].to <= core0.before
  /\ PhasesDisjoint

LEMMA StallsOnlyGrow ==
  ASSUME stalls \in Nat, [WatchNext]_allVars
  PROVE  /\ stalls' \in Nat /\ stalls' >= stalls /\ prog' = prog
         /\ Core0 \/ UNCHANGED sweep
<1>1. CASE Core0
  BY <1>1 DEF Core0, LoadStalls, StoreMask, PrintPhase, core1
<1>2. CASE Count  BY <1>2 DEF Count
<1>3. CASE Invoke \/ Returned \/ Plain \/ NextCycle \/ Send \/ Drain \/ Check
  BY <1>3 DEF Invoke, Returned, Plain, NextCycle, Send, Drain, Check
<1>4. CASE Climb \/ Result \/ Verify
  BY <1>4 DEF Climb, Result, Verify
<1>5. CASE DriverStep \/ Park \/ ChipSend \/ ChipMode \/ UNCHANGED allVars
  BY <1>5 DEF DriverStep, Park, ChipSend, ChipMode, allVars, watch, core1
<1>. QED  BY <1>1, <1>2, <1>3, <1>4, <1>5 DEF WatchNext, Core1

LEMMA PrintedType ==
  ASSUME PhaseInv
  PROVE  \A i \in DOMAIN printed : printed[i].to \in Nat /\ printed[i].from \in Nat
<1>1. PICK R : R = [phase : Phases, from : Nat, to : Nat]  OBVIOUS
<1>2. printed \in Seq(R)  BY <1>1 DEF PhaseInv
<1>3. \A i \in DOMAIN printed : printed[i] \in R  BY <1>2
<1>. QED  BY <1>1, <1>3

LEMMA PhaseStep == ASSUME PhaseInv, [WatchNext]_allVars PROVE PhaseInv'
<1>. USE DEF PhaseInv
<1>1. stalls' \in Nat /\ stalls' >= stalls /\ prog' = prog  BY StallsOnlyGrow
<1>2. CASE UNCHANGED sweep
  <2>1. core0' = core0 /\ printed' = printed  BY <1>2 DEF sweep
  <2>2. \A i \in DOMAIN printed : printed[i].to \in Nat  BY PrintedType
  <2>3. PhasesDisjoint'  BY <1>1, <2>1, <2>2 DEF PhasesDisjoint
  <2>. QED  BY <1>1, <2>1, <2>3
<1>3. CASE Core0
  <2>0. stalls' = stalls  BY <1>3 DEF Core0, LoadStalls, StoreMask, PrintPhase, core1
  <2>1. CASE LoadStalls
    <3>1. core0' = [core0 EXCEPT !.at = "store", !.before = stalls] /\ printed' = printed
      BY <2>1 DEF LoadStalls
    <3>2. PhasesDisjoint'  BY <2>0, <3>1 DEF PhasesDisjoint
    <3>. QED  BY <1>1, <2>0, <3>1, <3>2 DEF PhasesDisjoint
  <2>2. CASE StoreMask
    <3>1. core0' = [core0 EXCEPT !.at = "phase"] /\ printed' = printed /\ core0.at = "store"
      BY <2>2 DEF StoreMask
    <3>2. PhasesDisjoint'  BY <2>0, <3>1 DEF PhasesDisjoint
    <3>. QED  BY <1>1, <2>0, <3>1, <3>2
  <2>3. CASE PrintPhase
    <3>1. PICK r : r = [phase |-> Phase, from |-> core0.before, to |-> stalls]  OBVIOUS
    <3>2. printed' = Append(printed, r) /\ core0.at = "phase"
          /\ core0' = [core0 EXCEPT !.at = "load", !.phase = @ + 1]
      BY <2>3, <3>1 DEF PrintPhase
    <3>3. r \in [phase : Phases, from : Nat, to : Nat]  BY <3>1 DEF Phase, Phases
    <3>4. r.from = core0.before /\ r.to = stalls  BY <3>1
    <3>5. core0.before <= stalls /\ \A i \in DOMAIN printed : printed[i].to <= core0.before
      BY <3>2
    <3>6. /\ Len(printed) \in Nat /\ DOMAIN printed = 1 .. Len(printed)
          /\ DOMAIN printed' = 1 .. Len(printed) + 1 /\ printed'[Len(printed) + 1] = r
          /\ \A i \in DOMAIN printed : printed'[i] = printed[i]
          /\ printed' \in Seq([phase : Phases, from : Nat, to : Nat])
      <4>1. PICK R : R = [phase : Phases, from : Nat, to : Nat]  OBVIOUS
      <4>2. printed \in Seq(R) /\ r \in R  BY <3>3, <4>1
      <4>. QED  BY <3>2, <4>1, <4>2
    <3>7. /\ \A i, j \in DOMAIN printed' : i < j => printed'[i].to <= printed'[j].from
          /\ \A i \in DOMAIN printed' : printed'[i].to <= stalls
      <4>1. PICK n, q, t : n = Len(printed) /\ q = printed' /\ t = stalls  OBVIOUS
      <4>2. /\ n \in Nat /\ t \in Nat /\ DOMAIN printed = 1 .. n /\ DOMAIN q = 1 .. n + 1
            /\ q[n + 1] = r
        BY <3>6, <4>1
      <4>3. \A i \in DOMAIN printed : q[i] = printed[i] /\ printed[i].to <= q[n + 1].from
                                      /\ printed[i].to <= t
        BY <3>4, <3>5, <3>6, <4>1, <4>2 DEF PhasesDisjoint
      <4>4. \A i, j \in DOMAIN printed : i < j => printed[i].to <= printed[j].from
        BY DEF PhasesDisjoint
      <4>5. q[n + 1].to = t  BY <3>4, <4>1, <4>2
      <4>6. /\ \A i, j \in DOMAIN q : i < j => q[i].to <= q[j].from
            /\ \A i \in DOMAIN q : q[i].to <= t
        <5>1. \A i \in DOMAIN q : i \in DOMAIN printed \/ i = n + 1  BY <4>2
        <5>2. \A i, j \in DOMAIN q : i < j => i \in DOMAIN printed  BY <4>2
        <5>3. \A i \in DOMAIN q : q[i].to <= t  BY <4>2, <4>3, <4>5, <5>1
        <5>4. \A i, j \in DOMAIN q : i < j => q[i].to <= q[j].from
          BY <4>3, <4>4, <5>1, <5>2
        <5>. QED  BY <5>3, <5>4
      <4>. QED  BY <4>1, <4>6
    <3>9. PhasesDisjoint'  BY <2>0, <3>7 DEF PhasesDisjoint
    <3>10. core0' \in [at : {"load", "store", "phase"}, phase : Nat, before : Nat]
           /\ core0'.at = "load"
      <4>1. core0 \in [at : {"load", "store", "phase"}, phase : Nat, before : Nat]  OBVIOUS
      <4>2. core0.phase + 1 \in Nat  BY <4>1
      <4>3. core0' = [core0 EXCEPT !.at = "load", !.phase = core0.phase + 1]  BY <3>2
      <4>. QED  BY <4>1, <4>2, <4>3
    <3>. QED  BY <1>1, <3>6, <3>9, <3>10
  <2>. QED  BY <1>3, <2>1, <2>2, <2>3 DEF Core0
<1>. QED  BY <1>2, <1>3, StallsOnlyGrow

(* No stall is printed under two interrupt-mask durations, and none before *)
(* it was counted: the loads of STALLS in the sweeps of bench_interference,*)
(* its blocking twin and bench_d10.                                        *)
THEOREM PhasesAreDisjoint == WatchSpec => []PhasesDisjoint
<1>1. WatchInit => PhaseInv
  <2>1. SUFFICES ASSUME WatchInit PROVE PhaseInv  OBVIOUS
  <2>2. printed = <<>> /\ core0 = [at |-> "load", phase |-> 1, before |-> 0] /\ stalls = 0
        /\ prog \in Programs
    BY <2>1 DEF WatchInit
  <2>. QED  BY <2>2 DEF PhaseInv, PhasesDisjoint
<1>2. PhaseInv /\ [WatchNext]_allVars => PhaseInv'  BY PhaseStep
<1>3. PhaseInv => PhasesDisjoint  BY DEF PhaseInv
<1>. QED  BY <1>1, <1>2, <1>3, PTL DEF WatchSpec

=============================================================================
