----------------------------- MODULE StallWatch -----------------------------
(***************************************************************************)
(* The programs that watch a chip for the transmit stall and recover it    *)
(* (stall.rs, blocking_core1.rs, bench_*.rs): core 1 runs the CAN load on  *)
(* the driver of ModeControl, one action per SPI transaction, against a    *)
(* chip that is parked while its RAM is read; core 0 of the sweeps counts  *)
(* the stalls of each interrupt-mask duration.  One chip stands for all:   *)
(* the programs treat each alike and share only the rung of the ladder.    *)
(***************************************************************************)
EXTENDS ModeControl, Sequences, SequencesExt

CONSTANTS
  Programs,   \* which of the programs
  Depth,      \* depth of the transmit FIFO (8 in the programs)
  Masks,      \* the sequence of interrupt-mask durations of a sweep
  Rounds,     \* rounds of bench_d10 over Masks (3 in the code)
  MaxCount    \* bound: how far the two counters are followed

ASSUME WatchAssumption ==
  /\ Depth \in Nat \ {0} /\ Rounds \in Nat \ {0} /\ Fifos # 0
  /\ MaxCount \in Nat /\ MaxCount >= MaxSysErrors
  /\ "Normal20" \in Modes /\ "Configuration" \in Modes /\ Calls = AllCalls

VARIABLES
  prog,                \* the program
  todo, calls, active, \* core 1: rest of its cycle, rest of a ladder; a call runs
  outcome, rung,       \* core 1: of the last ladder; index of the next one
  stalls, recovered,   \* core 1: its counters
  core0, mask,         \* core 0: where its sweep is; MASK_US
  printed,             \* core 0: the stalls printed for each phase
  queue,               \* the chip: elements in its transmit FIFO
  parks, clean         \* history: system errors; whether no call has failed

core1   == <<todo, calls, active, outcome, rung, stalls, recovered>>
sweep   == <<core0, mask, printed>>
history == <<parks, clean>>
watch   == <<prog, core1, sweep, queue, history>>
allVars == <<vars, watch>>

MODE == "Normal20"
TX == 1               \* the transmit FIFO, the first of the layout

-----------------------------------------------------------------------------
(* The programs: the calls of their setup, what they do with a stalled     *)
(* chip, and the phases of core 0.  Every cycle sends, drains and checks.  *)

Setup        == <<"init", "layout", "filter", "ints", "normal">>
SetupNoInts  == <<"init", "layout", "filter", "normal">>
Cycle        == <<"send", "drain", "check">>

(* The ladders of stall.rs; its clear-flags-only reads the flags first.    *)
ClearFlagsOnly     == <<"clear">>
RecoverSystemError == <<"recover">>
ResetFifoThenModeNoReset == <<"recover">>      \* mutant
ResetFifoThenMode  == <<"reset_fifo", "recover">>
FullConfigCycle    == <<"config", "layout", "filter", "normal">>
Ladders == <<ClearFlagsOnly, RecoverSystemError, ResetFifoThenMode, FullConfigCycle>>

Program(setup, stalled, phases) ==
  [setup |-> setup, stalled |-> stalled, phases |-> phases]

Sweep(arm) == [i \in DOMAIN Masks |-> [arm |-> arm, d |-> Masks[i]]]

Stall             == Program(Setup, <<"count", "ladder", "verify">>, <<>>)
BlockingCore1     == Program(SetupNoInts, <<"count", "recover">>, <<>>)
BenchAsync        == Program(Setup, <<"count", "recover", "result">>, <<>>)
BenchBlocking     == Program(Setup, <<"count", "recover", "result">>, <<>>)
BenchInterference == Program(Setup, <<"count", "recover", "result">>, Sweep(1))
BenchInterferenceBlocking == Program(Setup, <<"count", "recover", "result">>, Sweep(1))
BenchD10          == Program(Setup, <<"count", "recover", "result">>,
  FlattenSeq([i \in 1 .. 2 * Rounds |-> Sweep(IF i <= Rounds THEN 1 ELSE 2)]))

Source ==
  [stall |-> Stall, blocking_core1 |-> BlockingCore1, bench_async |-> BenchAsync,
   bench_blocking |-> BenchBlocking, bench_interference |-> BenchInterference,
   bench_interference_blocking |-> BenchInterferenceBlocking, bench_d10 |-> BenchD10]

ASSUME ProgramsAssumption == Programs \subseteq DOMAIN Source

WatchInit ==
  /\ Init /\ prog \in Programs
  /\ todo = <<>> /\ calls = Source[prog].setup /\ active = FALSE
  /\ outcome = None /\ stalls = 0 /\ recovered = 0
  /\ rung \in (IF prog = "stall" THEN 0 .. Len(Ladders) - 1 ELSE {0})  \* the other chips move it too
  /\ core0 = [at |-> "load", phase |-> 1, before |-> 0] /\ mask = 0 /\ printed = <<>>
  /\ queue = 0 /\ parks = 0 /\ clean = TRUE

-----------------------------------------------------------------------------
(* Core 1: the calls of a setup or ladder, one after the other; the first  *)
(* that fails ends it.                                                     *)

Idle == pc = "idle" /\ ~active
Ready == Idle /\ calls = <<>>     \* between ladders, a step of the cycle

(* The calls that ModeControl makes in transactions. *)
Start(c) ==
  \/ c = "config" /\ SetMode("Configuration")
  \/ c = "normal" /\ SetMode(MODE)
  \/ c = "ints" /\ ConfigureInterrupts(Flags)
  \/ c = "layout" /\ ApplyLayout
  \/ c = "recover" /\ Recover(MODE)
  \/ c = "clear" /\ ClearInterrupts

Invoke ==
  /\ Idle /\ calls # <<>> /\ Start(Head(calls))
  /\ active' = TRUE
  /\ UNCHANGED <<prog, todo, calls, outcome, rung, stalls, recovered, sweep, queue, history>>

Failed(res) == res \notin {"ok", "false"}

Ended(res) ==
  /\ calls' = (IF Failed(res) THEN <<>> ELSE Tail(calls))
  /\ outcome' = (IF Failed(res) THEN "err" ELSE res)
  /\ clean' = (clean /\ ~Failed(res))

Returned ==
  /\ pc = "idle" /\ active
  /\ active' = FALSE /\ Ended(ret.res)
  /\ UNCHANGED <<vars, prog, todo, rung, stalls, recovered, sweep, queue, parks>>

(* The others do not touch the mode: they are done, or fail, in one step.  *)
Plain ==
  /\ Idle /\ calls # <<>> /\ Head(calls) \in {"init", "filter", "reset_fifo"}
  /\ \/ Ended("ok") /\ UNCHANGED faults
     \/ faults < MaxFaults /\ faults' = faults + 1 /\ Ended("spi")
  /\ queue' = IF Head(calls) = "reset_fifo" /\ faults' = faults THEN 0 ELSE queue
  /\ UNCHANGED <<driverVars, chipVars, hist, sysErrors>>
  /\ UNCHANGED <<prog, todo, active, rung, stalls, recovered, sweep, parks>>

-----------------------------------------------------------------------------
(* Core 1: the steps of a cycle. *)

At(step) == Ready /\ todo # <<>> /\ Head(todo) = step
NextCycle == Ready /\ todo = <<>> /\ todo' = Cycle
             /\ UNCHANGED <<vars, prog, calls, active, outcome, rung, stalls, recovered,
                            sweep, queue, history>>

(* Not every cycle is this chip's turn, and errors are only counted.  A    *)
(* call that failed may have left FIFO TX as an earlier layout made it.    *)
Send ==
  /\ At("send") /\ todo' = Tail(todo)
  /\ \/ queue < Depth /\ (TX \in applied \/ ~clean) /\ queue' = queue + 1
     \/ UNCHANGED queue
  /\ UNCHANGED <<vars, prog, calls, active, outcome, rung, stalls, recovered, sweep, history>>

(* receive until it fails; the chip may be parked meanwhile, see Park.     *)
Drain ==
  /\ At("drain") /\ todo' = Tail(todo)
  /\ UNCHANGED <<vars, prog, calls, active, outcome, rung, stalls, recovered, sweep, queue, history>>

(* A register read of the program fails. *)
FailedRead == faults < MaxFaults /\ faults' = faults + 1 /\ clean' = FALSE

is_stalledRestricted == OpMod = "RestrictedOperation"     \* mutant
is_stalledByFlag == "SERRIF" \in flags                    \* mutant
is_stalled == OpMod \in {"RestrictedOperation", "ListenOnly"}

Check ==
  /\ At("check")
  /\ \/ todo' = (IF is_stalled THEN Source[prog].stalled ELSE <<>>) /\ UNCHANGED <<faults, clean>>
     \/ FailedRead /\ todo' = <<>>
  /\ UNCHANGED <<driverVars, chipVars, hist, sysErrors>>
  /\ UNCHANGED <<prog, calls, active, outcome, rung, stalls, recovered, sweep, queue,
                 parks>>

(* The counter is followed up to MaxCount: repeated failures of the same    *)
(* recovery count without end.                                             *)
Count ==
  /\ At("count") /\ todo' = Tail(todo)
  /\ stalls' = (IF stalls < MaxCount THEN stalls + 1 ELSE stalls)
  /\ UNCHANGED <<vars, prog, calls, active, outcome, rung, recovered, sweep, queue,
                 parks, clean>>

(* The benches always recover; stall.rs takes the next of its ladders.     *)
Climb ==
  /\ \/ At("recover") /\ calls' = RecoverSystemError /\ UNCHANGED rung
     \/ At("ladder") /\ calls' = Ladders[(rung % Len(Ladders)) + 1]
        /\ rung' = (rung + 1) % Len(Ladders)
  /\ todo' = Tail(todo)
  /\ UNCHANGED <<vars, prog, active, outcome, stalls, recovered, sweep, queue, history>>

(* RECOVERED counts an Ok(true) only. *)
Result ==
  /\ At("result") /\ todo' = Tail(todo)
  /\ recovered' = IF outcome = "ok" /\ recovered < MaxCount THEN recovered + 1 ELSE recovered
  /\ UNCHANGED <<vars, prog, calls, active, outcome, rung, stalls, sweep, queue, history>>

is_recovered == ~is_stalled /\ queue < Depth

(* After a ladder that did not fail; when it did not help, the full cycle. *)
Verify ==
  /\ At("verify") /\ todo' = Tail(todo)
  /\ \/ calls' = (IF outcome # "err" /\ ~is_recovered THEN FullConfigCycle ELSE <<>>)
        /\ UNCHANGED <<faults, clean>>
     \/ outcome # "err" /\ FailedRead /\ UNCHANGED calls
  /\ UNCHANGED <<driverVars, chipVars, hist, sysErrors>>
  /\ UNCHANGED <<prog, active, outcome, rung, stalls, recovered, sweep, queue,
                 parks>>

-----------------------------------------------------------------------------
(* Core 0: loads the counter, changes the mask, lets the phase pass and    *)
(* prints the difference.                                                  *)

Phase == Source[prog].phases[core0.phase]
Sweeping == core0.phase <= Len(Source[prog].phases)

(* mutant: the counter is loaded once, before the sweep *)
LoadStallsOnce ==
  /\ Sweeping /\ core0.at = "load"
  /\ core0' = [core0 EXCEPT !.at = "store"]
  /\ UNCHANGED <<vars, prog, core1, mask, printed, queue, history>>

LoadStalls ==
  /\ Sweeping /\ core0.at = "load"
  /\ core0' = [core0 EXCEPT !.at = "store", !.before = stalls]
  /\ UNCHANGED <<vars, prog, core1, mask, printed, queue, history>>

StoreMask ==
  /\ Sweeping /\ core0.at = "store"
  /\ core0' = [core0 EXCEPT !.at = "phase"] /\ mask' = Phase.d
  /\ UNCHANGED <<vars, prog, core1, printed, queue, history>>

PrintPhase ==
  /\ Sweeping /\ core0.at = "phase"
  /\ printed' = Append(printed, [phase |-> Phase, from |-> core0.before, to |-> stalls])
  /\ core0' = [core0 EXCEPT !.at = "load", !.phase = @ + 1]
  /\ UNCHANGED <<vars, prog, core1, mask, queue, history>>

-----------------------------------------------------------------------------
(* The chip.  Only receive reads the RAM, which is what parks it.          *)

Park ==
  /\ At("drain") /\ SystemError
  /\ parks' = parks + 1
  /\ UNCHANGED <<prog, core1, sweep, queue, clean>>

ChipSend ==
  /\ opmod \in Normal /\ queue > 0 /\ queue' = queue - 1
  /\ UNCHANGED <<vars, prog, core1, sweep, history>>

(* The write of FIFO TX's configuration, where the chip takes it, resets   *)
(* the FIFO (FRESET).                                                      *)
DriverStep ==
  /\ Driver
  /\ queue' = (IF TX \in applied' \ applied THEN 0 ELSE queue)
  /\ UNCHANGED <<prog, core1, sweep, history>>
ChipMode   == ModeChange /\ UNCHANGED watch

Core1 == Invoke \/ Returned \/ Plain \/ NextCycle \/ Send \/ Drain \/ Check \/ Count
         \/ Climb \/ Result \/ Verify
Core0 == LoadStalls \/ StoreMask \/ PrintPhase

WatchNext == Core1 \/ Core0 \/ DriverStep \/ Park \/ ChipSend \/ ChipMode

(* Core 1 and its calls go on, a requested mode comes, a chip that may     *)
(* send does; a chip need not be parked and a phase need not end.          *)
WatchSpec ==
  /\ WatchInit /\ [][WatchNext]_allVars
  /\ WF_allVars(Core1) /\ WF_allVars(DriverStep)
  /\ WF_allVars(ChipMode) /\ WF_allVars(ChipSend)

-----------------------------------------------------------------------------
(* A parked chip is back in a Normal mode at some time, whatever calls     *)
(* fail or time out, at the rate these programs look at it.  stall.rs is   *)
(* excepted once a call failed: its full cycle may leave the chip in       *)
(* Configuration mode, where nothing looks at it again.                    *)
Resumes == byError ~> (opmod \in Normal \/ (prog = "stall" /\ ~clean))

(* While no call fails, what each ladder of stall.rs leaves: clearing the  *)
(* flags leaves the chip parked, recover_system_error has it back in the   *)
(* mode asked for, the ladders that empty the FIFO also pass the check of  *)
(* the program.  The head of stall.rs says that recover_system_error is    *)
(* "expected to always work".  The mode is back every time, but not by the *)
(* program's own measure: is_recovered also wants room in the FIFO, so a   *)
(* chip that is back in its mode with the FIFO full is reported as DID NOT *)
(* RECOVER, and the full cycle that follows discards the queue.            *)
LaddersAsExpected ==
  clean /\ At("verify") =>
    CASE rung = 1 -> opmod \in ErrorModes
      [] rung = 2 -> opmod = MODE
      [] OTHER    -> opmod = MODE /\ is_recovered

(* While no call fails, each system error is counted as one stall, and     *)
(* RECOVERED follows STALLS once the cycle is over.                        *)
CountsFaults ==
  clean /\ calls = <<>> =>
    /\ todo = <<>> \/ Head(todo) \in Range(Cycle) \cup {"count"}
         => parks = stalls + (IF byError THEN 1 ELSE 0)
    /\ todo = <<>> /\ "result" \in Range(Source[prog].stalled) => recovered = stalls

(* No stall is printed under two masks, and none before it was counted.    *)
PhasesDisjoint ==
  /\ \A i, j \in DOMAIN printed : i < j => printed[i].to <= printed[j].from
  /\ \A i \in DOMAIN printed : printed[i].to <= stalls
=============================================================================
