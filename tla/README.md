# TLA+ models of the mcp251xfd driver

The crate `mcp251xfd` drives the Microchip MCP2517FD / MCP2518FD CAN FD
controllers over SPI.  This directory holds models of the driver and of the
controller as the driver sees it, TLC configurations that check them on small
instances, and TLAPS proofs that hold for every instance.

All paths below are relative to `src/`; `driver.rs` is `src/driver.rs`.

## 1. The system

A driver handle (`MCP251xFd`, or `MCP251xFdAsync` from the same source) is owned
by one application task, and every call takes `&mut self`.  So calls of one
handle never overlap.  What runs concurrently with a call is **the controller**:
between any two SPI transactions it sends queued frames, stores arriving ones,
changes its mode, raises interrupt flags, or is parked by a system error.  Every
call is a sequence of transactions (one assertion of chip-select each) with `?`
after each of them, so a call may also stop after any transaction, and the async
variant may be dropped at any `.await`.

| Component | State it keeps | Operations |
|---|---|---|
| Transmit path, `driver.rs` 416-609 | `seq`; in the chip: message RAM, head and tail of each TX FIFO, TXREQ | `transmit`, `transmit_fd`, `transmit_batch`, `transmit_raw`, `reset_fifo` |
| Receive path, `driver.rs` 611-710 | in the chip: RAM elements, tail, count, RXOVIF | `receive`, `clear_rx_overflow`, `reset_fifo` |
| `wait_rx`, `driver.rs` 947-996 | none; nINT of the chip | the loop of `receive` and `wait_for_low` |
| Modes and recovery, `driver.rs` 286-328, 844-861, 886-944 | in the chip: OPMOD, REQOP, C1INT | `set_mode`, `clear_interrupts`, `recover_system_error` |
| `apply_layout`, `driver.rs` 330-386 | in the chip: CiFIFOCON of each FIFO | one OPMOD check, one write per FIFO |
| Bring-up, `driver.rs` 136-284 | `seq_mask`; in the chip: everything | `new`, `reset`, `init` |
| Filters, `driver.rs` 388-414 | in the chip: CiFLTCON, CiFLTOBJ, CiMASK | `set_filter`, `disable_filter` |
| RAM planner, `registers/ram.rs` | `entries`, `total` | `try_add` and its wrappers |
| Frames and message objects, `frame.rs`, `registers/objects.rs`, `FilterMatch` in `config.rs` | none | constructors, DLC tables, packing |
| Bit timing, `config.rs` 55-395 | none | presets, `validate`, `tdco`, `sysclk_hz`, rates |
| Registers, `registers/mod.rs` | none | addresses; getters and setters of one word |
| Interrupts, `driver.rs` 840-872 | in the chip: both halves of C1INT | `configure_interrupts`, `interrupt_flags`, `clear_interrupts` |
| Diagnostics, raw access | none | single reads and writes |
| SPI framing, `bus.rs` | the SPI device | one transaction per function |
| Stall programs (`stall`, `blocking_core1`, `bench_*` of `examples/rp2040/src/bin`) | counters, index of the ladder, MASK_US | provoke, count and recover system errors; core 0 sweeps the mask |
| Test programs (`multinode`, `chip2chip`, `loopback`, `filters`, `extended`, `remote`, `layouts`, `soak`, `batch`) | counters of passed and failed checks | sequences of driver calls with comparisons |
| Printing programs (`bitrate`, `regdump`, `enumerate`) | none | print registers and timings |

How they interact: everything in the driver goes through `bus.rs`; `apply_layout`
turns a `FifoLayout` into the FIFO registers that decide which RAM addresses
`transmit_raw` and `receive` read from CiFIFOUA; `init` decides the width of the
sequence number that `transmit_raw` writes; the filters decide which FIFO a frame
lands in; and `recover_system_error` is what puts a parked chip, whose TX FIFOs
fill and never drain, back to work.  The programs call the driver and each ends a
sequence of calls at its first error, ignores it or counts it, each in its own
way; in the sweeps core 0 and core 1 share two atomics.

What is hard in this code (the list, line by line, is `hazards` in
`PROJECT.json`):

- `transmit_raw` and `receive` use an address read two transactions earlier
  while the chip moves the FIFO's other end;
- a failing transaction may have taken effect; retry can then duplicate (TX) or
  lose (RX) a frame;
- `set_mode` gives up while its request stays with the chip;
- `recover_system_error` races a second system error;
- `init` may find a chip that ignores the RESET;
- off-by-one bounds at the end of the 2048-byte RAM, at depth 32, at DLC codes;
- `wait_rx` must neither sleep on a frame nor spin;
- an alarm flag may rise between the read of the flags and the write that clears
  them;
- registers and FIFOs of an earlier configuration survive an ignored RESET;
- a ladder of recovery may fail half-way and leave a chip nobody looks at again;
- a test program may pass on a broken driver, or fail on a sound one because of
  what an earlier check, pass or program left in the chip.

## 2. The modules

| Module | Models | Checked by |
|---|---|---|
| `TxPath` | transmit path, one action per transaction, with the chip sending and parking | `MCTxPath` |
| `TxChannel` | the abstract promise of the transmit path: bounded queues of whole frames, numbered in call order | property `ImplementsChannel` of `MCTxPath` |
| `TxPathProofs`, `RxPathProofs`, `StallWatchProofs`, `BringUpProofs`, `FiltersProofs`, `RamLayoutProofs`, `FrameCodecProofs`, `TestBenchProofs` | theorems about the module of that name (section 4); `StallWatchProofs` holds those about `ModeControl`, which `StallWatch` extends, as well | TLAPS |
| `RxPath` | receive path and `wait_rx`, with arriving frames, overflow and nINT | `MCRxPath`, `MCRxWait` |
| `RxChannel` | the abstract promise of the receive path: bounded queues that deliver frames exact, in order and once, and lose one only with an error | property `ImplementsRxChannel` of `MCRxPath` |
| `ModeControl` | `set_mode`, `configure_interrupts`, `interrupt_flags` with `clear_interrupts`, `recover_system_error`, `apply_layout` against a chip that changes modes in its own time | `MCModeControl` |
| `StallWatch` | composes `ModeControl` with the seven programs that park, count and recover a chip, on two cores | `MCStallWatch` |
| `Registers` | words as sets of bits, register addresses, the getters and setters the driver uses | through `BringUp` and `RamLayout` |
| `BitTiming` | `Config`: clocks, presets, limits, rates, TDCO | through `BringUp` |
| `BringUp` | `new` and `init`, repeated, on cold and warm chips, with the words it writes | `MCBringUp`, `MCBringUpBrs` |
| `Filters` | the four transactions of `set_filter` and arriving frames | `MCFilters` |
| `RamLayout` | `FifoLayout`, `apply_layout` over an earlier layout, the CiFIFOCON words and the chip's address generation, with real sizes | `MCRamLayout` |
| `FrameCodec` | frame constructors, DLC tables, ID and header packing, filter words, and the way back | `MCFrameCodec` |
| `TestPrograms` | the nine test programs as sequences of driver calls | through `TestBench` |
| `TestBench` | runs them on chips whose driver has one bug, or none | `MCTestBench`, `MCTestBenchSplit` |

Conventions shared by the modules:

- `pc` is the program point of the driver (the transaction it makes next), `op`
  the arguments and locals of the call, `ret` its result.  A call starts with an
  action of its own name; every transaction is one action; the conditions of the
  action are the `if`s and early returns of the code after the transaction
  before it.
- `Faults` says how a transaction may fail.  `"lost"`: it had no effect.
  `"late"`: the chip took it, and the driver still sees an error.  Dropping an
  async call at an `.await` is one of the two for the chip.
- Actions of the controller are external: they are modelled from what the source
  and its comments rely on (TFNRFNIF, CiFIFOUA, UINC, TXREQ, FRESET, OPMOD...).
- Variables under "history" record what the application could observe; no action
  of driver or chip depends on them, except that the chip's fetch of a TX object
  looks up how long the object is under its first word (standing for the DLC in
  T1).
- Definitions marked `mutant` are used by no specification.  Each is a plausible
  bug that one of the properties must catch.

### TxPath

A message object is a sequence of words `<<n, i>>`: the i-th word of the n-th
object the driver wrote.  `ram` holds such words, so an object that is half
overwritten can be told from a whole one.  A FIFO is `tail` and `count`; CiFIFOUA
(`UserAddress`) is the element after the last queued one.  `transmit_raw` is
`StatusFails / StatusFull / StatusRefused / StatusOk`, then `WriteRam /
WriteRamFails`, then `WriteUinc / UincLost / UincLate`.  `op.rest` is the part of
a batch still to be sent, so `transmit` is a batch of one whose "full" is an
error.  `StatusOk` consumes the sequence number, as line 595 does, before the RAM
write that may fail.  `CorruptUA` are values a corrupt read of CiFIFOUA may give.
`calls` lists the objects, with the FIFO they were for and whether the call
reported Ok; `wire` is what the chip sent; `gone` what `reset_fifo` discarded.

What the chip may do between any two of these: send from the tail of any
requested FIFO (clearing TXREQ when it drains), be parked, be put back.

### RxPath

An element keeps the header of its last frame and, byte by byte, what was last
written there; the chip stores only the bytes a frame has, so stale bytes are
visible.  `receive` is `Status*`, `ReadHeader / ReadRefused`, `ReadData` (skipped
for remote and empty frames), then `WriteUinc / UincLost / UincLate`; only
`WriteUinc` hands the frame out (`got`).  A failing UINC drops the frame in hand:
after `UincLost` it is read again by the next call, after `UincLate` it is gone.
`wait_rx` is the same with `op.wait`, which turns an empty FIFO into the program
point `waiting`.

`RxPath` refines `RxChannel`: `queue` is read off the chip's elements, tail and
count, `delivered` is `got`.  A step `Fail` of the abstract queue is a call whose
popping write failed; it loses the oldest frame only where such a write may have
taken effect (`Lossy`).  Transactions that fail earlier are stutters.

CiFIFOUA may read back as any value of `CorruptUA`.  One that the checks of
`receive` let through (`StatusMisread`) becomes the address of both reads; away from
the oldest element a header is any header and a payload any bytes (`Headers`,
`ByteRead`).

### ModeControl

`pend` is a mode request the chip has not granted.  `PollTimeout` leaves it
there.  `calm` records whether no request was outstanding, and the chip not
asleep, when the call began: `apply_layout` reads OPMOD once, and its promise
cannot hold without that premise (see `LayoutApplied`).  `RecoverOrder` is the
order of the two calls `recover_system_error` makes.  C1INT is two sets, flags and
enables, written a byte at a time: the flags by `Clear0` and `Clear1` with the
value `ReadInt` (or the recovery) chose, the enables by `Enable2` and `Enable3`.
`armed` and `unseen` record that the application enabled SERRIE with Ok and that
an error has been raised since it last read the flags.

### StallWatch

`EXTENDS ModeControl`: a program's `calls` are made by the actions of
`ModeControl`, one transaction each (`Invoke` starts one, `Returned` takes its
result), so system errors, late grants and failing transactions fall between any
two of them.  `init`, `set_filter` and `reset_fifo` do not touch the mode and are
one step (`Plain`).  `todo` is the rest of the program's cycle: send, drain
(reading the RAM is what may park the chip: `Park`), check, and for a stalled chip
what its entry in `Source` says.  The seven programs differ in their set-up, in
what they do with a stalled chip and in the phases of core 0, and that is all
`Source` keeps of them.  `queue` is the number of elements in FIFO TX: a send needs
that FIFO configured, and `apply_layout` empties it where its write is taken
(FRESET).  One chip stands for the ten, which the programs treat
alike; the others only move `rung`, which starts anywhere.  `mask` is written and
never read: the masked interrupts delay core 1, and delays are any number of steps
here.

### TestPrograms and TestBench

A step of a program is a driver call with what the program does on Err: fail and
go on, ignore it, skip the rest of a check, or give up.  The sequences are the
programs' own.  Identifiers keep two digits per half, SID and EID, which is enough
to tell every pair of identifiers the programs tell apart and every mask they use;
payloads are a kind and a number.  `TestBench` executes them: chips with a filter
bank, FIFOs and a mode, a bus, and a `bug` that shows where the driver's words
meet the chip (filter halves swapped, filters open or shut, a remote frame's stale
bytes read, a frame routed into the neighbour, a frame not popped).  `Claims` are
the bugs each program's head says it would notice.  Calls may fail before or after
their effect, frames may arrive at any moment after they were queued, and a chip
starts fresh or as an earlier program left it (`Left`).  A wait is over only when
nothing is on its way, so the times in the programs are long enough by assumption;
what a receive does with a frame that comes too late is left to `Drains`, which
does not wait.  `earned` goes false when a comparison succeeds on a frame that was
not the last one sent: every frame on a chip, queued or received, is `new` until
the next call that sends, on whichever chip, and from then on old, even if that
call fails.

### BringUp, Filters, RamLayout, FrameCodec

`BringUp` keeps the controller in one record `chip`; `Written(p)` are the chips
the write at program point `p` may leave: outside Configuration mode RESET may be
ignored, and so may a write of bit timing or TDC (`Guarded`), which `init` makes
before it requests that mode (`driver.rs:234-258`).  `stale` records an ignored
RESET.  `Filters` lets a frame be routed in every reachable state
instead of by an action.  `RamLayout` puts the planner's totals beside the
addresses the chip generates from the words `apply_layout` writes; `con` holds
those words by register address, so a FIFO's word written to another one's address
shows, and `filled` the FIFOs that still hold elements.  The registers of
oscillator, bit timing and CiCON are words in `BringUp`, too, which the chip reads
back by field (`ChipNominal`, `ChipTdco`, ...) with positions written out again,
so that a mistake of a shift or a width does not cancel.  `FrameCodec` writes each
of the three tables of lengths and DLC codes out, so that they may disagree; it
represents a word as the set of its 1 bits, so a shift that loses or moves a bit
is visible, and carries a frame through constructor, TX object, chip, filter and
`receive`.

## 3. The runs

| Run | Question | Bounds |
|---|---|---|
| `MCTxPath` | safety of the transmit path, that it implements `TxChannel`, and that what was reported Ok is sent or discarded | FIFO `a` of 2 elements with 1 payload word, `b` of 1 element with none, filling 8 words of RAM; 3 objects; batches up to 3 with `BatchCap` 2; sequence numbers modulo 2; corrupt CiFIFOUA: unaligned, last word of the RAM, just past it, far past it |
| `MCRxPath` | safety of the receive path, and that it implements `RxChannel` | words of 2 bytes; `a` of 2 elements, `b` of 1 at the end of RAM; frames of 0, 1 and 3 bytes, remote or not, the longest too long for `b`; 3 arrivals; 2 failing UINCs |
| `MCRxWait` | `wait_rx` with RXIE of one FIFO only; each stored frame leaves the FIFO; no read leaves the RAM, whatever CiFIFOUA reads back as | `a`; 3 arrivals; transactions fail without effect; the RAM ends where `a` does, 16 bytes; corrupt CiFIFOUA: unaligned, an element, inside an element, the last word that leaves no room for a header, just past the RAM, far past it |
| `MCModeControl` | results of the mode and interrupt calls | 5 of the 8 modes, 1 poll, 2 FIFOs, 2 system errors, 1 failing transaction |
| `MCStallWatch` | the stall programs: recovery, ladders, counters, phases | all 7 programs, 2 modes, 1 poll, 1 FIFO of depth 2, 2 system errors, 1 failing transaction, 1 mask duration, 1 round per arm, counters up to 2 |
| `MCBringUp` | what Ok of `init` means, the rates included, and that retrying it succeeds | 3 valid and 4 invalid configurations, 2 RAM blocks, 2 polls, 1 failing transaction, 3 initial chips, both variants; clocks in time or slow (`slow`) |
| `MCBringUpBrs` | a doc line that the code contradicts (below) | as `MCBringUp`, with 2 configurations |
| `MCRamLayout` | the planner and `apply_layout` against the chip, over earlier layouts | FIFOs 1..3, depths 0, 4, 20, 32, 33, payloads 8, 12, 16 and 64 |
| `MCFrameCodec` | round trip, filters, DLC codes | 9 identifiers at the edges of SID and EID, 10 lengths, 4 masks |
| `MCFilters` | rewriting a filter | 2 filters, 2 targets, 1 identifier bit |
| `MCTestBench` | do the test programs report what they claim, only that, and on their own frames | 9 programs, 3 rounds where they repeat (10 to 500 in the code), 3 of the 9 length codes, a counter of 8 values (256 in the code), 1 failing call per pass |
| `MCTestBenchSplit` | a doc line that the program does not live up to (below) | `extended`, two bugs |

Why they are enough to be interesting:

- `a` can be empty, half full and full, and wraps; `b` is directly behind it, so
  an overrun of one FIFO meets the other, and an overrun of `b` the end of RAM.
  Three objects let the ring wrap while one is queued and one half-written.
  Every frame has the length its FIFO is made for, the case in which an object
  of one word too many does harm; the theorems hold for every mix of lengths.
  Sequence numbers wrap with the second object.
- Three frames on a FIFO of depth 2 overflow it; a remote frame can land on the
  element of a data frame; a payload of 3 bytes in words of 2 needs padding.
- Two system errors are what the flag order of recovery is about.  One poll makes
  every mode request able to time out, and a late grant able to fall anywhere.
- 20 elements of 72 bytes, 32 of 16 and 4 of 24 are exactly 2048 bytes; depth 32 is
  where FSIZE wraps.
- The valid configurations include the largest value of every bit-timing field and
  the PLL; each invalid one is a step past one limit, and the one with the offset
  of 120 is what a clamped TDCO would let through.
- Two masks would add phases of the same kind: one phase per sweep, and two in the
  sweep with two arms, already put a stall before, in and after a phase.
- A remote frame's slot is used by a data frame before it; a soak cycle is
  followed by another, and its counter wraps within a few of them.
- Filters test identifiers bit by bit, so one bit shows every confusion of
  object, mask and target.

Deadlock is checked in every run: each has an action (another call, at least)
that is always possible, or it counts as an error.

Fairness.  `FairSpec` of `TxPath`: a call that is being polled makes its next
step, and the chip sends what is requested while it stays in a Normal mode; that
the chip is eventually left running is a premise of `SentEventually`, not an
assumption.  The safety properties of `MCTxPath` do not use fairness.  `FairSpec`
of `RxPath`: only steps that make progress are fair, so
nothing relies on a failure; `WaitReturns` needs no more.  `LoopSpec` adds, for
`FrameLeaves` only, that the application calls again, as the examples do in their
loops, and that a transaction tried for ever succeeds at last: the number of
failed reads is not bounded, so this is an assumption on the SPI bus, not on the
code.  `WatchSpec` of `StallWatch`: core 1 runs an endless
loop, so its steps and those of the calls it makes are fair, and the chip grants a
request that stays and sends while it may; no transaction is assumed to succeed,
only the number of failures is bounded, and neither parking nor core 0 is fair.
`RetrySpec` of `BringUp` adds that the chip starts its clocks and that the
application calls again, as the examples do.

### Exceptions the properties make

They are part of what the runs show.  `FrameLeaves` excepts a FIFO whose oldest
element is refused for its DLC (`Blocked`).  No frame of `MCRxWait` does that; with
`Fifo = {b}`, whose longest frames do, and corrupt addresses that the checks refuse, the
property holds as well.  `Resumes` excepts `stall.rs` after a failed
call: its full-configuration ladder may then leave the chip in Configuration mode,
which the check of the next cycle does not take for stalled (without the exception
TLC finds the chip there for good).  `LaddersAsExpected` and `CountsFaults` speak
of executions in which no call has failed: the benches count a fault again in each
cycle in which its recovery fails.  `NoFalseAlarm` excepts a cycle of `soak.rs`
that follows a failed call, since `probe_rx_overflow` leaves without draining when
the status read fails; `CatchesBugs` speaks of passes without a failed call,
because `filters.rs` and `extended.rs` cannot tell a receive that failed from a
frame that was rejected.  `batch.rs` checks nothing of what it receives, so it has
no claims.  `ElementsFit` asks that the layout names every FIFO an earlier one
left configured, as the doc of `apply_layout` does.  `LayoutApplied` speaks of a call
that began on a chip awake and without an outstanding request.

`TimingInForce` excepts an `init` whose RESET was ignored, but for bit rate
switching.  Its timings may then be ignored as well, and since the last poll of
`init` looks at the mode only, that `init` may return Ok on a chip that runs at the
rates of an earlier program.  The doc of `init` (`driver.rs:165-170`) leaves the case
to its caller, and the test programs make sure of Configuration mode first
(`ensure_configuration` in `common.rs`).  That no read of `receive` leaves the RAM
holds with any CiFIFOUA; that it delivers the right frame cannot, so
`DeliveredExact` and the refinement are checked with corrupt addresses the checks
refuse.

### Three disagreements between doc and code

`MCTestBenchSplit` expects a violation.  The head of `extended.rs` says that the
program verifies the SID/EID split and the standard-vs-extended distinction.  The
filter and the frame it sends are packed by the same `pack_id`, so a swap of the
halves cancels; and the identifiers of its third test differ in SID as well as in
kind, so they do not match even without EXIDE and MIDE.  Either bug passes.

`MCBringUpBrs` expects a violation.  The doc of `transmit_fd` (`driver.rs:501`)
says that `CiCON.BRSDIS` stays clear.  `init` (`driver.rs:249-257`) sets it when
`Config::data` is `None`, for a reason its comment gives.  The code is the
intended behaviour; the doc line is out of date.

The third has no run of its own.  The head of `stall.rs` (line 26) expects
`recover_system_error` "to always work".  `LaddersAsExpected` shows that it has the
chip back in its mode every time no call fails.  But the program's measure,
`is_recovered` (`stall.rs:161-170`), also wants room in the transmit FIFO, and a
stalled chip's FIFO may be full and still be so when it is read: then the program
prints DID NOT RECOVER and runs the full configuration cycle (`stall.rs:268-275`),
which discards the queue.  That is why the property asks for `is_recovered` only
after the two ladders that empty the FIFO; asked for after `recover_system_error`,
TLC refutes it.

## 4. The proofs

Every theorem is about the module's own `Spec` (`WatchSpec` for `StallWatch`), for
every value of its constants: any number of FIFOs, filters, polls, calls, faults,
any layout, configuration or identifier.  The assumptions on the constants are the
named `ASSUME`s of the module; a premise in the last column is one more.  Each
safety invariant but `CatchesBugs` and `NoFalseAlarm` of `TestBench` (and the part
of `OkIsEarned` about `soak`), each action property and both refinements that a run
checks are also proved.

| Module | Theorem | Property | Extra premises |
|---|---|---|---|
| `TxPathProofs` | `TypeCorrect` | `TypeOK` | none |
| | `WritesStayInRam` | `WriteInRam` | none: any frame length, any value of CiFIFOUA |
| | `NumbersAreDistinct` | `SeqDistinct` | none |
| | `SlotStaysMine` | `SlotStillMine` | `FramesFit`, `CorruptShows` |
| | `QueueStaysUntouched` | `QueuedUntouched` (action) | the same |
| | `LastSlotIsUsable` | `LastSlotUsable` | the same |
| | `ObjectsStayIntact` | `ObjectsIntact` | the same |
| | `OkIsNotLost` | `OkNotLost` | the same |
| | `BatchIsPrefix` | `BatchPrefix` | the same |
| | `ChannelIsImplemented` | `ImplementsChannel` (refinement) | the same |
| `RxPathProofs` | `DeliveryIsExact` | `DeliveredExact` | `CorruptShows` |
| | `ReadsAreInBounds` | `BoundsExact` | none: any value of CiFIFOUA, plausible ones included |
| | `RxChannelIsImplemented` | `ImplementsRxChannel` (refinement) | `CorruptShows` |
| | `WakeUpsFindFrames` | `NoSpin` | `OnlySource` |
| `StallWatchProofs` (`ModeControl`) | `OkIsFinal` | `OkSettles` | none |
| | `SecondErrorShows` | `SecondErrorVisible` | none |
| | `LayoutIsApplied` | `LayoutApplied` | none |
| | `AlarmIsKept` | `AlarmStands` | none |
| `StallWatchProofs` (`StallWatch`) | `CallsKeepPromises` | the four above, where the programs make the calls | none |
| | `FaultsAreCounted` | `CountsFaults` | none |
| | `LaddersDoAsExpected` | `LaddersAsExpected` | none |
| | `PhasesAreDisjoint` | `PhasesDisjoint` | none |
| `BringUpProofs` | `OkIsReady` | `OkMeansReady` | none |
| | `MaskAlwaysFits` | `SeqMaskFits` | none |
| | `TimingIsInForce` | `TimingInForce` | none |
| `FiltersProofs` | `WholeRulesRoute` | `RoutedByWholeRule` | none |
| | `OutcomesAreWhole` | `OutcomeWhole` | none |
| `RamLayoutProofs` | `LayoutFits` | `ElementsFit` | none |
| | `RefusedWouldNotFit` | `RefusedNeverFit` | none |
| | `LayoutIsInForce` | `LayoutInForce` (action) | none |
| | `PathsAreSuited` | what `TxPath` and `RxPath` assume of a layout | none |
| `FrameCodecProofs` | `FramesRoundTrip` | `RoundTrip` | none |
| | `PayloadFitsDlc` | `PayloadMatchesDlc` | none |
| | `ReceivedIsValid` | `ReceivedValid` | none |
| | `FiltersMeanIt` | `FilterMeaning` | none |
| `TestBenchProofs` | `EarnedByScripts` | `OkIsEarned` | every program but `soak` |

### What is assumed

- `LayoutAssumption` of `TxPath` and `RxAssumption` of `RxPath`: there is a FIFO,
  each has at least one element and lies in the RAM, those of `TxPath` do not
  overlap.  `PathsAreSuited` proves it of the FIFOs that `apply_layout` leaves on
  the chip after Ok, for every layout that the planner accepted and that obeys the
  docs (FIFOs from F1 upwards, none left over from before).
- `FramesFit`: no frame longer than the PLSIZE of its FIFO, the rule of the
  transmit docs.  `CorruptShows`: a corrupt CiFIFOUA is unaligned or leaves no room
  for the header of an object; a corrupt value that looks right cannot be detected
  by anyone.  The same of `RxPath`, for what is delivered.  That no burst leaves the
  RAM, and no read, needs neither.
- `OversizeAtEnd` of `RxPath`: a frame longer than its FIFO's payload, which spoils
  what follows its element, arrives only where nothing follows but the end of the
  RAM.  That is the case the bounds check of `receive` is for; elsewhere the driver
  cannot see it, and the choice of PLSIZE has to exclude it.
- `OnlySource`: one FIFO and RXIE its only enabled interrupt.  `wait_rx` documents
  that other sources wake it for nothing.
- Closed facts, which TLC computes on every run whose module extends theirs, and
  which the provers cannot since a field of a word is a sum of powers of two:
  `FieldsHoldTheirRange` and `OffsetsSurvive` (every value of a bit-timing field is
  read back from its word), `DlcCodesSurvive` (every DLC code from its four bits),
  `WordsReadBack` (every entry `try_add` can accept from its CiFIFOCON word) and
  `ProgramsAssumption` (the programs are those of `Source`).  They name no
  CONSTANT but `Programs`, so what TLC computes holds for every instance.
- `ScriptsAreSound` of `TestBench` is a closed fact about each program but `soak`,
  read off its sequence of steps alone: between a send and a comparison with the
  frame it sent, nothing else is sent, and every
  frame that may be left there from before was removed by a flush or tells itself
  apart.  Its instance depends on how often the script repeats; TLC computes it for
  the bounds of `MCTestBench`, and for the numbers of the source (10 rounds of
  `multinode`, all 9 length codes of `remote`) as well.
- `ConfigsAssumption`, `CodecInputs`, `LayoutInputs` say no more than the Rust types
  and constructors of the arguments do.

### The arguments

`TxPath`.  `TypeOK` is not inductive: that `count` stays within `Depth` when UINC
arrives needs the slot that was free in the first transaction to be free in the
third, and that the RAM stays a function on its addresses needs the object in hand
to fit.  `TypeInv == TypeOK /\ InHand` adds both, and gives `WriteInRam`.
`SlotInv` adds that the address in hand is the head of the FIFO (`SlotStillMine`),
which `ChipSend` preserves because tail and count move together, and that frames in
hand and in `calls` fit their FIFO.  From it follows that the words a burst writes
are disjoint from every queued element (`QueuedUntouched`): elements of one FIFO are
at distinct multiples of its stride, FIFOs lie apart.  `ObjInv` adds what is in the
slots: each queued element holds a whole object of its FIFO, so does the slot in
hand once the burst is complete, and so do the frames on the bus.

`QueueInv` adds the bookkeeping that the results of the calls need, about the
objects handed over: on the bus, queued, or discarded by `reset_fifo`.  `OfferInv`
bounds the objects still to come.  `BookInv`: of the running call exactly the first
`op.acc` objects have been handed over, the one being written is unknown to the chip,
and the last result is about earlier ones.  `OkInv`: what a call reported Ok for is
on the bus, queued or discarded.
`SeqInv`, which needs no premise, says that the n-th object carries the n-th
number, so that consecutive ones differ modulo `SeqMod`.  For the refinement the
abstract queue of a FIFO is read off tail, count and RAM; `StatusOk` is an `Offer`,
`WriteUinc` and `UincLate` are an `Enqueue`, `ChipSend` is a `Send`, and the other steps
leave every queue as it was, the bursts into the RAM included.

`RxPath`.  `RxInv == RxType /\ QueueOk /\ ReadOk /\ GotOk`: each element between
tail and count holds a frame that was stored there, with the payload of that frame
in its first bytes and stale bytes behind; what the call has read so far is the
front of the oldest element; what was handed out is exact.  The chip writes only the
free slot, so what a call reads over three transactions does not change under it.
`BoundsInv` is apart, since it must hold of any address that passes the checks: what
`receive` holds from the status read on starts on a word with room for a header, and
from the header on leaves room for the payload.
`OnlySource` makes nINT low exactly when the FIFO is not empty.

`ModeControl`.  `ModeInv` says at each program point which call is running
(`CallInv`), what its request and the chip's mode may be (`ChipInv`, `PollInv`:
while a call polls, the only request outstanding is its own), which FIFOs a calm
`apply_layout` has written (`LayoutInv`), and that an alarm that rose after the
flags were read is not among the bits about to be cleared (`AlarmInv`).  `Results`,
the conjunction of the invariants the run checks, is part of it: without
`OkSettles` of the last call nothing is known of the request the next one finds.

`StallWatch` reuses the step lemmas of `ModeControl` for `CallsKeepPromises`.
`WatchInv` says that core 1 is at a place of its cycle (`Where`: in the cycle, having
seen or counted a stall, recovering, on a ladder, making its last calls) and what
counters and chip are there.  `Sound`, no failed call so far and none about to be
noticed, is a premise of that part, as it is of the properties.  `PhaseInv` is about
core 0 and needs nothing of the rest but that the counter only grows: what has been
printed was counted before the phase that runs now began.

`BringUp`.  `BringInv` has one conjunct per part of the chip, each holding from the
program point that establishes it to the return of Ok (`Since(From...)`).  The
words are compared with the fields of the configuration by `FieldsHoldTheirRange`.

`Filters`.  `FilterInv`: a filter being rewritten is disabled from the first
transaction to the last and holds what has been written so far; one that is enabled
holds a rule the application asked for.

`RamLayout`.  `LayoutInv == PlanInv /\ ChipInv`: the total is the sum over the
entries and at most the RAM, and after Ok each word decodes to its entry.  Sums over
sets need induction, which is out of reach; instead the sum of numbers is the number
of points below their graph (`Area`, `Total`), and points are counted with the facts
about `Cardinality`.  That the community module's fold computes that number
(`SumIsTotal`) is shown with a minimal counterexample, which `MinimalSubset` gives.

`FrameCodec`.  `CodecInv` follows one frame from constructor to `receive`.  `Says`
tells which bits of a header stand for which identifier, code and flag; it holds of
what `transmit` builds and of what the chip makes of it, and determines what
`receive` and a filter make of it.  The DLC tables are split by cases.

`TestBench`.  `earned` alone is not inductive: that the frame a comparison accepts
was sent last depends on every frame on every chip.  `BenchInv` adds, for a
comparison at step k with the frame of the send at step m: `SentInv`, between m and
k that frame is the one sent last; `TxInv`, since the last flush of a chip nothing
that k would take for it waits there to be sent, but the frame itself once m is
behind; `RxInv`, the same of the FIFO that k reads, once every chip was flushed.
The three hold because `Sound` says that the flushes and the send of k are there,
that k is reached only through them, and that what is sent in between can be told
apart.  `StepOutcome` sums up what a step does to the frames of a chip, whatever
the bug: it takes one from a transmit FIFO to the FIFOs that hear it, removes some,
or queues those of the step and ages the rest.  So `earned` holds with any bug and
any number of failing calls.

`soak` is left out because there it rests on a number: it flushes only where it
starts, and its frames tell themselves apart by the low byte of a counter.  A frame
that stayed in a FIFO while 256 more were refused or lost would match again.
`MCTestBench` shows only that it does not happen within its bounds.

## 5. What is only model-checked, and what is not modelled

Only checked by TLC:

- the liveness properties `SentEventually`, `WaitReturns`, `FrameLeaves`, `Resumes`
  and `ComesUp`: they need fairness, which is out of the prover's reach;
- `CatchesBugs` and `NoFalseAlarm` of `TestBench`, and `OkIsEarned` for `soak`: each
  is about what one script does step by step with one bug, or none, so a proof would
  go through the states that TLC goes through;
- that the presets of `config.rs` have the rates they are named for
  (`PresetsKeepTheirName`) and that registers do not overlap (`RegistersApart`):
  closed facts that TLC computes.

`SlotStillMine` is the other way round: a lemma of the proofs with a theorem of its
own (`SlotStaysMine`), and no run, since `ObjectsIntact` and `QueuedUntouched` fail
whenever it does.

Not modelled:

- delays in time: polls are counted, the chip may take any number of steps between
  them; throughput, latency and lateness figures of the benches;
- the byte gaps inside a transaction that trigger the erratum (its effect, a
  system error, may happen at any time, in `StallWatch` while RAM is read);
- `SCLKRDY`, which `init` does not poll, and inputs of the PLL below 4 MHz or
  crystals above 40 MHz with `sclk_div2`, which `ClockConfig::validate` accepts
  although its docs name narrower ranges: the models take what the code accepts;
- single diagnostic reads, `pending_event` and the ICODE table, `max_spi_hz`;
- `write_register_raw`, which can put the chip in any state;
- byte order and command words of `bus.rs`; formatting;
- `bitrate.rs`, `regdump.rs` and `enumerate.rs`, which print what they read and
  check nothing a model could refute, and the pin and bus set-up of `common.rs`;
- the mocked SPI of the tests, whose transcripts were read as the reference for
  the order of transactions;
- a transmit FIFO handed to `receive`, which is documented misuse.

## 6. Plan

Done: every operation of the driver that changes state, the planner, the codec,
bit timing, and the programs that check or recover something; every safety property
that speaks of a component for all its parameters is proved, and the assumptions
that the paths make of a layout are theorems of the planner.  What could be added:

1. `TxPath` composed with `ModeControl` at the granularity of both, so that queued
   frames are followed through a recovery (`StallWatch` keeps their number only),
   with the invariants of both carried over to the composition.
2. The refinement of one abstract "recovered chip" by `recover_system_error` and by
   the ladders of `stall.rs`, in place of the separate properties of their results.
