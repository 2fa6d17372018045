------------------------------- MODULE RxPath -------------------------------
(***************************************************************************)
(* The receive path of the driver: receive, wait_rx, clear_rx_overflow and *)
(* reset_fifo, one action per SPI transaction (or wait on the pin), while  *)
(* the controller stores arriving frames, drops them when a FIFO is full,  *)
(* and drives nINT.                                                        *)
(*                                                                         *)
(* An arrived frame is [n, remote, len]: the n-th frame of the bus, and    *)
(* its payload length in bytes.  Its i-th byte is <<n, i>>.  An element of *)
(* the message RAM keeps the header of the last frame stored there and, in *)
(* its payload bytes, whatever was written last: the chip stores only the  *)
(* bytes the frame has, so the tail of an element is stale.                *)
(***************************************************************************)
EXTENDS Integers, Sequences, FiniteSets

CONSTANTS
  Fifo,        \* the receive FIFOs of the layout
  Depth,       \* Depth[f]: elements of FIFO f
  PlBytes,     \* PlBytes[f]: payload bytes an element of f reserves (PLSIZE)
  Base,        \* Base[f]: byte offset of FIFO f in message RAM
  RamSize,     \* bytes of message RAM (2048 on the chip)
  WordBytes,   \* bytes of a RAM word (4 on the chip)
  Lengths,     \* Lengths[f]: payload lengths of the frames f's filters accept
  DlcLengths,  \* payload lengths that a DLC can stand for
  Enabled,     \* interrupt enables of C1INT, out of {"RXIE", "RXOVIE"}
  Faults,      \* how an SPI transaction may fail: {"lost", "late"}
  CorruptUA,   \* byte offsets a corrupt CiFIFOUA read may return
  MaxFrames,   \* bound: frames that arrive
  MaxErrors    \* bound: calls whose UINC write fails

HdrBytes == 2 * WordBytes

ASSUME RxAssumption ==
  /\ Fifo # {}
  /\ Depth \in [Fifo -> Nat \ {0}] /\ PlBytes \in [Fifo -> Nat]
  /\ Base \in [Fifo -> Nat] /\ RamSize \in Nat /\ WordBytes \in Nat \ {0}
  /\ DlcLengths \subseteq Nat /\ Lengths \in [Fifo -> SUBSET DlcLengths]
  /\ CorruptUA \subseteq Nat
  /\ \A f \in Fifo : Base[f] + Depth[f] * (HdrBytes + PlBytes[f]) <= RamSize
  /\ \A f \in Fifo : PlBytes[f] % WordBytes = 0 /\ Base[f] % WordBytes = 0
  /\ Enabled \subseteq {"RXIE", "RXOVIE"} /\ Faults \subseteq {"lost", "late"}
  /\ MaxFrames \in Nat /\ MaxErrors \in Nat

(* A frame longer than PLSIZE spoils what follows its element; it is       *)
(* admitted only where that is nothing but the end of the RAM.             *)
ASSUME OversizeAtEnd == \A f \in Fifo : \A len \in Lengths[f] :
  len <= PlBytes[f] \/ (Depth[f] = 1 /\ Base[f] + HdrBytes + PlBytes[f] = RamSize)

VARIABLES
  pc, op,                       \* the driver: where it is, and its locals
  elems, tail, count, rxov,     \* the chip: RAM elements and FIFO registers
  arrived,                      \* history: frames seen on the bus
  stored, got,                  \* history, per FIFO: what became of them
  errs                          \* history: calls whose UINC write failed

driverVars == <<pc, op>>
chipVars   == <<elems, tail, count, rxov>>
history    == <<arrived, stored, got, errs>>
vars       == <<driverVars, chipVars, history>>

Zero  == <<0, 0>>              \* a zero byte
Junk  == <<0, 1>>              \* a byte from outside the element
Frame == [n : Nat, remote : BOOLEAN, len : Nat]
Nothing == [n |-> 0, remote |-> FALSE, len |-> 0]

-----------------------------------------------------------------------------
(* The controller's registers, as the driver sees them. *)

Slot(f, k) == IF tail[f] + k >= Depth[f] THEN tail[f] + k - Depth[f]
                                         ELSE tail[f] + k

UserAddress(f) == Base[f] + tail[f] * (HdrBytes + PlBytes[f])   \* CiFIFOUA
NotEmpty(f) == count[f] > 0                                     \* TFNRFNIF

(* nINT is low while any enabled source is pending; apply_layout enables   *)
(* the not-empty and the overflow interrupt of every receive FIFO.         *)
IntLow ==
  \/ "RXIE" \in Enabled /\ \E f \in Fifo : NotEmpty(f)
  \/ "RXOVIE" \in Enabled /\ \E f \in Fifo : rxov[f]

(* The frames waiting in f, oldest first. *)
Queue(f) == [k \in 1 .. count[f] |-> elems[f][Slot(f, k - 1)].hdr]

-----------------------------------------------------------------------------
NoOp == [fifo |-> CHOOSE f \in Fifo : TRUE, wait |-> FALSE, woken |-> FALSE,
         at |-> 0, hdr |-> Nothing, data |-> <<>>]

Init ==
  /\ pc = "idle" /\ op = NoOp
  /\ elems = [f \in Fifo |-> [s \in 0 .. Depth[f] - 1 |->
                [hdr |-> Nothing, data |-> [i \in 1 .. PlBytes[f] |-> Zero]]]]
  /\ tail = [f \in Fifo |-> 0] /\ count = [f \in Fifo |-> 0]
  /\ rxov = [f \in Fifo |-> FALSE]
  /\ arrived = 0 /\ errs = 0
  /\ stored = [f \in Fifo |-> {}]
  /\ got = [f \in Fifo |-> <<>>]

Receive(f) ==
  /\ pc = "idle" /\ pc' = "status" /\ op' = [NoOp EXCEPT !.fifo = f]
  /\ UNCHANGED <<chipVars, history>>

WaitRx(f) ==
  /\ pc = "idle" /\ pc' = "status" /\ op' = [NoOp EXCEPT !.fifo = f, !.wait = TRUE]
  /\ UNCHANGED <<chipVars, history>>

Abort == pc' = "idle" /\ op' = NoOp

(* The chip takes UINC: the oldest element is freed. *)
PopFifo(f) ==
  /\ tail' = [tail EXCEPT ![f] = Slot(f, 1)]
  /\ count' = [count EXCEPT ![f] = @ - 1]

(* mutant: an element that could not be read is skipped *)
ReadFailsSkips ==
  /\ pc \in {"header", "data"} /\ Faults # {}
  /\ PopFifo(op.fifo) /\ Abort
  /\ UNCHANGED <<elems, rxov, history>>

(* A transaction before the UINC fails, or the call is dropped in it: the  *)
(* FIFO is as it was.                                                      *)
ReadFails ==
  /\ pc \in {"status", "header", "data"} /\ Faults # {}
  /\ Abort
  /\ UNCHANGED <<chipVars, history>>

(* RxFifoEmpty: returned by receive, turned into a wait by wait_rx. *)
StatusEmpty ==
  /\ pc = "status" /\ ~NotEmpty(op.fifo)
  /\ IF op.wait THEN pc' = "waiting" /\ op' = [op EXCEPT !.woken = FALSE]
                ELSE Abort
  /\ UNCHANGED <<chipVars, history>>

PlausibleUAStart(ua) == ua < RamSize /\ ua % WordBytes = 0      \* mutant
PlausibleUA(ua) == ua < RamSize /\ ua % WordBytes = 0 /\ ua + HdrBytes <= RamSize

StatusRefused ==
  /\ pc = "status" /\ NotEmpty(op.fifo)
  /\ \E ua \in {UserAddress(op.fifo)} \cup CorruptUA : ~PlausibleUA(ua)
  /\ Abort
  /\ UNCHANGED <<chipVars, history>>

(* The checks pass, and CiFIFOUA read back true.                          *)
StatusOk ==
  /\ pc = "status" /\ NotEmpty(op.fifo) /\ PlausibleUA(UserAddress(op.fifo))
  /\ pc' = "header" /\ op' = [op EXCEPT !.at = UserAddress(op.fifo)]
  /\ UNCHANGED <<chipVars, history>>

(* The checks pass, and it did not: the driver goes on with any address    *)
(* they let through.                                                       *)
StatusMisread ==
  /\ pc = "status" /\ NotEmpty(op.fifo)
  /\ \E ua \in CorruptUA : PlausibleUA(ua) /\ op' = [op EXCEPT !.at = ua]
  /\ pc' = "header"
  /\ UNCHANGED <<chipVars, history>>

(* At the right address, the oldest element of the FIFO; at a wrong one    *)
(* a header is any two words and a payload any bytes.                      *)
Oldest == elems[op.fifo][tail[op.fifo]]
AtOldest == op.at = UserAddress(op.fifo)
Headers == IF AtOldest THEN {Oldest.hdr} ELSE [n : {0}, remote : BOOLEAN, len : DlcLengths]
ByteRead(i) == IF AtOldest /\ i \in DOMAIN Oldest.data THEN Oldest.data[i] ELSE Junk

Padded(len) == ((len + WordBytes - 1) \div WordBytes) * WordBytes
EndsInRam(ua, len) == ua + HdrBytes + Padded(len) <= RamSize

(* The header is in; a payload read that would leave the RAM is refused,   *)
(* and the element stays where it is.                                      *)
ReadHeader ==
  /\ pc = "header"
  /\ \E hdr \in Headers :
       /\ EndsInRam(op.at, hdr.len)
       /\ op' = [op EXCEPT !.hdr = hdr, !.data = [i \in 1 .. Padded(hdr.len) |-> Zero]]
       /\ pc' = IF hdr.len > 0 /\ ~hdr.remote THEN "data" ELSE "uinc"
  /\ UNCHANGED <<chipVars, history>>

ReadRefused ==
  /\ pc = "header" /\ \E hdr \in Headers : ~EndsInRam(op.at, hdr.len)
  /\ Abort
  /\ UNCHANGED <<chipVars, history>>

(* mutant: the rest of the last word is not zeroed *)
ReadDataStale ==
  /\ pc = "data"
  /\ op' = [op EXCEPT !.data = [i \in DOMAIN @ |-> ByteRead(i)]]
  /\ pc' = "uinc"
  /\ UNCHANGED <<chipVars, history>>

(* Whole words are read; what the frame does not fill is zeroed. *)
ReadData ==
  /\ pc = "data"
  /\ op' = [op EXCEPT !.data = [i \in DOMAIN @ |->
              IF i > op.hdr.len THEN Zero ELSE ByteRead(i)]]
  /\ pc' = "uinc"
  /\ UNCHANGED <<chipVars, history>>

(* mutant: the call ends without its popping write *)
WriteUincKeeps ==
  /\ pc = "uinc" /\ Abort
  /\ UNCHANGED <<chipVars, history>>

WriteUinc ==
  /\ pc = "uinc"
  /\ PopFifo(op.fifo)
  /\ got' = [got EXCEPT ![op.fifo] = Append(@, [hdr |-> op.hdr, data |-> op.data])]
  /\ Abort
  /\ UNCHANGED <<elems, rxov, arrived, stored, errs>>

(* The frame is dropped with the error, the element is kept. *)
UincLost ==
  /\ pc = "uinc" /\ "lost" \in Faults /\ errs < MaxErrors
  /\ Abort /\ errs' = errs + 1
  /\ UNCHANGED <<chipVars, arrived, stored, got>>

(* The frame is dropped with the error, and the element is gone too. *)
UincLate ==
  /\ pc = "uinc" /\ "late" \in Faults /\ errs < MaxErrors
  /\ PopFifo(op.fifo)
  /\ Abort /\ errs' = errs + 1
  /\ UNCHANGED <<elems, rxov, arrived, stored, got>>

(* mutant: the wait is for the wrong level *)
PinHigh ==
  /\ pc = "waiting" /\ ~IntLow
  /\ pc' = "status" /\ op' = [op EXCEPT !.woken = TRUE]
  /\ UNCHANGED <<chipVars, history>>

(* wait_for_low returns at once if nINT is low, and later otherwise. *)
PinLow ==
  /\ pc = "waiting" /\ IntLow
  /\ pc' = "status" /\ op' = [op EXCEPT !.woken = TRUE]
  /\ UNCHANGED <<chipVars, history>>

PinFails ==
  /\ pc = "waiting" /\ Faults # {}
  /\ Abort
  /\ UNCHANGED <<chipVars, history>>

(* The application drops the future while it sleeps. *)
DropWait == pc = "waiting" /\ Abort /\ UNCHANGED <<chipVars, history>>

(* clear_rx_overflow and reset_fifo: one transaction each. *)
ClearRxOverflow(f) ==
  /\ pc = "idle" /\ rxov[f] /\ rxov' = [rxov EXCEPT ![f] = FALSE]
  /\ UNCHANGED <<driverVars, elems, tail, count, history>>

ResetFifo(f) ==
  /\ pc = "idle"
  /\ tail' = [tail EXCEPT ![f] = 0] /\ count' = [count EXCEPT ![f] = 0]
  /\ rxov' = [rxov EXCEPT ![f] = FALSE]
  /\ UNCHANGED <<driverVars, elems, history>>

-----------------------------------------------------------------------------
(* The controller: a frame that a filter routes to f has arrived. *)

Store(f, fr) ==
  LET s == Slot(f, count[f])
      bytes == IF fr.remote THEN 0 ELSE fr.len
  IN  elems' = [elems EXCEPT ![f][s] =
        [hdr |-> fr, data |-> [i \in DOMAIN @.data |->
                                 IF i <= bytes THEN <<fr.n, i>> ELSE @.data[i]]]]

Arrive(f, remote, len) ==
  LET fr == [n |-> arrived + 1, remote |-> remote, len |-> len] IN
  /\ arrived < MaxFrames /\ arrived' = arrived + 1
  /\ \/ /\ count[f] < Depth[f]
        /\ Store(f, fr)
        /\ count' = [count EXCEPT ![f] = @ + 1]
        /\ stored' = [stored EXCEPT ![f] = @ \cup {fr}]
        /\ UNCHANGED rxov
     \/ /\ count[f] = Depth[f]
        /\ rxov' = [rxov EXCEPT ![f] = TRUE]
        /\ UNCHANGED <<elems, count, stored>>
  /\ UNCHANGED <<driverVars, tail, got, errs>>

Chip == \E f \in Fifo, remote \in BOOLEAN : \E len \in Lengths[f] :
          Arrive(f, remote, len)

Application ==
  \/ DropWait
  \/ \E f \in Fifo : Receive(f) \/ WaitRx(f) \/ ClearRxOverflow(f) \/ ResetFifo(f)

(* The steps of a driver call that has been made, and how they fail. *)
Driver ==
  \/ StatusEmpty \/ StatusRefused \/ StatusOk
  \/ ReadHeader \/ ReadRefused \/ ReadData
  \/ WriteUinc \/ PinLow
Failure == StatusMisread \/ ReadFails \/ UincLost \/ UincLate \/ PinFails

Next == Application \/ Driver \/ Failure \/ Chip

Spec == Init /\ [][Next]_vars

(* A call that is polled makes its next step, if it does not fail; no      *)
(* failure is bound to happen.                                             *)
FairSpec == Spec /\ WF_vars(Driver)

(* Also, the application calls again, and a transaction that is tried for  *)
(* ever succeeds at last.                                                  *)
LoopSpec ==
  /\ FairSpec /\ WF_vars(\E f \in Fifo : Receive(f) \/ WaitRx(f))
  /\ SF_vars(StatusOk) /\ SF_vars(ReadHeader) /\ SF_vars(ReadData) /\ SF_vars(WriteUinc)

-----------------------------------------------------------------------------
Byte == Nat \X Nat

TypeOK ==
  /\ pc \in {"idle", "status", "header", "data", "uinc", "waiting"}
  /\ op.fifo \in Fifo /\ op.wait \in BOOLEAN /\ op.woken \in BOOLEAN
  /\ op.at \in 0 .. RamSize - 1 /\ op.hdr \in Frame
  /\ DOMAIN op.data = 1 .. Padded(op.hdr.len)
  /\ \A f \in Fifo :
       /\ tail[f] \in 0 .. Depth[f] - 1 /\ count[f] \in 0 .. Depth[f]
       /\ rxov[f] \in BOOLEAN
       /\ \A s \in 0 .. Depth[f] - 1 :
            elems[f][s].hdr \in Frame /\ elems[f][s].data \in [1 .. PlBytes[f] -> Byte]
       /\ stored[f] \subseteq Frame
  /\ arrived \in 0 .. MaxFrames /\ errs \in 0 .. MaxErrors

QueueIds(f) == {Queue(f)[k].n : k \in DOMAIN Queue(f)}

(* What the application is given for a frame: its own header and exactly   *)
(* its own bytes.                                                          *)
Delivery(fr) ==
  [hdr |-> fr, data |-> [i \in 1 .. Padded(fr.len) |->
                           IF fr.remote \/ i > fr.len THEN Zero ELSE <<fr.n, i>>]]

(* Unless CiFIFOUA reads back as another address the checks accept: a      *)
(* frame handed to the application is one that arrived for that FIFO, with *)
(* no byte of a previous occupant of the element, of a remote frame's      *)
(* empty payload slot, or of a frame that arrived between the reads of     *)
(* header and payload.                                                     *)
DeliveredExact == \A f \in Fifo : \A k \in DOMAIN got[f] :
  got[f][k].hdr \in stored[f] /\ got[f][k] = Delivery(got[f][k].hdr)

(* On the same premise, a FIFO together with receive is the bounded queue  *)
(* of RxChannel: frames are delivered exact, in the order they arrived and *)
(* once, even when a popping write failed and the call was made again; and *)
(* none is missing but those that found the FIFO full, those that          *)
(* reset_fifo discarded, and one for each call whose failed write took     *)
(* effect.                                                                 *)
FramesOf(f, n) == [n : {n}, remote : BOOLEAN, len : Lengths[f]]
Channel == INSTANCE RxChannel WITH
  Frames <- FramesOf, Lossy <- "late" \in Faults, failed <- errs,
  queue <- [f \in Fifo |-> Queue(f)], delivered <- got
ImplementsRxChannel == Channel!Spec

(* The bounds checks are exact.  Every read starts on a word and ends in   *)
(* the message RAM, whatever CiFIFOUA reads back and whatever the DLC read *)
(* there says; and a frame that fits its FIFO is never refused, not even   *)
(* in the last element of the RAM, where the refusal would block the FIFO  *)
(* for good.                                                               *)
BoundsExact ==
  /\ pc \in {"header", "data"} => op.at % WordBytes = 0 /\ op.at + HdrBytes <= RamSize
  /\ pc = "data" => op.at + HdrBytes + Padded(op.hdr.len) <= RamSize
  /\ pc = "status" /\ NotEmpty(op.fifo) => PlausibleUA(UserAddress(op.fifo))
  /\ pc = "header" /\ AtOldest /\ Oldest.hdr.len <= PlBytes[op.fifo]
        => EndsInRam(op.at, Oldest.hdr.len)

(* With its FIFO as the only enabled source, a wake-up of wait_rx finds a  *)
(* frame: the loop does not spin over SPI.                                 *)
NoSpin == pc = "status" /\ op.woken => NotEmpty(op.fifo)

(* wait_rx that has a frame in its FIFO comes back, with the frame or with *)
(* an error: the FIFO is checked before the wait and the pin is a level,   *)
(* so a frame that arrives in between is not slept on.                     *)
WaitReturns == \A f \in Fifo :
  (pc = "waiting" /\ op.fifo = f /\ NotEmpty(f)) ~> (pc = "idle")

(* Each stored frame leaves its FIFO in the end, delivered, replaced by    *)
(* what was read at a wrong address, or lost with an error, whatever       *)
(* failed before; unless the DLC of an element at the end  *)
(* of the RAM makes receive refuse it, which blocks the FIFO for good.     *)
Blocked(f) == NotEmpty(f) /\ ~EndsInRam(UserAddress(f), Queue(f)[1].len)
FrameLeaves == \A n \in 1 .. MaxFrames : \A f \in Fifo :
  n \in QueueIds(f) ~> (n \notin QueueIds(f) \/ Blocked(f))
=============================================================================
