------------------------------- MODULE TxPath -------------------------------
(***************************************************************************)
(* The transmit path of the driver: transmit, transmit_fd, transmit_batch  *)
(* and reset_fifo, at the grain of SPI transactions.  One transaction is   *)
(* atomic (chip-select is asserted once); between two of them the          *)
(* controller runs on its own: it fetches queued objects from its message  *)
(* RAM, sends them, and may be parked by a system error.  A transaction    *)
(* can fail, before or after it took effect at the controller; dropping    *)
(* the future of an async call in the middle of a transaction looks the    *)
(* same to the chip and is the same step here.                             *)
(*                                                                         *)
(* A message object is the sequence of 32-bit words the driver writes: two *)
(* header words, then the payload.  A word is <<n, i>>, the i-th word of   *)
(* the n-th object; <<0, 0>> is the zero fill of init.                     *)
(***************************************************************************)
EXTENDS Integers, Sequences

CONSTANTS
  Fifo,      \* the transmit FIFOs of the layout
  Depth,     \* Depth[f]: elements of FIFO f
  PlSize,    \* PlSize[f]: payload words an element of f reserves (PLSIZE)
  Base,      \* Base[f]: first RAM word of FIFO f
  RamWords,  \* words of message RAM (512 on the chip)
  Sizes,     \* Sizes[f]: payload words of the frames handed to f
  SeqMod,    \* seq_mask + 1
  SeqWrap,   \* wrap of the u32 sequence counter
  BatchCap,  \* transmit_batch looks at this many frames (u8::MAX)
  MaxBatch,  \* bound: longest batch handed over
  MaxCalls,  \* bound: objects the driver starts to write
  Faults,    \* how an SPI transaction may fail: {"lost", "late"}
  CorruptUA  \* byte offsets a corrupt CiFIFOUA read may return

Stride(f) == 2 + PlSize[f]

ASSUME LayoutAssumption ==
  /\ Fifo # {}
  /\ Depth \in [Fifo -> Nat \ {0}]
  /\ PlSize \in [Fifo -> Nat]
  /\ Base \in [Fifo -> Nat]
  /\ RamWords \in Nat
  /\ \A f \in Fifo : Base[f] + Depth[f] * Stride(f) <= RamWords
  /\ \A f, g \in Fifo : f # g =>
        \/ Base[f] + Depth[f] * Stride(f) <= Base[g]
        \/ Base[g] + Depth[g] * Stride(g) <= Base[f]

ASSUME BoundsAssumption ==
  /\ Sizes \in [Fifo -> SUBSET Nat]
  /\ SeqMod \in Nat \ {0} /\ SeqWrap \in Nat \ {0} /\ SeqWrap % SeqMod = 0
  /\ BatchCap \in Nat /\ MaxBatch \in Nat /\ MaxCalls \in Nat
  /\ Faults \subseteq {"lost", "late"}
  /\ CorruptUA \subseteq Nat

(* The rule of the transmit docs: a frame fits the PLSIZE of its FIFO. *)
FramesFit == \A f \in Fifo : \A w \in Sizes[f] : w <= PlSize[f]

(* A corrupt CiFIFOUA read shows: it is unaligned, or leaves no room for   *)
(* the header of an object.                                                *)
CorruptShows == \A ua \in CorruptUA : ua % 4 # 0 \/ ua + 8 > 4 * RamWords

VARIABLES
  pc, op, seq,               \* the driver: where it is, its locals, its counter
  ram, tail, count, txreq,   \* the chip: message RAM and FIFO registers
  running,                   \* the chip is in a mode that transmits
  calls, ret, wire, gone     \* history: objects, last result, bus, FRESETs

driverVars == <<pc, op, seq>>
chipVars   == <<ram, tail, count, txreq, running>>
history    == <<calls, ret, wire, gone>>
vars       == <<driverVars, chipVars, history>>

Word   == Nat \X Nat
Object(n, w) == [i \in 1 .. 2 + w |-> <<n, i>>]

-----------------------------------------------------------------------------
(* The controller's FIFO registers, as the driver sees them. *)

(* Ring index of the k-th element from the tail, k = 0 .. Depth[f]. *)
Slot(f, k) == IF tail[f] + k >= Depth[f] THEN tail[f] + k - Depth[f]
                                         ELSE tail[f] + k

ElemAddr(f, k) == Base[f] + Slot(f, k) * Stride(f)

NotFullOffByOne(f) == count[f] <= Depth[f]     \* mutant
NotFull(f) == count[f] < Depth[f]              \* CiFIFOSTA.TFNRFNIF
UserAddress(f) == 4 * ElemAddr(f, count[f])    \* CiFIFOUA, a byte offset

(* What the chip fetches at RAM word a: as many words as T1's DLC says.    *)
(* (Past the end of RAM, where only an oversized frame leads: anything.)   *)
Fetched(a) ==
  LET n == ram[a + 1][1]
      w == IF n \in DOMAIN calls THEN calls[n].words ELSE 0
  IN  [i \in 1 .. 2 + w |-> IF a + i - 1 < RamWords THEN ram[a + i - 1] ELSE <<0, 0>>]

(* The objects of f the chip has still to send, oldest first. *)
Queue(f) == [k \in 1 .. count[f] |-> Fetched(ElemAddr(f, k - 1))]

-----------------------------------------------------------------------------
NoOp == [fifo |-> CHOOSE f \in Fifo : TRUE, rest |-> <<>>, batch |-> FALSE,
         acc |-> 0, first |-> 0, at |-> 0]

Init ==
  /\ pc = "idle" /\ op = NoOp /\ seq = 0
  /\ ram = [a \in 0 .. RamWords - 1 |-> <<0, 0>>]
  /\ tail = [f \in Fifo |-> 0] /\ count = [f \in Fifo |-> 0]
  /\ txreq = [f \in Fifo |-> FALSE] /\ running = TRUE
  /\ calls = <<>> /\ wire = [f \in Fifo |-> <<>>] /\ gone = {}
  /\ ret = [res |-> "none", acc |-> 0, first |-> 0, last |-> 0]

Return(res, acc) ==
  /\ pc' = "idle" /\ op' = NoOp
  /\ ret' = [res |-> res, acc |-> acc, first |-> op.first, last |-> Len(calls)]

(* transmit, transmit_fd: one frame of w payload words. *)
Transmit(f, w) ==
  /\ pc = "idle" /\ Len(calls) < MaxCalls
  /\ pc' = "status"
  /\ op' = [NoOp EXCEPT !.fifo = f, !.rest = <<w>>, !.first = Len(calls)]
  /\ UNCHANGED <<seq, chipVars, history>>

(* transmit_batch: the frames ws, of which the first BatchCap are looked at. *)
TransmitBatch(f, ws) ==
  /\ pc = "idle" /\ Len(calls) + Len(ws) <= MaxCalls
  /\ pc' = "status"
  /\ op' = [NoOp EXCEPT !.fifo = f, !.batch = TRUE, !.first = Len(calls),
              !.rest = SubSeq(ws, 1, IF Len(ws) < BatchCap THEN Len(ws) ELSE BatchCap)]
  /\ UNCHANGED <<seq, chipVars, history>>

(* The loop of transmit_batch has run through its frames. *)
BatchDone ==
  /\ pc = "status" /\ op.rest = <<>>
  /\ Return("ok", op.acc)
  /\ UNCHANGED <<seq, chipVars, calls, wire, gone>>

AtStatus == pc = "status" /\ op.rest # <<>>

(* The 8-byte read of CiFIFOSTA and CiFIFOUA fails. *)
StatusFails ==
  /\ AtStatus /\ Faults # {}
  /\ Return("spi", op.acc)
  /\ UNCHANGED <<seq, chipVars, calls, wire, gone>>

(* No free slot: an error from transmit, the accepted count from a batch. *)
StatusFull ==
  /\ AtStatus /\ ~NotFull(op.fifo)
  /\ Return(IF op.batch THEN "ok" ELSE "full", op.acc)
  /\ UNCHANGED <<seq, chipVars, calls, wire, gone>>

(* The bounds checks on UA, for an object of len words. *)
PlausibleStrict(ua, len) ==                    \* mutant
  ua < 4 * RamWords /\ ua % 4 = 0 /\ ua + 4 * len < 4 * RamWords
PlausibleStart(ua, len) == ua < 4 * RamWords /\ ua % 4 = 0    \* mutant
Plausible(ua, len) == ua < 4 * RamWords /\ ua % 4 = 0 /\ ua + 4 * len <= 4 * RamWords

StatusRefused ==
  /\ AtStatus /\ NotFull(op.fifo)
  /\ \E ua \in {UserAddress(op.fifo)} \cup CorruptUA :
        ~Plausible(ua, 2 + Head(op.rest))
  /\ Return("comm", op.acc)
  /\ UNCHANGED <<seq, chipVars, calls, wire, gone>>

(* wrapping_add on the u32 counter. *)
NextSeqSaturating == IF seq + 1 = SeqWrap THEN seq ELSE seq + 1    \* mutant
NextSeq == (seq + 1) % SeqWrap

(* The sequence number is consumed before anything is written. *)
StatusOk ==
  /\ AtStatus /\ NotFull(op.fifo)
  /\ \E ua \in {UserAddress(op.fifo)} \cup CorruptUA :
        /\ Plausible(ua, 2 + Head(op.rest))
        /\ op' = [op EXCEPT !.at = ua \div 4]
  /\ calls' = Append(calls, [fifo |-> op.fifo, words |-> Head(op.rest),
                             seq |-> seq % SeqMod, ok |-> FALSE])
  /\ seq' = NextSeq
  /\ pc' = "ram"
  /\ UNCHANGED <<chipVars, ret, wire, gone>>

(* The object being written, and RAM once its first j words are there. *)
This == Len(calls)
ThisLen == 2 + calls[This].words
WrittenPadded(j) == [a \in DOMAIN ram |->       \* mutant: one word of padding too many
                 IF a \in op.at .. op.at + j THEN <<This, a - op.at + 1>>
                                             ELSE ram[a]]
Written(j) == [a \in DOMAIN ram |->
                 IF a \in op.at .. op.at + j - 1 THEN <<This, a - op.at + 1>>
                                                 ELSE ram[a]]

WriteRam ==
  /\ pc = "ram"
  /\ ram' = Written(ThisLen) /\ pc' = "uinc"
  /\ UNCHANGED <<op, seq, tail, count, txreq, running, history>>

(* The burst breaks off; the chip has stored some words, or all of them. *)
WriteRamFails ==
  /\ pc = "ram" /\ Faults # {}
  /\ \E j \in IF "late" \in Faults THEN 0 .. ThisLen ELSE {0} : ram' = Written(j)
  /\ Return("spi", op.acc)
  /\ UNCHANGED <<seq, tail, count, txreq, running, calls, wire, gone>>

(* The chip takes UINC | TXREQ: one write hands the slot over and asks for *)
(* the FIFO to be sent.                                                    *)
HandOverUincOnly(f) == count' = [count EXCEPT ![f] = @ + 1] /\ UNCHANGED txreq  \* mutant
HandOver(f) ==
  /\ count' = [count EXCEPT ![f] = @ + 1]
  /\ txreq' = [txreq EXCEPT ![f] = TRUE]

NextFrame ==
  /\ calls' = [calls EXCEPT ![This].ok = TRUE]
  /\ IF op.batch
     THEN /\ op' = [op EXCEPT !.rest = Tail(@), !.acc = @ + 1]
          /\ pc' = "status" /\ UNCHANGED ret
     ELSE Return("ok", 1)

WriteUinc ==
  /\ pc = "uinc"
  /\ HandOver(op.fifo)
  /\ NextFrame
  /\ UNCHANGED <<seq, ram, tail, running, wire, gone>>

(* mutant: the error of the last transaction is swallowed *)
UincLostIgnored ==
  /\ pc = "uinc" /\ "lost" \in Faults
  /\ NextFrame
  /\ UNCHANGED <<seq, chipVars, wire, gone>>

UincLost ==
  /\ pc = "uinc" /\ "lost" \in Faults
  /\ Return("spi", op.acc)
  /\ UNCHANGED <<seq, chipVars, calls, wire, gone>>

(* mutants: UINC is retried as if it were idempotent; a batch takes the    *)
(* failure for a full FIFO                                                 *)
UincLateRetried ==
  /\ pc = "uinc" /\ "late" \in Faults /\ NotFull(op.fifo)
  /\ HandOver(op.fifo)
  /\ UNCHANGED <<driverVars, ram, tail, running, history>>
UincLateAsFull ==
  /\ pc = "uinc" /\ "late" \in Faults
  /\ HandOver(op.fifo)
  /\ Return(IF op.batch THEN "ok" ELSE "spi", op.acc)
  /\ UNCHANGED <<seq, ram, tail, running, calls, wire, gone>>

UincLate ==
  /\ pc = "uinc" /\ "late" \in Faults
  /\ HandOver(op.fifo)
  /\ Return("spi", op.acc)
  /\ UNCHANGED <<seq, ram, tail, running, calls, wire, gone>>

(* The first words of the objects in s name the calls that wrote them. *)
Ids(s) == {s[k][1][1] : k \in DOMAIN s}

(* reset_fifo: FRESET written to byte 1 of CiFIFOCON, which also clears    *)
(* TXREQ.  The result of this one-transaction call is not recorded.        *)
ResetFifo(f) ==
  /\ pc = "idle"
  /\ tail' = [tail EXCEPT ![f] = 0] /\ count' = [count EXCEPT ![f] = 0]
  /\ txreq' = [txreq EXCEPT ![f] = FALSE]
  /\ gone' = gone \cup Ids(Queue(f))
  /\ UNCHANGED <<driverVars, ram, running, calls, ret, wire>>

-----------------------------------------------------------------------------
(* The controller's own steps. *)

ChipSend(f) ==
  /\ running /\ txreq[f] /\ count[f] > 0
  /\ wire' = [wire EXCEPT ![f] = Append(@, Fetched(ElemAddr(f, 0)))]
  /\ tail' = [tail EXCEPT ![f] = Slot(f, 1)]
  /\ count' = [count EXCEPT ![f] = @ - 1]
  /\ txreq' = [txreq EXCEPT ![f] = count[f] > 1]
  /\ UNCHANGED <<driverVars, ram, running, calls, ret, gone>>

(* A system error parks the chip in a mode that ignores TXREQ; the         *)
(* application's recovery (module ModeControl) puts it back.               *)
ChipPark   == running  /\ running' = FALSE
ChipResume == ~running /\ running' = TRUE
ChipMode ==
  /\ ChipPark \/ ChipResume
  /\ UNCHANGED <<driverVars, ram, tail, count, txreq, history>>

-----------------------------------------------------------------------------
Batches(f) == UNION {[1 .. n -> Sizes[f]] : n \in 0 .. MaxBatch}

Application == \E f \in Fifo :
  \/ \E w \in Sizes[f] : Transmit(f, w)
  \/ \E ws \in Batches(f) : TransmitBatch(f, ws)
  \/ ResetFifo(f)

(* The steps of a driver call that has been made. *)
Driver ==
  \/ BatchDone
  \/ StatusFails \/ StatusFull \/ StatusRefused \/ StatusOk
  \/ WriteRam \/ WriteRamFails
  \/ WriteUinc \/ UincLost \/ UincLate

Chip == ChipMode \/ \E f \in Fifo : ChipSend(f)

Next == Application \/ Driver \/ Chip

Spec == Init /\ [][Next]_vars

(* The chip sends what it is asked to send; a call that is polled ends. *)
FairSpec == Spec /\ WF_vars(Driver) /\ \A f \in Fifo : WF_vars(ChipSend(f))

-----------------------------------------------------------------------------
OpType == [fifo : Fifo, rest : Seq(Nat), batch : BOOLEAN,
           acc : Nat, first : Nat, at : Nat]
CallType == [fifo : Fifo, words : Nat, seq : 0 .. SeqMod - 1, ok : BOOLEAN]

TypeOK ==
  /\ pc \in {"idle", "status", "ram", "uinc"}
  /\ op \in OpType
  /\ seq \in 0 .. SeqWrap - 1
  /\ ram \in [0 .. RamWords - 1 -> Word]
  /\ tail \in [Fifo -> Nat] /\ \A f \in Fifo : tail[f] < Depth[f]
  /\ count \in [Fifo -> Nat] /\ \A f \in Fifo : count[f] <= Depth[f]
  /\ txreq \in [Fifo -> BOOLEAN] /\ running \in BOOLEAN
  /\ calls \in Seq(CallType)
  /\ ret \in [res : {"none", "ok", "full", "comm", "spi"},
              acc : Nat, first : Nat, last : Nat]
  /\ wire \in [Fifo -> Seq(Seq(Word))]
  /\ gone \subseteq Nat

Intact(o) == o[1][1] \in DOMAIN calls /\ o = Object(o[1][1], calls[o[1][1]].words)

(* Everything the chip has been handed on f, in the order it was handed. *)
History(f) == wire[f] \o Queue(f)

(* No message object of a frame that was handed over is ever changed       *)
(* before the chip has sent it, whatever call is half-way through: what is *)
(* queued, and what goes out, are whole objects of frames for that FIFO    *)
(* (transmit_raw writes only the slot CiFIFOUA names, and only if it is    *)
(* free).                                                                  *)
ObjectsIntact == \A f \in Fifo : \A k \in DOMAIN History(f) :
  Intact(History(f)[k]) /\ calls[History(f)[k][1][1]].fifo = f

(* A frame the driver reported Ok for is on the bus, still queued, or was  *)
(* discarded by a reset_fifo: never silently overwritten.                  *)
OkNotLost == \A n \in DOMAIN calls :
  calls[n].ok => n \in Ids(History(calls[n].fifo)) \cup gone

(* The accepted-count contract of transmit_batch: Ok(n) means that exactly *)
(* the first n frames of the call were handed over; TxFifoFull that none   *)
(* was.                                                                    *)
BatchPrefix ==
  LET handed == (UNION {Ids(History(f)) : f \in Fifo}) \cup gone
      mine == {n \in handed : n > ret.first /\ n <= ret.last}
  IN  /\ ret.res = "ok" => mine = ret.first + 1 .. ret.first + ret.acc
      /\ ret.res = "full" => mine = {}

(* No two objects out of SeqMod consecutive ones carry the same number,    *)
(* also across calls that failed and across the wrap of the u32 counter:   *)
(* the number is consumed before the write that may fail late.             *)
SeqDistinct == \A m, n \in DOMAIN calls :
  m < n /\ n - m < SeqMod => calls[m].seq # calls[n].seq

(* The RAM burst never leaves the message RAM, even if CiFIFOUA read back  *)
(* garbage or the frame is longer than PLSIZE.                             *)
WriteInRam == pc = "ram" => op.at + ThisLen <= RamWords

(* A fitting frame always has a slot it may be written to: the bounds      *)
(* checks do not refuse the last element of the RAM.                       *)
LastSlotUsable == AtStatus /\ NotFull(op.fifo) =>
  Plausible(UserAddress(op.fifo), 2 + Head(op.rest))

(* The slot the driver was given stays the head slot, and free, until the  *)
(* hand-over: the check made in the first transaction is still good in the *)
(* third, because only the driver moves the head.                          *)
SlotStillMine == pc \in {"ram", "uinc"} =>
  /\ NotFull(op.fifo)
  /\ op.at = ElemAddr(op.fifo, count[op.fifo])

(* A step may only change RAM words outside the queued objects. *)
QueuedUntouched == [][
  \A f \in Fifo : \A k \in 0 .. count[f] - 1 :
     \A i \in 0 .. Stride(f) - 1 :
        ram'[ElemAddr(f, k) + i] = ram[ElemAddr(f, k) + i]]_vars

(* If the chip is eventually left running, every frame handed over is sent *)
(* or discarded by a reset: nothing the driver does in between, failed     *)
(* calls included, wedges a FIFO.  UINC and TXREQ land together, so the    *)
(* chip's clearing of TXREQ when the FIFO drains strands no frame that was *)
(* being written meanwhile.                                                *)
SentEventually == (<>[]running) =>
  \A n \in 1 .. MaxCalls :
     (n \in DOMAIN calls /\ calls[n].ok)
       ~> (n \in gone \/ \E f \in Fifo : n \in Ids(wire[f]))

(* The transmit path implements the abstract queue: each UINC that reaches *)
(* the chip enqueues the frame offered last, whole and once; no other step *)
(* of the driver, failed or not, changes what the chip holds.              *)
Channel == INSTANCE TxChannel WITH
  Frame <- Object, offered <- Len(calls),
  queue <- [f \in Fifo |-> Queue(f)], sent <- wire
ImplementsChannel == Channel!Spec
=============================================================================
