----------------------------- MODULE RamLayout -----------------------------
(***************************************************************************)
(* The message-RAM planner FifoLayout, apply_layout writing a layout's     *)
(* CiFIFOCON words, and the address generation of the controller that      *)
(* reads them.  Sizes are bytes and every number is the one of the code.   *)
(* A layout may be applied to a controller that already holds another one. *)
(***************************************************************************)
EXTENDS Registers, Sequences

CONSTANTS
  FifoNos,   \* the FIFO numbers used, out of 1 .. 31
  Entries    \* the entries tried

Directions == {"Transmit", "Receive"}
Entry(direction, payload, depth) ==
  [direction |-> direction, payload |-> payload, depth |-> depth]
NoEntry == Entry("none", 0, 0)

ASSUME LayoutInputs ==
  /\ FifoNos \subseteq 1 .. 31
  /\ \A e \in Entries : \E direction \in Directions, i \in DOMAIN PayloadBytes, depth \in 0 .. 255 :
        e = Entry(direction, PayloadBytes[i], depth)

VARIABLES
  entries, total,   \* the layout
  res, asked,       \* the last call's result, and the bytes it asked for
  con, filled       \* the chip: CiFIFOCON by address; FIFOs that hold elements
vars == <<entries, total, res, asked, con, filled>>
planner == <<entries, total, asked>>
chip == <<con, filled>>

Bytes(e) == (8 + e.payload) * e.depth

(* A FIFO that is not configured reads 0 and holds one small element; what *)
(* RAM that takes is not defined, so none is counted for it.               *)
Unconfigured == [a \in {fifo_con(f) : f \in FifoNos} |-> {}]
new == [f \in FifoNos |-> NoEntry]

Init ==
  /\ entries = new /\ total = 0 /\ res = "new" /\ asked = 0
  /\ con = Unconfigured /\ filled = {}

-----------------------------------------------------------------------------
(* FifoLayout *)

New ==
  /\ entries' = new /\ total' = 0 /\ res' = "new" /\ asked' = 0
  /\ UNCHANGED chip

(* try_add consumes the layout and gives back a new one or the reason. *)
OverflowsNever(e) == total > RAM_SIZE               \* mutant
OverflowsEarly(e) == total + Bytes(e) >= RAM_SIZE   \* mutant
Overflows(e) == total + Bytes(e) > RAM_SIZE
Free(f) == entries[f] = NoEntry
Refuse(reason) == res' = reason /\ UNCHANGED <<entries, total>>

TryAdd(f, e) ==
  /\ asked' = Bytes(e)
  /\ \/ /\ e.depth < 1 \/ e.depth > 32
        /\ Refuse("BadDepth")
     \/ /\ e.depth \in 1 .. 32 /\ ~Free(f)
        /\ Refuse("AlreadyConfigured")
     \/ /\ e.depth \in 1 .. 32 /\ Free(f)
        /\ Overflows(e)
        /\ Refuse("RamOverflow")
     \/ /\ e.depth \in 1 .. 32 /\ Free(f)
        /\ ~Overflows(e)
        /\ entries' = [entries EXCEPT ![f] = e] /\ total' = total + Bytes(e)
        /\ res' = "Added"
  /\ UNCHANGED chip

-----------------------------------------------------------------------------
(* apply_layout, in Configuration mode *)

Configured == {f \in FifoNos : entries[f] # NoEntry}

DepthUnbiased(word, depth) == WithField(word, 24, 5, depth)       \* mutant
Depth(word, depth) == with_fifo_size(word, depth)

FifoConNoReset(e) ==                                              \* mutant
  LET reg == with_payload_size(Depth({}, e.depth), e.payload)
  IN  IF e.direction = "Transmit" THEN With(reg, TXEN, TRUE)
                                  ELSE With(With(reg, TFNRFNIE, TRUE), RXOVIE, TRUE)

FifoCon(e) ==
  LET reg == With(with_payload_size(Depth({}, e.depth), e.payload), FRESET, TRUE)
  IN  IF e.direction = "Transmit" THEN With(reg, TXEN, TRUE)
                                  ELSE With(With(reg, TFNRFNIE, TRUE), RXOVIE, TRUE)

(* The chip takes the writes for these FIFOs; FRESET empties a FIFO and    *)
(* reads back as 0.                                                        *)
Take(fs) ==
  LET word(f) == FifoCon(entries[f])
      f(a) == CHOOSE g \in FifoNos : fifo_con(g) = a
  IN  /\ con' = [a \in DOMAIN con |-> IF f(a) \in fs THEN word(f(a)) \ {10} ELSE con[a]]
      /\ filled' = filled \ {g \in fs : 10 \in word(g)}

(* In the order of their numbers; a transaction that fails ends the call,  *)
(* whether the chip took it or not.                                        *)
ApplyLayout ==
  /\ Configured # {} /\ Take(Configured)
  /\ res' = "Ok" /\ UNCHANGED planner

ApplyFails ==
  /\ \E g \in Configured : \/ Take({f \in Configured : f < g})
                           \/ Take({f \in Configured : f <= g})
  /\ res' = "Spi" /\ UNCHANGED planner

-----------------------------------------------------------------------------
(* What the controller makes of a word (TXEN, PLSIZE, FSIZE), and where it *)
(* puts the elements of the FIFOs: one after the other, by their numbers.  *)
Decoded(word) == Entry(IF 7 \in word THEN "Transmit" ELSE "Receive",
                       PayloadBytes[Field(word, 29, 3) + 1], Field(word, 24, 5) + 1)
Word(f)      == con[92 + 12 * (f - 1)]
ChipEntry(f) == Decoded(Word(f))
InUse        == {f \in FifoNos : Word(f) # {}}
ChipBytes(f) == ChipEntry(f).depth * (8 + ChipEntry(f).payload)
ChipBase(f)  == SumFunctionOnSet([g \in FifoNos |-> ChipBytes(g)], {g \in InUse : g < f})

(* Every entry that try_add accepts is read back from its word.            *)
ASSUME WordsReadBack ==
  \A direction \in Directions, i \in DOMAIN PayloadBytes, depth \in 1 .. 32 :
    LET e == Entry(direction, PayloadBytes[i], depth)
    IN  Decoded(FifoCon(e) \ {10}) = e

(* Elements arrive, or are queued, in the FIFOs. *)
Fill == InUse # {} /\ filled' = InUse /\ res' = "none" /\ UNCHANGED <<planner, con>>

(* RESET in Configuration mode; in another mode it may be ignored, and     *)
(* all stays as it is.                                                     *)
Reset == con' = Unconfigured /\ filled' = {}
         /\ res' = "none" /\ UNCHANGED planner

Next ==
  \/ New \/ ApplyLayout \/ ApplyFails \/ Fill \/ Reset
  \/ \E f \in FifoNos, e \in Entries : TryAdd(f, e)

Spec == Init /\ [][Next]_vars

-----------------------------------------------------------------------------
(* Allocated from F1 upwards, as FifoLayout asks. *)
Contiguous == \A f \in Configured : \A g \in FifoNos : g < f => g \in Configured

(* When apply_layout returned Ok and the layout names every FIFO that an   *)
(* earlier layout left configured, the layout fits the chip as the chip    *)
(* lays it out: each FIFO starts on a word, behind the ones before it, and *)
(* ends in the message RAM.  (With a FIFO left over it need not: the doc   *)
(* of apply_layout asks for a fresh chip.)                                 *)
ElementsFit == res = "Ok" /\ Contiguous /\ InUse = Configured =>
  \A f \in Configured :
    LET end == ChipBase(f) + entries[f].depth * (8 + entries[f].payload) IN
    /\ ChipBase(f) % 4 = 0 /\ end <= RAM_SIZE
    /\ \A g \in Configured : g > f => end <= ChipBase(g)

(* apply_layout that returns Ok, whatever it finds on the chip and even    *)
(* after one that failed half-way: each FIFO of the layout is configured   *)
(* as planned and holds nothing of an earlier layout, and the other FIFOs  *)
(* are as they were.                                                       *)
LayoutInForce == [][res' = "Ok" =>
  /\ \A f \in Configured : ChipEntry(f)' = entries[f]
  /\ filled' = filled \ Configured
  /\ \A f \in FifoNos \ Configured : Word(f)' = Word(f)]_vars

(* The RAM is usable to the last byte, after any sequence of accepted and  *)
(* refused additions: what was refused for lack of RAM would not have      *)
(* fitted behind the elements of the layout, were it on the chip.          *)
Planned == SumFunctionOnSet([f \in FifoNos |-> (8 + entries[f].payload) * entries[f].depth], Configured)
RefusedNeverFit == res = "RamOverflow" => asked > RAM_SIZE - Planned
=============================================================================
