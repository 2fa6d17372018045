----------------------------- MODULE FrameCodec -----------------------------
(***************************************************************************)
(* What becomes of a frame on its way through the driver: the constructors *)
(* of Frame and FdFrame, the TX message object transmit and transmit_fd    *)
(* build, the RX object the controller makes of it, the acceptance filter  *)
(* that sees it, and the frame receive hands out.  A register or header    *)
(* word is the set of its 1 bits, and so is an identifier.                 *)
(***************************************************************************)
EXTENDS Integers, FiniteSets, FiniteSetsExt

CONSTANTS
  Ids,       \* identifiers: [ext, bits], 11 or 29 bits
  DataLens,  \* lengths of the data handed to the constructors
  Seqs,      \* masked sequence numbers, as bits (up to 23)
  Masks,     \* natural masks handed to FilterMatch::with_mask
  FilterIds  \* identifiers the filters are built from

ASSUME CodecInputs ==
  /\ \A id \in Ids \cup FilterIds :
        id \in [ext : BOOLEAN, bits : SUBSET (0 .. 28)] /\ (~id.ext => id.bits \subseteq 0 .. 10)
  /\ DataLens \subseteq Nat
  /\ \A s \in Seqs : s \subseteq 0 .. 22
  /\ \A m \in Masks : m \subseteq 0 .. 31

VARIABLES
  stage,   \* "new", "rejected", "made", "object", "bus", "received", "dropped"
  asked,   \* what the application asked the constructor for
  frame,   \* the frame it got
  seq, filter, obj, rx, got
vars == <<stage, asked, frame, seq, filter, obj, rx, got>>

None == [none |-> TRUE]

-----------------------------------------------------------------------------
(* Words. *)

WordBits == 0 .. 31
Shl(s, k) == {b + k : b \in s} \cap WordBits
Shr(s, k) == {b - k : b \in {c \in s : c >= k}}
Bits(n) == {i \in 0 .. 7 : (n \div 2^i) % 2 = 1}
Value(s) == MapThenSumSet(LAMBDA b : 2^b, s)
Flag(b, bit) == IF b THEN {bit} ELSE {}

(* DLC codes and lengths. *)

FdLens == <<12, 16, 20, 24, 32, 48, 64>>      \* DLC 9 .. 15

dlc_to_lenUncapped(dlc, fdf) ==                     \* mutant
  IF dlc <= 8 THEN dlc ELSE FdLens[dlc - 8]
dlc_to_len(dlc, fdf) == IF dlc <= 8 THEN dlc ELSE IF fdf THEN FdLens[dlc - 8] ELSE 8

(* The DLC of an exact length, or none: a table of its own. *)
len_to_dlcSlip(len, fdf) ==                         \* mutant: 48 under the code of 32
  IF len <= 8 THEN {len} ELSE {dlc \in 9 .. 15 : fdf /\ FdLens[dlc - 8] = IF len = 48 THEN 32 ELSE len}
len_to_dlc(len, fdf) ==
  CASE len \in 0 .. 8 -> {len}
    [] len = 12 /\ fdf -> {9}     [] len = 16 /\ fdf -> {10}
    [] len = 20 /\ fdf -> {11}    [] len = 24 /\ fdf -> {12}
    [] len = 32 /\ fdf -> {13}    [] len = 48 /\ fdf -> {14}
    [] len = 64 /\ fdf -> {15}    [] OTHER -> {}

(* The next length there is, or none above 64: the third table. *)
padded_dlc_len(len) ==
  CASE len \in 0 .. 8   -> {len}
    [] len \in 9 .. 12  -> {12}   [] len \in 13 .. 16 -> {16}
    [] len \in 17 .. 20 -> {20}   [] len \in 21 .. 24 -> {24}
    [] len \in 25 .. 32 -> {32}   [] len \in 33 .. 48 -> {48}
    [] len \in 49 .. 64 -> {64}   [] OTHER -> {}

(* Identifiers. *)

pack_id(id) == IF id.ext THEN (Shr(id.bits, 18) \cap 0 .. 10)
                              \cup Shl(id.bits \cap 0 .. 17, 11)
                         ELSE id.bits

unpack_idNatural(word, ext) == [ext |-> ext, bits |-> word \cap 0 .. 28]   \* mutant
unpack_id(word, ext) ==
  [ext |-> ext,
   bits |-> IF ext THEN Shl(word \cap 0 .. 10, 18) \cup (Shr(word, 11) \cap 0 .. 17)
                   ELSE word \cap 0 .. 10]

(* Message object headers. *)

DlcBits(d) == Bits(d) \cap 0 .. 3

(* Every DLC code fits its four bits, and is read back from them.          *)
ASSUME DlcCodesSurvive == \A d \in 0 .. 15 : Bits(d) \subseteq 0 .. 3 /\ Value(Bits(d)) = d

TxWords(h) ==
  <<pack_id(h.id),
    DlcBits(h.dlc) \cup Flag(h.id.ext, 4) \cup Flag(h.rtr, 5)
      \cup Flag(h.brs, 6) \cup Flag(h.fdf, 7) \cup Flag(h.esi, 8) \cup Shl(h.seq, 9)>>

RxHeader(r) ==
  [id |-> unpack_id(r[1], 4 \in r[2]), dlc |-> Value(r[2] \cap 0 .. 3),
   rtr |-> 5 \in r[2], brs |-> 6 \in r[2], fdf |-> 7 \in r[2], esi |-> 8 \in r[2],
   filhit |-> Value(Shr(r[2], 11) \cap 0 .. 4)]

(* Filters. *)

IdeBit == {30}
Ide(id) == IF id.ext THEN IdeBit ELSE {}
Exact(id) ==
  [kind |-> "exact", id |-> id, natural |-> {},
   fltobj |-> pack_id(id) \cup Ide(id),
   mask |-> (IF id.ext THEN 0 .. 28 ELSE 0 .. 10) \cup IdeBit]
AcceptAll(id) == [kind |-> "all", id |-> id, natural |-> {}, fltobj |-> {}, mask |-> {}]
WithMaskNatural(id, m) ==                           \* mutant
  [kind |-> "mask", id |-> id, natural |-> m, fltobj |-> pack_id(id) \cup Ide(id),
   mask |-> (m \cap IF id.ext THEN 0 .. 28 ELSE 0 .. 10) \cup IdeBit]
WithMask(id, m) ==
  [kind |-> "mask", id |-> id, natural |-> m,
   fltobj |-> pack_id(id) \cup Ide(id),
   mask |-> (IF id.ext THEN (Shr(m, 18) \cap 0 .. 10) \cup Shl(m \cap 0 .. 17, 11)
                       ELSE m \cap 0 .. 10) \cup IdeBit]

(* The chip: (frame_id ^ fltobj) & mask == 0. *)
Matches(r, f) ==
  LET word == (r[1] \cap 0 .. 28) \cup Flag(4 \in r[2], 30)
  IN  ((word \ f.fltobj) \cup (f.fltobj \ word)) \cap f.mask = {}

-----------------------------------------------------------------------------
Filters == {Exact(id) : id \in FilterIds} \cup {AcceptAll(CHOOSE id \in FilterIds : TRUE)}
           \cup {WithMask(id, m) : id \in FilterIds, m \in Masks}

Init ==
  /\ stage = "new" /\ asked = None /\ frame = None /\ obj = None /\ rx = None
  /\ got = None
  /\ seq \in Seqs /\ filter \in Filters

Made(a, fr) ==
  /\ asked' = a
  /\ \/ fr = None /\ stage' = "rejected" /\ UNCHANGED frame
     \/ fr # None /\ stage' = "made" /\ frame' = fr
  /\ UNCHANGED <<seq, filter, obj, rx, got>>

(* Frame::new and new_remote *)
NewClassic(id, len, rtr) ==
  stage = "new" /\ Made([ctor |-> "classic", len |-> len],
                        IF len > 8 THEN None
                        ELSE [id |-> id, fdf |-> FALSE, rtr |-> rtr, len |-> len, brs |-> FALSE])

(* FdFrame::new and new_padded *)
NewFd(id, len, brs) ==
  stage = "new" /\ Made([ctor |-> "fd", len |-> len],
                        IF len_to_dlc(len, TRUE) = {} THEN None
                        ELSE [id |-> id, fdf |-> TRUE, rtr |-> FALSE, len |-> len,
                              brs |-> brs])

NewPadded(id, len, brs) ==
  stage = "new" /\ Made([ctor |-> "padded", len |-> len],
                        IF padded_dlc_len(len) = {} THEN None
                        ELSE [id |-> id, fdf |-> TRUE, rtr |-> FALSE, brs |-> brs,
                              len |-> CHOOSE l \in padded_dlc_len(len) : TRUE])

(* transmit and transmit_fd, up to the words written to RAM; a remote      *)
(* frame has a DLC but no payload words.                                   *)
Transmit ==
  /\ stage = "made" /\ stage' = "object"
  /\ \E dlc \in IF frame.fdf THEN len_to_dlc(frame.len, TRUE) ELSE {frame.len},
        esi \in IF frame.fdf THEN BOOLEAN ELSE {FALSE} :
       obj' = [words |-> TxWords([id |-> frame.id, dlc |-> dlc, rtr |-> frame.rtr,
                                  brs |-> frame.brs, fdf |-> frame.fdf, esi |-> esi,
                                  seq |-> seq]),
               payload |-> IF frame.rtr THEN 0 ELSE ((frame.len + 3) \div 4) * 4]
  /\ UNCHANGED <<asked, frame, seq, filter, rx, got>>

(* The controller sends the object and receives it (internal loopback), as *)
(* another node's controller would: IDs, DLC and flags are copied; bits 15 *)
(* to 11 hold the filter's number and 10 and 9 nothing.  The ESI bit is    *)
(* the sender's own error state, not T1.ESI.                               *)
OnBus ==
  /\ stage = "object" /\ stage' = "bus"
  /\ \E filhit \in {0, 31} :
       rx' = <<obj.words[1] \cap 0 .. 28,
               (obj.words[2] \cap 0 .. 7) \cup Shl(Bits(filhit), 11)>>
  /\ UNCHANGED <<asked, frame, seq, filter, obj, got>>

(* A node that sends any DLC code with any flags. *)
Foreign(id, dlc, rtr, fdf, esi) ==
  /\ stage = "new" /\ stage' = "bus" /\ asked' = [ctor |-> "foreign", len |-> dlc]
  /\ rx' = <<pack_id(id), Bits(dlc) \cup Flag(id.ext, 4) \cup Flag(rtr /\ ~fdf, 5)
                            \cup Flag(fdf, 7) \cup Flag(esi, 8)>>
  /\ UNCHANGED <<frame, seq, filter, obj, got>>

FilterDrops ==
  /\ stage = "bus" /\ ~Matches(rx, filter)
  /\ stage' = "dropped" /\ UNCHANGED <<asked, frame, seq, filter, obj, rx, got>>

(* receive *)
Receive ==
  /\ stage = "bus" /\ Matches(rx, filter)
  /\ LET h == RxHeader(rx) IN
       got' = [id |-> h.id, fdf |-> h.fdf, rtr |-> h.rtr /\ ~h.fdf, brs |-> h.brs,
               len |-> dlc_to_len(h.dlc, h.fdf)]
  /\ stage' = "received" /\ UNCHANGED <<asked, frame, seq, filter, obj, rx>>

(* The next frame. *)
Again ==
  /\ stage \in {"rejected", "dropped", "received"} /\ stage' = "new"
  /\ asked' = None /\ frame' = None /\ obj' = None /\ rx' = None /\ got' = None
  /\ UNCHANGED <<seq, filter>>

Next ==
  \/ \E id \in Ids, len \in DataLens, b \in BOOLEAN :
       NewClassic(id, len, b) \/ NewFd(id, len, b) \/ NewPadded(id, len, b)
  \/ \E id \in Ids, dlc \in 0 .. 15, rtr, fdf, esi \in BOOLEAN :
       Foreign(id, dlc, rtr, fdf, esi)
  \/ Transmit \/ OnBus \/ FilterDrops \/ Receive \/ Again

Spec == Init /\ [][Next]_vars

-----------------------------------------------------------------------------
(* A frame that was built, sent and received again is the frame that was   *)
(* built: identifier, kind, length and flags survive the DLC codes and the *)
(* packing, and no bit of the 23-bit sequence number or of the filter's    *)
(* number gets among them.  It has the length asked for, or, from          *)
(* new_padded, the next length there is.                                   *)
RoundTrip == stage = "received" /\ frame # None =>
  /\ got = frame
  /\ got.len >= asked.len
  /\ \A l \in asked.len .. got.len - 1 : len_to_dlc(l, TRUE) = {}

(* The payload transmit_raw writes is what the controller will send for    *)
(* the DLC it wrote, rounded up to a word: object and header never         *)
(* disagree on the length, whichever of the three tables a length went     *)
(* through.                                                                *)
PayloadMatchesDlc == obj # None =>
  LET h == RxHeader(obj.words)
  IN  h.rtr \/ obj.payload \in dlc_to_len(h.dlc, h.fdf) .. dlc_to_len(h.dlc, h.fdf) + 3

(* A received frame has a length its kind can have, whatever DLC code the  *)
(* sender used: 64-byte buffers are never overrun and a classic frame      *)
(* never claims more than 8 bytes.                                         *)
ReceivedValid == got # None =>
  len_to_dlc(got.len, got.fdf) # {} /\ (got.rtr => ~got.fdf)

(* A filter accepts what its constructor says in terms of the natural      *)
(* identifier: exactly that identifier, everything, or the identifiers of  *)
(* the same kind that agree on the mask.                                   *)
FilterMeaning == stage \in {"received", "dropped"} =>
  LET id == unpack_id(rx[1], 4 \in rx[2])
      width == IF filter.id.ext THEN 0 .. 28 ELSE 0 .. 10
      differ == (id.bits \ filter.id.bits) \cup (filter.id.bits \ id.bits)
  IN  (stage = "received") <=>
        CASE filter.kind = "exact" -> id = filter.id
          [] filter.kind = "all"   -> TRUE
          [] filter.kind = "mask"  -> id.ext = filter.id.ext
                                      /\ differ \cap filter.natural \cap width = {}
=============================================================================
