-------------------------- MODULE FrameCodecProofs --------------------------
(***************************************************************************)
(* Proofs about FrameCodec: what survives the way of a frame through the   *)
(* driver, for every identifier, length, sequence number and mask.         *)
(***************************************************************************)
EXTENDS FrameCodec, TLAPS

IdType == {id \in [ext : BOOLEAN, bits : SUBSET (0 .. 28)] : ~id.ext => id.bits \subseteq 0 .. 10}

-----------------------------------------------------------------------------
(* Shifts, bit by bit, and with them the packed identifiers.               *)
LEMMA InShl ==
  ASSUME NEW s \in SUBSET Int, NEW k \in Int, NEW x
  PROVE  x \in Shl(s, k) <=> x \in 0 .. 31 /\ x - k \in s
<1>1. ASSUME x \in Shl(s, k) PROVE x \in 0 .. 31 /\ x - k \in s
  <2>1. PICK b \in s : x = b + k  BY <1>1 DEF Shl
  <2>2. b \in Int /\ x - k = b  BY <2>1
  <2>. QED  BY <1>1, <2>2 DEF Shl, WordBits
<1>2. ASSUME x \in 0 .. 31, x - k \in s PROVE x \in Shl(s, k)
  <2>1. x = (x - k) + k  BY <1>2
  <2>. QED  BY <1>2, <2>1 DEF Shl, WordBits
<1>. QED  BY <1>1, <1>2

LEMMA InShr ==
  ASSUME NEW s \in SUBSET Int, NEW k \in Int, NEW x
  PROVE  x \in Shr(s, k) <=> x \in Nat /\ x + k \in s
<1>1. ASSUME x \in Shr(s, k) PROVE x \in Nat /\ x + k \in s
  <2>1. PICK b \in s : b >= k /\ x = b - k  BY <1>1 DEF Shr
  <2>2. b \in Int /\ x + k = b /\ x \in Nat  BY <2>1
  <2>. QED  BY <2>2
<1>2. ASSUME x \in Nat, x + k \in s PROVE x \in Shr(s, k)
  <2>1. x = (x + k) - k /\ x + k >= k  BY <1>2
  <2>. QED  BY <1>2, <2>1 DEF Shr
<1>. QED  BY <1>1, <1>2

LEMMA InPack ==
  ASSUME NEW id \in IdType, NEW y
  PROVE  y \in pack_id(id) <=>
           /\ y \in 0 .. 28
           /\ IF id.ext THEN IF y <= 10 THEN y + 18 \in id.bits ELSE y - 11 \in id.bits
                        ELSE y \in id.bits
<1>1. id.ext \in BOOLEAN /\ id.bits \in SUBSET Int /\ id.bits \subseteq 0 .. 28
      /\ (~id.ext => id.bits \subseteq 0 .. 10)
  BY DEF IdType
<1>2. CASE ~id.ext
  BY <1>1, <1>2 DEF pack_id
<1>3. CASE id.ext
  <2>1. id.bits \cap 0 .. 17 \in SUBSET Int  BY <1>1
  <2>2. y \in Shr(id.bits, 18) <=> y \in Nat /\ y + 18 \in id.bits  BY <1>1, InShr
  <2>3. y \in Shl(id.bits \cap 0 .. 17, 11) <=> y \in 0 .. 31 /\ y - 11 \in id.bits \cap 0 .. 17
    BY <2>1, InShl
  <2>. QED  BY <1>1, <1>3, <2>2, <2>3 DEF pack_id
<1>. QED  BY <1>1, <1>2, <1>3

LEMMA PackRange == ASSUME NEW id \in IdType PROVE pack_id(id) \in SUBSET (0 .. 28)
BY InPack

(* What is packed is unpacked again.                                       *)
LEMMA UnpackPack == ASSUME NEW id \in IdType PROVE unpack_id(pack_id(id), id.ext) = id
<1>1. id \in [ext : BOOLEAN, bits : SUBSET (0 .. 28)] /\ (~id.ext => id.bits \subseteq 0 .. 10)
  BY DEF IdType
<1>2. PICK w : w = pack_id(id)  OBVIOUS
<1>3. w \in SUBSET Int /\ w \cap 0 .. 10 \in SUBSET Int  BY <1>2, PackRange
<1>4. PICK b : b = IF id.ext THEN Shl(w \cap 0 .. 10, 18) \cup (Shr(w, 11) \cap 0 .. 17)
                             ELSE w \cap 0 .. 10
  OBVIOUS
<1>5. b = id.bits
  <2>1. SUFFICES ASSUME NEW x PROVE x \in b <=> x \in id.bits  OBVIOUS
  <2>2. CASE ~id.ext  BY <1>1, <1>2, <1>4, <2>2, InPack
  <2>3. CASE id.ext
    <3>1. x \in Shl(w \cap 0 .. 10, 18) <=> x \in 18 .. 28 /\ x - 18 \in w
      BY <1>3, InShl
    <3>2. x \in Shr(w, 11) <=> x \in Nat /\ x + 11 \in w  BY <1>3, InShr
    <3>3. x \in 18 .. 28 => (x - 18 \in w <=> x \in id.bits)
      <4>1. SUFFICES ASSUME x \in 18 .. 28 PROVE x - 18 \in w <=> x \in id.bits  OBVIOUS
      <4>2. x - 18 \in 0 .. 28 /\ x - 18 <= 10 /\ (x - 18) + 18 = x  BY <4>1
      <4>. QED  BY <1>2, <2>3, <4>2, InPack
    <3>4. x \in 0 .. 17 => (x + 11 \in w <=> x \in id.bits)
      <4>1. SUFFICES ASSUME x \in 0 .. 17 PROVE x + 11 \in w <=> x \in id.bits  OBVIOUS
      <4>2. x + 11 \in 0 .. 28 /\ ~(x + 11 <= 10) /\ (x + 11) - 11 = x  BY <4>1
      <4>. QED  BY <1>2, <2>3, <4>2, InPack
    <3>5. x \in id.bits => x \in 0 .. 17 \/ x \in 18 .. 28  BY <1>1
    <3>6. x \in 0 .. 17 => x \in Nat  OBVIOUS
    <3>. QED  BY <1>4, <2>3, <3>1, <3>2, <3>3, <3>4, <3>5, <3>6
  <2>. QED  BY <1>1, <2>2, <2>3
<1>6. unpack_id(w, id.ext) = [ext |-> id.ext, bits |-> b]  BY <1>4 DEF unpack_id
<1>. QED  BY <1>1, <1>2, <1>5, <1>6

-----------------------------------------------------------------------------
(* The lengths of the DLC codes.                                           *)
FdLen(d) == dlc_to_len(d, TRUE)
ClassicLen(d) == dlc_to_len(d, FALSE)
FdCodes(len) == len_to_dlc(len, TRUE)
ClassicCodes(len) == len_to_dlc(len, FALSE)
FdLengths == {0, 1, 2, 3, 4, 5, 6, 7, 8, 12, 16, 20, 24, 32, 48, 64}

LEMMA Lengths ==
  /\ \A d \in 0 .. 8 : FdLen(d) = d /\ ClassicLen(d) = d
  /\ \A d \in 9 .. 15 : ClassicLen(d) = 8
  /\ FdLen(9) = 12 /\ FdLen(10) = 16 /\ FdLen(11) = 20 /\ FdLen(12) = 24
  /\ FdLen(13) = 32 /\ FdLen(14) = 48 /\ FdLen(15) = 64
<1>1. FdLens[1] = 12 /\ FdLens[2] = 16 /\ FdLens[3] = 20 /\ FdLens[4] = 24 /\ FdLens[5] = 32
      /\ FdLens[6] = 48 /\ FdLens[7] = 64
  BY DEF FdLens
<1>. QED  BY <1>1 DEF FdLen, ClassicLen, dlc_to_len

LEMMA LengthRange ==
  ASSUME NEW d \in 0 .. 15
  PROVE  FdLen(d) \in FdLengths /\ ClassicLen(d) \in 0 .. 8
<1>1. CASE d \in 0 .. 8  BY <1>1, Lengths DEF FdLengths
<1>2. CASE d \in 9 .. 15
  <2>1. d = 9 \/ d = 10 \/ d = 11 \/ d = 12 \/ d = 13 \/ d = 14 \/ d = 15  BY <1>2
  <2>2. ClassicLen(d) = 8  BY <1>2, Lengths
  <2>. QED  BY <2>1, <2>2, Lengths DEF FdLengths
<1>. QED  BY <1>1, <1>2

LEMMA LengthsReached == \A l \in FdLengths : \E d \in 0 .. 15 : FdLen(d) = l
<1>1. SUFFICES ASSUME NEW l \in FdLengths PROVE \E d \in 0 .. 15 : FdLen(d) = l  OBVIOUS
<1>2. CASE l \in 0 .. 8
  <2>1. l \in 0 .. 15 /\ FdLen(l) = l  BY <1>2, Lengths
  <2>. QED  BY <2>1
<1>3. CASE l \notin 0 .. 8
  <2>1. l \in {12, 16, 20, 24, 32, 48, 64}  BY <1>3 DEF FdLengths
  <2>2. 9 \in 0 .. 15 /\ 10 \in 0 .. 15 /\ 11 \in 0 .. 15 /\ 12 \in 0 .. 15 /\ 13 \in 0 .. 15
        /\ 14 \in 0 .. 15 /\ 15 \in 0 .. 15
    OBVIOUS
  <2>. QED  BY <2>1, <2>2, Lengths
<1>. QED  BY <1>2, <1>3

LEMMA InCodes ==
  ASSUME NEW len, NEW d
  PROVE  /\ d \in FdCodes(len) <=> d \in 0 .. 15 /\ FdLen(d) = len
         /\ d \in ClassicCodes(len) <=> d \in 0 .. 8 /\ ClassicLen(d) = len
<1>1. d \in FdCodes(len) <=> d \in 0 .. 15 /\ FdLen(d) = len
  <2>1. d \in FdCodes(len) <=>
          \/ d \in 0 .. 8 /\ len = d
          \/ <<d, len>> \in {<<9, 12>>, <<10, 16>>, <<11, 20>>, <<12, 24>>, <<13, 32>>, <<14, 48>>,
                            <<15, 64>>}
    BY DEF FdCodes, len_to_dlc
  <2>2. d \in 0 .. 15 <=> \/ d \in 0 .. 8 \/ d = 9 \/ d = 10 \/ d = 11 \/ d = 12
                          \/ d = 13 \/ d = 14 \/ d = 15
    OBVIOUS
  <2>3. d \in 0 .. 8 => d \notin 9 .. 15  OBVIOUS
  <2>. QED  BY <2>1, <2>2, <2>3, Lengths
<1>2. d \in ClassicCodes(len) <=> d \in 0 .. 8 /\ ClassicLen(d) = len
  <2>1. d \in ClassicCodes(len) <=> d \in 0 .. 8 /\ len = d  BY DEF ClassicCodes, len_to_dlc
  <2>. QED  BY <2>1, Lengths
<1>. QED  BY <1>1, <1>2

(* Every length that a code stands for has a code.                         *)
LEMMA LengthHasCode ==
  ASSUME NEW d \in 0 .. 15
  PROVE  FdCodes(FdLen(d)) # {} /\ ClassicCodes(ClassicLen(d)) # {}
<1>1. d \in FdCodes(FdLen(d))  BY InCodes
<1>2. PICK e : e = ClassicLen(d)  OBVIOUS
<1>3. e \in 0 .. 8 /\ ClassicLen(e) = e  BY <1>2, LengthRange, Lengths
<1>4. e \in ClassicCodes(e)  BY <1>3, InCodes
<1>. QED  BY <1>1, <1>2, <1>4

(* padded_dlc_len gives the least length that is long enough.              *)
LEMMA Padded ==
  ASSUME NEW len \in Nat, NEW l \in padded_dlc_len(len)
  PROVE  /\ l \in Nat /\ l >= len /\ FdCodes(l) # {}
         /\ \A k \in len .. l - 1 : FdCodes(k) = {}
<1>1. l = IF len <= 8 THEN len ELSE IF len <= 12 THEN 12 ELSE IF len <= 16 THEN 16
          ELSE IF len <= 20 THEN 20 ELSE IF len <= 24 THEN 24 ELSE IF len <= 32 THEN 32
          ELSE IF len <= 48 THEN 48 ELSE 64
  BY DEF padded_dlc_len
<1>2. len <= 64  BY DEF padded_dlc_len
<1>3. \A k \in FdLengths : k >= len => l <= k  BY <1>1, <1>2 DEF FdLengths
<1>4. l \in FdLengths /\ l \in len .. 64  BY <1>1, <1>2 DEF FdLengths
<1>5. FdCodes(l) # {}
  <2>1. PICK d \in 0 .. 15 : FdLen(d) = l  BY <1>4, LengthsReached
  <2>2. d \in FdCodes(l)  BY <2>1, InCodes
  <2>. QED  BY <2>2
<1>6. \A k \in len .. l - 1 : FdCodes(k) = {}
  <2>1. SUFFICES ASSUME NEW k \in len .. l - 1, NEW d \in FdCodes(k) PROVE FALSE  OBVIOUS
  <2>2. d \in 0 .. 15 /\ k = FdLen(d)  BY InCodes
  <2>3. k \in FdLengths  BY <2>2, LengthRange
  <2>4. k \in len .. 64 /\ ~(l <= k)  BY <1>4
  <2>. QED  BY <1>3, <2>3, <2>4
<1>. QED  BY <1>4, <1>5, <1>6

-----------------------------------------------------------------------------
(* What a header says, whichever of the two objects it is in: the sequence *)
(* number of the one and the filter's number of the other lie above it.    *)
Says(r, id, d, rtr, brs, fdf) ==
  /\ r[1] = pack_id(id) /\ r[2] \cap 0 .. 3 = Bits(d)
  /\ 4 \in r[2] <=> id.ext
  /\ 5 \in r[2] <=> rtr
  /\ 6 \in r[2] <=> brs
  /\ 7 \in r[2] <=> fdf

LEMMA Truth == \A p \in BOOLEAN : \A x, w : (x \in w <=> p) => (x \in w) = p
<1>. SUFFICES ASSUME NEW p \in BOOLEAN, NEW x, NEW w, x \in w <=> p PROVE (x \in w) = p
  OBVIOUS
<1>1. CASE p = TRUE
  <2>1. x \in w  BY <1>1, Zenon
  <2>2. (x \in w) = TRUE  BY <2>1, Zenon
  <2>. QED  BY <1>1, <2>2, Zenon
<1>2. CASE p = FALSE
  <2>1. ~(x \in w)  BY <1>2, Zenon
  <2>2. (x \in w) = FALSE  BY <2>1, Zenon
  <2>. QED  BY <1>2, <2>2, Zenon
<1>. QED  BY <1>1, <1>2, Zenon

HeaderIs(r, id, d, rtr, brs, fdf) ==
  /\ RxHeader(r).id = id /\ RxHeader(r).dlc = d /\ RxHeader(r).rtr = rtr
  /\ RxHeader(r).brs = brs /\ RxHeader(r).fdf = fdf

LEMMA HeaderSays ==
  ASSUME NEW r, NEW id \in IdType, NEW d \in 0 .. 15,
         NEW rtr \in BOOLEAN, NEW brs \in BOOLEAN, NEW fdf \in BOOLEAN,
         Says(r, id, d, rtr, brs, fdf)
  PROVE  HeaderIs(r, id, d, rtr, brs, fdf)
<1>1. /\ RxHeader(r).id = unpack_id(r[1], 4 \in r[2]) /\ RxHeader(r).dlc = Value(r[2] \cap 0 .. 3)
      /\ RxHeader(r).rtr = (5 \in r[2]) /\ RxHeader(r).brs = (6 \in r[2])
      /\ RxHeader(r).fdf = (7 \in r[2])
  BY DEF RxHeader
<1>2. (4 \in r[2]) = id.ext /\ (5 \in r[2]) = rtr /\ (6 \in r[2]) = brs /\ (7 \in r[2]) = fdf
  <2>1. PICK w : w = r[2]  OBVIOUS
  <2>2. PICK e : e = id.ext  OBVIOUS
  <2>3. e \in BOOLEAN  BY <2>2 DEF IdType
  <2>4. /\ 4 \in w <=> e
        /\ 5 \in w <=> rtr
        /\ 6 \in w <=> brs
        /\ 7 \in w <=> fdf
    BY <2>1, <2>2, Zenon DEF Says
  <2>5. (4 \in w) = e  BY <2>3, <2>4, Truth, Zenon
  <2>6. (5 \in w) = rtr  BY <2>4, Truth, Zenon
  <2>7. (6 \in w) = brs  BY <2>4, Truth, Zenon
  <2>8. (7 \in w) = fdf  BY <2>4, Truth, Zenon
  <2>. QED  BY <2>1, <2>2, <2>5, <2>6, <2>7, <2>8, Zenon
<1>3. unpack_id(r[1], 4 \in r[2]) = id
  BY <1>2, UnpackPack, Zenon DEF Says
<1>4. Value(r[2] \cap 0 .. 3) = d  BY DlcCodesSurvive, Zenon DEF Says
<1>. QED  BY <1>1, <1>2, <1>3, <1>4, Zenon DEF HeaderIs

LEMMA InFlag == ASSUME NEW b \in BOOLEAN, NEW k, NEW x PROVE x \in Flag(b, k) <=> b /\ x = k
BY DEF Flag

LEMMA DlcRange == ASSUME NEW d \in 0 .. 15 PROVE Bits(d) \subseteq 0 .. 3 /\ DlcBits(d) = Bits(d)
BY DlcCodesSurvive DEF DlcBits

(* The header of a transmit object, with any sequence number of 23 bits.   *)
HeaderType == [id : IdType, dlc : 0 .. 15, rtr : BOOLEAN, brs : BOOLEAN, fdf : BOOLEAN,
               esi : BOOLEAN, seq : SUBSET (0 .. 22)]

LEMMA TxSays ==
  ASSUME NEW h \in HeaderType
  PROVE  Says(TxWords(h), h.id, h.dlc, h.rtr, h.brs, h.fdf)
<1>1. PICK id \in IdType, d \in 0 .. 15, rtr \in BOOLEAN, brs \in BOOLEAN, fdf \in BOOLEAN,
           esi \in BOOLEAN, sq \in SUBSET (0 .. 22) :
        /\ h.id = id /\ h.dlc = d /\ h.rtr = rtr /\ h.brs = brs /\ h.fdf = fdf /\ h.esi = esi
        /\ h.seq = sq
  BY DEF HeaderType
<1>3. PICK w : w = DlcBits(d) \cup Flag(id.ext, 4) \cup Flag(rtr, 5) \cup Flag(brs, 6)
                   \cup Flag(fdf, 7) \cup Flag(esi, 8) \cup Shl(sq, 9)
  OBVIOUS
<1>4. TxWords(h) = <<pack_id(id), w>>  BY <1>1, <1>3, Zenon DEF TxWords
<1>5. id.ext \in BOOLEAN  BY DEF IdType
<1>6. \A x : x \in Shl(sq, 9) => x \in 9 .. 31
  <2>1. sq \in SUBSET Int  OBVIOUS
  <2>. QED  BY <2>1, InShl
<1>7. Bits(d) \subseteq 0 .. 3 /\ DlcBits(d) = Bits(d)  BY DlcRange
<1>8. \A x : x \in w <=> \/ x \in Bits(d)
                         \/ id.ext /\ x = 4
                         \/ rtr /\ x = 5
                         \/ brs /\ x = 6
                         \/ fdf /\ x = 7
                         \/ esi /\ x = 8
                         \/ x \in Shl(sq, 9)
  BY <1>3, <1>5, <1>7, InFlag
<1>9. w \cap 0 .. 3 = Bits(d)  BY <1>6, <1>7, <1>8
<1>10. /\ 4 \in w <=> id.ext
       /\ 5 \in w <=> rtr
       /\ 6 \in w <=> brs
       /\ 7 \in w <=> fdf
  BY <1>6, <1>7, <1>8
<1>11. TxWords(h)[1] = pack_id(id) /\ TxWords(h)[2] = w  BY <1>4
<1>12. Says(TxWords(h), id, d, rtr, brs, fdf)  BY <1>9, <1>10, <1>11 DEF Says
<1>. QED  BY <1>1, <1>12, Zenon

(* The same on the bus, with any number of a filter.                       *)
LEMMA BusSays ==
  ASSUME NEW r, NEW id \in IdType, NEW d \in 0 .. 15, NEW n,
         NEW rtr \in BOOLEAN, NEW brs \in BOOLEAN, NEW fdf \in BOOLEAN,
         Says(r, id, d, rtr, brs, fdf)
  PROVE  Says(<<r[1] \cap 0 .. 28, (r[2] \cap 0 .. 7) \cup Shl(Bits(n), 11)>>,
              id, d, rtr, brs, fdf)
<1>1. PICK w : w = (r[2] \cap 0 .. 7) \cup Shl(Bits(n), 11)  OBVIOUS
<1>2. \A x : x \in Shl(Bits(n), 11) => x \in 11 .. 31
  <2>1. Bits(n) \in SUBSET Int /\ Bits(n) \subseteq 0 .. 7  BY DEF Bits
  <2>. QED  BY <2>1, InShl
<1>3. r[1] \cap 0 .. 28 = pack_id(id)  BY PackRange DEF Says
<1>4. w \cap 0 .. 3 = r[2] \cap 0 .. 3 /\ \A k \in 4 .. 7 : k \in w <=> k \in r[2]
  BY <1>1, <1>2
<1>. QED  BY <1>1, <1>3, <1>4 DEF Says

LEMMA ForeignSays ==
  ASSUME NEW id \in IdType, NEW d \in 0 .. 15,
         NEW rtr \in BOOLEAN, NEW fdf \in BOOLEAN, NEW esi \in BOOLEAN
  PROVE  Says(<<pack_id(id), Bits(d) \cup Flag(id.ext, 4) \cup Flag(rtr /\ ~fdf, 5)
                               \cup Flag(fdf, 7) \cup Flag(esi, 8)>>,
              id, d, rtr /\ ~fdf, FALSE, fdf)
<1>1. PICK w : w = Bits(d) \cup Flag(id.ext, 4) \cup Flag(rtr /\ ~fdf, 5)
                     \cup Flag(fdf, 7) \cup Flag(esi, 8)
  OBVIOUS
<1>2. id.ext \in BOOLEAN /\ (rtr /\ ~fdf) \in BOOLEAN  BY DEF IdType
<1>3. Bits(d) \subseteq 0 .. 3  BY DlcRange
<1>4. \A x : x \in w <=> \/ x \in Bits(d)
                         \/ id.ext /\ x = 4
                         \/ rtr /\ ~fdf /\ x = 5
                         \/ fdf /\ x = 7
                         \/ esi /\ x = 8
  BY <1>1, <1>2, InFlag DEF Flag
<1>5. w \cap 0 .. 3 = Bits(d)  BY <1>3, <1>4
<1>6. /\ 4 \in w <=> id.ext
      /\ 5 \in w <=> rtr /\ ~fdf
      /\ 6 \in w <=> FALSE
      /\ 7 \in w <=> fdf
  BY <1>3, <1>4
<1>. QED  BY <1>1, <1>5, <1>6 DEF Says

-----------------------------------------------------------------------------
(* The chip's comparison, in terms of the natural identifier.              *)
IdWord(id) == pack_id(id) \cup Ide(id)

LEMMA InIdWord ==
  ASSUME NEW id \in IdType
  PROVE  /\ 30 \in IdWord(id) <=> id.ext
         /\ \A x \in 0 .. 28 : x \in IdWord(id) <=> x \in pack_id(id)
<1>1. pack_id(id) \in SUBSET (0 .. 28)  BY PackRange
<1>2. PICK w : w = pack_id(id)  OBVIOUS
<1>3. w \subseteq 0 .. 28 /\ 30 \notin w  BY <1>1, <1>2
<1>4. id.ext \in BOOLEAN  BY DEF IdType
<1>5. Ide(id) = IF id.ext THEN {30} ELSE {}  BY DEF Ide, IdeBit
<1>6. \A x : x \in IdWord(id) <=> x \in w \/ x \in Ide(id)  BY <1>2, Zenon DEF IdWord
<1>. QED  BY <1>2, <1>3, <1>4, <1>5, <1>6

LEMMA MatchesMeans ==
  ASSUME NEW r, NEW f, NEW id \in IdType, NEW d, NEW rtr, NEW brs, NEW fdf,
         Says(r, id, d, rtr, brs, fdf)
  PROVE  Matches(r, f) <=> \A x \in f.mask : x \in IdWord(id) <=> x \in f.fltobj
<1>1. PICK w : w = (r[1] \cap 0 .. 28) \cup Flag(4 \in r[2], 30)  OBVIOUS
<1>2. w = IdWord(id)
  <2>1. r[1] \cap 0 .. 28 = pack_id(id)  BY PackRange DEF Says
  <2>2. 4 \in r[2] <=> id.ext  BY Zenon DEF Says
  <2>3. Flag(4 \in r[2], 30) = Ide(id)  BY <2>2, Zenon DEF Flag, Ide, IdeBit
  <2>. QED  BY <1>1, <2>1, <2>3, Zenon DEF IdWord
<1>3. Matches(r, f) <=> ((w \ f.fltobj) \cup (f.fltobj \ w)) \cap f.mask = {}
  BY <1>1, Zenon DEF Matches
<1>4. ((w \ f.fltobj) \cup (f.fltobj \ w)) \cap f.mask = {}
      <=> \A x \in f.mask : x \in w <=> x \in f.fltobj
  <2>1. PICK g, m : g = f.fltobj /\ m = f.mask  OBVIOUS
  <2>2. ((w \ g) \cup (g \ w)) \cap m = {} <=> \A x \in m : x \in w <=> x \in g
    BY Zenon
  <2>. QED  BY <2>1, <2>2, Zenon
<1>. QED  BY <1>2, <1>3, <1>4, Zenon

LEMMA ExactMeans ==
  ASSUME NEW id \in IdType, NEW fid \in IdType
  PROVE  (\A x \in Exact(fid).mask : x \in IdWord(id) <=> x \in Exact(fid).fltobj)
         <=> id = fid
<1>1. PICK m : m = Exact(fid).mask  OBVIOUS
<1>2. m = (IF fid.ext THEN 0 .. 28 ELSE 0 .. 10) \cup {30}  BY <1>1 DEF Exact, IdeBit
<1>3. Exact(fid).fltobj = IdWord(fid)  BY DEF Exact, IdWord
<1>4. ASSUME \A x \in m : x \in IdWord(id) <=> x \in IdWord(fid)
      PROVE  id = fid
  <2>1. id.ext \in BOOLEAN /\ fid.ext \in BOOLEAN  BY DEF IdType
  <2>2. 30 \in m  BY <1>2
  <2>3. id.ext <=> fid.ext  BY <1>4, <2>2, InIdWord, Zenon
  <2>4. id.ext = fid.ext  BY <2>1, <2>3
  <2>5. PICK v, w : v = pack_id(id) /\ w = pack_id(fid)  OBVIOUS
  <2>6. v \subseteq 0 .. 28 /\ w \subseteq 0 .. 28  BY <2>5, PackRange
  <2>7. ~fid.ext => v \subseteq 0 .. 10 /\ w \subseteq 0 .. 10
    BY <2>4, <2>5 DEF IdType, pack_id
  <2>8. \A x \in 0 .. 28 : x \in m => (x \in v <=> x \in w)
    BY <1>4, <2>5, InIdWord, Zenon
  <2>9. \A x : x \in v <=> x \in w
    <3>1. SUFFICES ASSUME NEW x, x \in v \/ x \in w PROVE x \in v <=> x \in w  OBVIOUS
    <3>2. x \in 0 .. 28 /\ (~fid.ext => x \in 0 .. 10)  BY <2>6, <2>7, <3>1
    <3>3. x \in m  BY <1>2, <2>1, <3>2
    <3>. QED  BY <2>8, <3>2, <3>3
  <2>10. v = w  BY <2>9
  <2>. QED  BY <2>4, <2>5, <2>10, UnpackPack
<1>5. id = fid => \A x \in m : x \in IdWord(id) <=> x \in IdWord(fid)  BY Zenon
<1>. QED  BY <1>1, <1>3, <1>4, <1>5, Zenon

(* The natural bit that lies at bit x of a packed identifier.              *)
NaturalBit(x, ext) == IF ext THEN IF x <= 10 THEN x + 18 ELSE x - 11 ELSE x
Width(ext) == IF ext THEN 0 .. 28 ELSE 0 .. 10
Agree(id, fid, m) == \A y \in Width(fid.ext) : y \in m => (y \in id.bits <=> y \in fid.bits)

LEMMA NaturalBits ==
  ASSUME NEW ext \in BOOLEAN
  PROVE  /\ \A x \in Width(ext) : NaturalBit(x, ext) \in Width(ext)
         /\ \A y \in Width(ext) : \E x \in Width(ext) : NaturalBit(x, ext) = y
<1>1. CASE ~ext  BY <1>1 DEF NaturalBit, Width
<1>2. CASE ext
  <2>1. \A x \in 0 .. 28 : NaturalBit(x, ext) \in 0 .. 28  BY <1>2 DEF NaturalBit
  <2>2. ASSUME NEW y \in 0 .. 28 PROVE \E x \in 0 .. 28 : NaturalBit(x, ext) = y
    <3>1. PICK x : x = IF y >= 18 THEN y - 18 ELSE y + 11  OBVIOUS
    <3>2. x \in 0 .. 28 /\ NaturalBit(x, ext) = y  BY <1>2, <3>1 DEF NaturalBit
    <3>. QED  BY <3>2
  <2>. QED  BY <1>2, <2>1, <2>2 DEF Width
<1>. QED  BY <1>1, <1>2

LEMMA PackedBits ==
  ASSUME NEW id \in IdType, NEW x \in Width(id.ext)
  PROVE  x \in pack_id(id) <=> NaturalBit(x, id.ext) \in id.bits
BY InPack DEF Width, NaturalBit, IdType

LEMMA MaskBits ==
  ASSUME NEW fid \in IdType, NEW m \in SUBSET (0 .. 31), NEW x
  PROVE  x \in WithMask(fid, m).mask <=>
           x = 30 \/ (x \in Width(fid.ext) /\ NaturalBit(x, fid.ext) \in m)
<1>1. PICK k : k = IF fid.ext THEN (Shr(m, 18) \cap 0 .. 10) \cup Shl(m \cap 0 .. 17, 11)
                              ELSE m \cap 0 .. 10
  OBVIOUS
<1>2. WithMask(fid, m).mask = k \cup {30}  BY <1>1 DEF WithMask, IdeBit
<1>3. fid.ext \in BOOLEAN  BY DEF IdType
<1>4. x \in k <=> x \in Width(fid.ext) /\ NaturalBit(x, fid.ext) \in m
  <2>1. CASE ~fid.ext  BY <1>1, <2>1 DEF Width, NaturalBit
  <2>2. CASE fid.ext
    <3>1. m \in SUBSET Int /\ m \cap 0 .. 17 \in SUBSET Int  OBVIOUS
    <3>2. x \in Shr(m, 18) <=> x \in Nat /\ x + 18 \in m  BY <3>1, InShr
    <3>3. x \in Shl(m \cap 0 .. 17, 11) <=> x \in 0 .. 31 /\ x - 11 \in m \cap 0 .. 17
      BY <3>1, InShl
    <3>4. x \in k <=> (x \in 0 .. 10 /\ x + 18 \in m) \/ (x \in 11 .. 28 /\ x - 11 \in m)
      BY <1>1, <2>2, <3>2, <3>3
    <3>. QED  BY <2>2, <3>4 DEF Width, NaturalBit
  <2>. QED  BY <1>3, <2>1, <2>2
<1>. QED  BY <1>2, <1>4

LEMMA MaskMeans ==
  ASSUME NEW id \in IdType, NEW fid \in IdType, NEW m \in SUBSET (0 .. 31)
  PROVE  (\A x \in WithMask(fid, m).mask : x \in IdWord(id) <=> x \in WithMask(fid, m).fltobj)
         <=> id.ext = fid.ext /\ Agree(id, fid, m)
<1>1. PICK k : k = WithMask(fid, m).mask  OBVIOUS
<1>2. \A x : x \in k <=> x = 30 \/ (x \in Width(fid.ext) /\ NaturalBit(x, fid.ext) \in m)
  BY <1>1, MaskBits
<1>3. WithMask(fid, m).fltobj = IdWord(fid)  BY DEF WithMask, IdWord
<1>4. id.ext \in BOOLEAN /\ fid.ext \in BOOLEAN  BY DEF IdType
<1>5. Width(fid.ext) \subseteq 0 .. 28  BY DEF Width
<1>6. ASSUME id.ext = fid.ext, NEW x \in Width(fid.ext)
      PROVE  /\ x \in IdWord(id) <=> NaturalBit(x, fid.ext) \in id.bits
             /\ x \in IdWord(fid) <=> NaturalBit(x, fid.ext) \in fid.bits
  <2>1. x \in 0 .. 28  BY <1>5
  <2>2. x \in pack_id(id) <=> NaturalBit(x, fid.ext) \in id.bits
    <3>1. x \in Width(id.ext)  BY <1>6
    <3>2. x \in pack_id(id) <=> NaturalBit(x, id.ext) \in id.bits  BY <3>1, PackedBits
    <3>. QED  BY <1>6, <3>2
  <2>3. x \in pack_id(fid) <=> NaturalBit(x, fid.ext) \in fid.bits  BY PackedBits
  <2>. QED  BY <2>1, <2>2, <2>3, InIdWord, Zenon
<1>7. ASSUME \A x \in k : x \in IdWord(id) <=> x \in IdWord(fid)
      PROVE  id.ext = fid.ext /\ Agree(id, fid, m)
  <2>1. id.ext <=> fid.ext  BY <1>2, <1>7, InIdWord, Zenon
  <2>2. id.ext = fid.ext  BY <1>4, <2>1
  <2>3. ASSUME NEW y \in Width(fid.ext), y \in m PROVE y \in id.bits <=> y \in fid.bits
    <3>1. PICK x \in Width(fid.ext) : NaturalBit(x, fid.ext) = y  BY <1>4, NaturalBits
    <3>2. x \in k  BY <1>2, <2>3, <3>1
    <3>. QED  BY <1>6, <1>7, <2>2, <3>1, <3>2, Zenon
  <2>. QED  BY <2>2, <2>3 DEF Agree
<1>8. ASSUME id.ext = fid.ext, Agree(id, fid, m), NEW x \in k
      PROVE  x \in IdWord(id) <=> x \in IdWord(fid)
  <2>1. CASE x = 30  BY <1>8, <2>1, InIdWord, Zenon
  <2>2. CASE x # 30
    <3>1. x \in Width(fid.ext) /\ NaturalBit(x, fid.ext) \in m  BY <1>2, <1>8, <2>2
    <3>2. NaturalBit(x, fid.ext) \in Width(fid.ext)  BY <1>4, <3>1, NaturalBits
    <3>3. PICK y : y = NaturalBit(x, fid.ext)  OBVIOUS
    <3>4. y \in id.bits <=> y \in fid.bits  BY <1>8, <3>1, <3>2, <3>3, Zenon DEF Agree
    <3>. QED  BY <1>6, <1>8, <3>1, <3>3, <3>4, Zenon
  <2>. QED  BY <2>1, <2>2
<1>. QED  BY <1>1, <1>3, <1>7, <1>8, Zenon

(* What FilterMeaning says a filter accepts.                               *)
Means(f, id) ==
  LET width == IF f.id.ext THEN 0 .. 28 ELSE 0 .. 10
      differ == (id.bits \ f.id.bits) \cup (f.id.bits \ id.bits)
  IN  CASE f.kind = "exact" -> id = f.id
        [] f.kind = "all"   -> TRUE
        [] f.kind = "mask"  -> id.ext = f.id.ext
                               /\ differ \cap f.natural \cap width = {}

LEMMA MeansMask ==
  ASSUME NEW id \in IdType, NEW fid \in IdType, NEW m \in SUBSET (0 .. 31)
  PROVE  Means(WithMask(fid, m), id) <=> id.ext = fid.ext /\ Agree(id, fid, m)
<1>1. PICK f : f = WithMask(fid, m)  OBVIOUS
<1>2. f.kind = "mask" /\ f.id = fid /\ f.natural = m  BY <1>1 DEF WithMask
<1>3. PICK w : w = Width(fid.ext)  OBVIOUS
<1>4. Means(f, id) <=> id.ext = fid.ext
                       /\ ((id.bits \ fid.bits) \cup (fid.bits \ id.bits)) \cap m \cap w = {}
  BY <1>2, <1>3 DEF Means, Width
<1>5. PICK b, c : b = id.bits /\ c = fid.bits  OBVIOUS
<1>6. ((b \ c) \cup (c \ b)) \cap m \cap w = {}
      <=> \A y \in w : y \in m => (y \in b <=> y \in c)
  BY Zenon
<1>. QED  BY <1>1, <1>3, <1>4, <1>5, <1>6, Zenon DEF Agree

LEMMA IdsTyped == Ids \subseteq IdType /\ FilterIds \subseteq IdType
BY CodecInputs DEF IdType

(* The words of a filter mean what its constructor was asked for.          *)
LEMMA FilterSays ==
  ASSUME NEW f \in Filters, NEW r, NEW id \in IdType, NEW d, NEW rtr, NEW brs, NEW fdf,
         Says(r, id, d, rtr, brs, fdf)
  PROVE  Matches(r, f) <=> Means(f, id)
<1>1. Matches(r, f) <=> \A x \in f.mask : x \in IdWord(id) <=> x \in f.fltobj
  BY MatchesMeans, Zenon
<1>2. CASE \E fid \in FilterIds : f = Exact(fid)
  <2>1. PICK fid \in FilterIds : f = Exact(fid)  BY <1>2
  <2>2. fid \in IdType  BY IdsTyped
  <2>3. Matches(r, f) <=> id = fid  BY <1>1, <2>1, <2>2, ExactMeans, Zenon
  <2>4. f.kind = "exact" /\ f.id = fid  BY <2>1 DEF Exact
  <2>. QED  BY <2>3, <2>4 DEF Means
<1>3. CASE \E fid : f = AcceptAll(fid)
  <2>1. f.mask = {} /\ f.kind = "all"  BY <1>3 DEF AcceptAll
  <2>. QED  BY <1>1, <2>1 DEF Means
<1>4. CASE \E fid \in FilterIds, m \in Masks : f = WithMask(fid, m)
  <2>1. PICK fid \in FilterIds, m \in Masks : f = WithMask(fid, m)  BY <1>4
  <2>2. fid \in IdType /\ m \in SUBSET (0 .. 31)  BY IdsTyped, CodecInputs
  <2>. QED  BY <1>1, <2>1, <2>2, MaskMeans, MeansMask, Zenon
<1>. QED  BY <1>2, <1>3, <1>4 DEF Filters

-----------------------------------------------------------------------------
(* The inductive invariant: what a built frame is, what the words of the   *)
(* object and of the bus say, and which of them exist at each stage.       *)
FrameType == [id : IdType, fdf : BOOLEAN, rtr : BOOLEAN, len : Nat, brs : BOOLEAN]

Built(fr, a) ==
  /\ fr \in FrameType
  /\ fr.fdf => ~fr.rtr /\ FdCodes(fr.len) # {}
  /\ ~fr.fdf => fr.len <= 8 /\ ~fr.brs
  /\ fr.len >= a.len
  /\ \A l \in a.len .. fr.len - 1 : FdCodes(l) = {}

Codes(fr) == IF fr.fdf THEN FdCodes(fr.len) ELSE {fr.len}
SaysFrame(r, fr) == \E d \in Codes(fr) : Says(r, fr.id, d, fr.rtr, fr.brs, fr.fdf)
SaysSome(r) ==
  \E id \in IdType, d \in 0 .. 15, rtr, brs, fdf \in BOOLEAN : Says(r, id, d, rtr, brs, fdf)
Words(fr) == IF fr.rtr THEN 0 ELSE ((fr.len + 3) \div 4) * 4
Taken(r) ==
  LET h == RxHeader(r)
  IN  [id |-> h.id, fdf |-> h.fdf, rtr |-> h.rtr /\ ~h.fdf, brs |-> h.brs,
       len |-> dlc_to_len(h.dlc, h.fdf)]

FrameInv ==
  /\ stage \in {"new", "rejected"} => frame = None
  /\ stage \in {"made", "object"} => frame # None
  /\ frame # None => Built(frame, asked)
ObjInv ==
  /\ stage \in {"new", "rejected", "made"} => obj = None
  /\ stage = "object" => obj # None
  /\ obj # None => frame # None /\ SaysFrame(obj.words, frame) /\ obj.payload = Words(frame)
BusInv ==
  stage \in {"bus", "received", "dropped"} => SaysSome(rx) /\ (frame # None => SaysFrame(rx, frame))
EndInv ==
  /\ stage = "received" => got = Taken(rx) /\ Matches(rx, filter)
  /\ stage = "dropped" => ~Matches(rx, filter)
  /\ stage # "received" => got = None
CodecInv ==
  /\ stage \in {"new", "rejected", "made", "object", "bus", "received", "dropped"}
  /\ seq \in SUBSET (0 .. 22) /\ filter \in Filters
  /\ FrameInv /\ ObjInv /\ BusInv /\ EndInv

LEMMA CodeRange ==
  ASSUME NEW fr, NEW a, Built(fr, a), NEW d \in Codes(fr)
  PROVE  d \in 0 .. 15 /\ dlc_to_len(d, fr.fdf) = fr.len
<1>1. fr.fdf \in BOOLEAN /\ fr.len \in Nat  BY DEF Built, FrameType
<1>2. CASE fr.fdf
  <2>1. d \in 0 .. 15 /\ FdLen(d) = fr.len  BY <1>2, InCodes DEF Codes
  <2>2. fr.fdf = TRUE  BY <1>1, <1>2
  <2>3. dlc_to_len(d, fr.fdf) = FdLen(d)  BY <2>2, Zenon DEF FdLen
  <2>. QED  BY <2>1, <2>3
<1>3. CASE ~fr.fdf
  <2>1. d = fr.len /\ d \in 0 .. 8  BY <1>1, <1>3 DEF Codes, Built
  <2>2. dlc_to_len(d, fr.fdf) = d  BY <2>1 DEF dlc_to_len
  <2>. QED  BY <2>1, <2>2
<1>. QED  BY <1>1, <1>2, <1>3

LEMMA SomeFrame ==
  ASSUME NEW r, NEW fr, NEW a, Built(fr, a), SaysFrame(r, fr)
  PROVE  SaysSome(r)
<1>1. PICK d \in Codes(fr) : Says(r, fr.id, d, fr.rtr, fr.brs, fr.fdf)  BY DEF SaysFrame
<1>2. d \in 0 .. 15  BY CodeRange
<1>3. fr.id \in IdType /\ fr.rtr \in BOOLEAN /\ fr.brs \in BOOLEAN /\ fr.fdf \in BOOLEAN
  BY DEF Built, FrameType
<1>. QED  BY <1>1, <1>2, <1>3, Zenon DEF SaysSome

(* The frame received is the frame built.                                  *)
LEMMA TakenIsBuilt ==
  ASSUME NEW r, NEW fr, NEW a, Built(fr, a), SaysFrame(r, fr)
  PROVE  Taken(r) = fr
<1>1. PICK d \in Codes(fr) : Says(r, fr.id, d, fr.rtr, fr.brs, fr.fdf)  BY DEF SaysFrame
<1>2. d \in 0 .. 15 /\ dlc_to_len(d, fr.fdf) = fr.len  BY CodeRange
<1>3. /\ fr.id \in IdType /\ fr.rtr \in BOOLEAN /\ fr.brs \in BOOLEAN /\ fr.fdf \in BOOLEAN
      /\ fr.fdf => ~fr.rtr
      /\ fr = [id |-> fr.id, fdf |-> fr.fdf, rtr |-> fr.rtr, len |-> fr.len, brs |-> fr.brs]
  BY DEF Built, FrameType
<1>4. HeaderIs(r, fr.id, d, fr.rtr, fr.brs, fr.fdf)
  BY <1>1, <1>2, <1>3, HeaderSays, Zenon
<1>5. (fr.rtr /\ ~fr.fdf) = fr.rtr  BY <1>3
<1>6. Taken(r) = [id |-> fr.id, fdf |-> fr.fdf, rtr |-> fr.rtr, brs |-> fr.brs,
                  len |-> fr.len]
  BY <1>2, <1>4, <1>5, Zenon DEF Taken, HeaderIs
<1>. QED  BY <1>3, <1>6

-----------------------------------------------------------------------------
(* Every step keeps it.                                                    *)
LEMMA InitCodec == Init => CodecInv
BY CodecInputs DEF Init, CodecInv, FrameInv, ObjInv, BusInv, EndInv

LEMMA MadeStep ==
  ASSUME CodecInv, stage = "new", NEW a, NEW fr, fr # None => Built(fr, a), Made(a, fr)
  PROVE  CodecInv'
BY DEF CodecInv, FrameInv, ObjInv, BusInv, EndInv, Made

LEMMA ConstructorStep ==
  ASSUME CodecInv, NEW id \in Ids, NEW len \in DataLens, NEW b \in BOOLEAN,
         NewClassic(id, len, b) \/ NewFd(id, len, b) \/ NewPadded(id, len, b)
  PROVE  CodecInv'
<1>1. len \in Nat /\ id \in IdType  BY CodecInputs, IdsTyped
<1>2. CASE NewClassic(id, len, b)
  <2>1. PICK a, fr : /\ a = [ctor |-> "classic", len |-> len]
                     /\ fr = IF len > 8 THEN None
                             ELSE [id |-> id, fdf |-> FALSE, rtr |-> b, len |-> len, brs |-> FALSE]
    OBVIOUS
  <2>2. stage = "new" /\ Made(a, fr)  BY <1>2, <2>1, Zenon DEF NewClassic
  <2>3. fr # None => Built(fr, a)  BY <1>1, <2>1 DEF Built, FrameType
  <2>. QED  BY <2>2, <2>3, MadeStep
<1>3. CASE NewFd(id, len, b)
  <2>1. PICK a, fr : /\ a = [ctor |-> "fd", len |-> len]
                     /\ fr = IF FdCodes(len) = {} THEN None
                             ELSE [id |-> id, fdf |-> TRUE, rtr |-> FALSE, len |-> len, brs |-> b]
    OBVIOUS
  <2>2. stage = "new" /\ Made(a, fr)  BY <1>3, <2>1, Zenon DEF NewFd, FdCodes
  <2>3. fr # None => Built(fr, a)  BY <1>1, <2>1 DEF Built, FrameType
  <2>. QED  BY <2>2, <2>3, MadeStep
<1>4. CASE NewPadded(id, len, b)
  <2>1. PICK l : l = CHOOSE k \in padded_dlc_len(len) : TRUE  OBVIOUS
  <2>2. PICK a, fr : /\ a = [ctor |-> "padded", len |-> len]
                     /\ fr = IF padded_dlc_len(len) = {} THEN None
                             ELSE [id |-> id, fdf |-> TRUE, rtr |-> FALSE, brs |-> b, len |-> l]
    OBVIOUS
  <2>3. stage = "new" /\ Made(a, fr)  BY <1>4, <2>1, <2>2, Zenon DEF NewPadded
  <2>4. ASSUME fr # None PROVE Built(fr, a)
    <3>1. l \in padded_dlc_len(len)  BY <2>1, <2>2, <2>4
    <3>2. l \in Nat /\ l >= len /\ FdCodes(l) # {} /\ \A k \in len .. l - 1 : FdCodes(k) = {}
      BY <1>1, <3>1, Padded
    <3>3. a.len = len /\ fr = [id |-> id, fdf |-> TRUE, rtr |-> FALSE, brs |-> b, len |-> l]
      BY <2>2, <2>4
    <3>. QED  BY <1>1, <3>2, <3>3 DEF Built, FrameType
  <2>. QED  BY <2>3, <2>4, MadeStep
<1>. QED  BY <1>2, <1>3, <1>4

LEMMA TransmitStep == ASSUME CodecInv, Transmit PROVE CodecInv'
<1>1. stage = "made" /\ stage' = "object"  BY DEF Transmit
<1>2. frame # None /\ Built(frame, asked)  BY <1>1 DEF CodecInv, FrameInv
<1>3. PICK fr : fr = frame  OBVIOUS
<1>4. PICK dlc \in Codes(fr), esi \in BOOLEAN :
        obj' = [words |-> TxWords([id |-> fr.id, dlc |-> dlc, rtr |-> fr.rtr, brs |-> fr.brs,
                                   fdf |-> fr.fdf, esi |-> esi, seq |-> seq]),
                payload |-> Words(fr)]
  <2>1. PICK dlc \in IF fr.fdf THEN len_to_dlc(fr.len, TRUE) ELSE {fr.len},
             esi \in IF fr.fdf THEN BOOLEAN ELSE {FALSE} :
        obj' = [words |-> TxWords([id |-> fr.id, dlc |-> dlc, rtr |-> fr.rtr, brs |-> fr.brs,
                                   fdf |-> fr.fdf, esi |-> esi, seq |-> seq]),
                payload |-> IF fr.rtr THEN 0 ELSE ((fr.len + 3) \div 4) * 4]
    BY <1>3, Zenon DEF Transmit
  <2>2. dlc \in Codes(fr)  BY <2>1, Zenon DEF Codes, FdCodes
  <2>3. esi \in BOOLEAN  BY <2>1, Zenon
  <2>. QED  BY <2>1, <2>2, <2>3, Zenon DEF Words
<1>5. dlc \in 0 .. 15  BY <1>2, <1>3, CodeRange
<1>6. /\ fr.id \in IdType /\ fr.rtr \in BOOLEAN /\ fr.brs \in BOOLEAN /\ fr.fdf \in BOOLEAN
      /\ seq \in SUBSET (0 .. 22)
  BY <1>2, <1>3 DEF Built, FrameType, CodecInv
<1>7. PICK w : w = TxWords([id |-> fr.id, dlc |-> dlc, rtr |-> fr.rtr, brs |-> fr.brs,
                            fdf |-> fr.fdf, esi |-> esi, seq |-> seq])
  OBVIOUS
<1>8. Says(w, fr.id, dlc, fr.rtr, fr.brs, fr.fdf)
  <2>1. PICK h : h = [id |-> fr.id, dlc |-> dlc, rtr |-> fr.rtr, brs |-> fr.brs,
                      fdf |-> fr.fdf, esi |-> esi, seq |-> seq]
    OBVIOUS
  <2>2. h \in HeaderType  BY <1>5, <1>6, <2>1 DEF HeaderType
  <2>3. Says(TxWords(h), h.id, h.dlc, h.rtr, h.brs, h.fdf)  BY <2>2, TxSays
  <2>4. h.id = fr.id /\ h.dlc = dlc /\ h.rtr = fr.rtr /\ h.brs = fr.brs /\ h.fdf = fr.fdf
    BY <2>1
  <2>. QED  BY <1>7, <2>1, <2>3, <2>4, Zenon
<1>9. SaysFrame(w, fr)  BY <1>8, Zenon DEF SaysFrame
<1>10. obj'.words = w /\ obj'.payload = Words(fr) /\ obj' # None
  BY <1>4, <1>7 DEF None
<1>11. UNCHANGED <<asked, frame, seq, filter, rx, got>>  BY DEF Transmit
<1>12. ObjInv'  BY <1>1, <1>2, <1>3, <1>9, <1>10, <1>11 DEF ObjInv
<1>13. FrameInv' /\ BusInv' /\ EndInv'
  BY <1>1, <1>2, <1>11 DEF CodecInv, FrameInv, BusInv, EndInv
<1>. QED  BY <1>1, <1>11, <1>12, <1>13 DEF CodecInv

LEMMA OnBusStep == ASSUME CodecInv, OnBus PROVE CodecInv'
<1>1. stage = "object" /\ stage' = "bus" /\ UNCHANGED <<asked, frame, seq, filter, obj, got>>
  BY DEF OnBus
<1>2. PICK n : rx' = <<obj.words[1] \cap 0 .. 28,
                       (obj.words[2] \cap 0 .. 7) \cup Shl(Bits(n), 11)>>
  BY DEF OnBus
<1>3. frame # None /\ Built(frame, asked) /\ SaysFrame(obj.words, frame)
  BY <1>1 DEF CodecInv, FrameInv, ObjInv
<1>4. PICK fr, v, w : fr = frame /\ v = obj.words /\ w = rx'  OBVIOUS
<1>5. PICK d \in Codes(fr) : Says(v, fr.id, d, fr.rtr, fr.brs, fr.fdf)
  BY <1>3, <1>4 DEF SaysFrame
<1>6. /\ d \in 0 .. 15 /\ fr.id \in IdType /\ fr.rtr \in BOOLEAN /\ fr.brs \in BOOLEAN
      /\ fr.fdf \in BOOLEAN
  BY <1>3, <1>4, CodeRange DEF Built, FrameType
<1>7. Says(w, fr.id, d, fr.rtr, fr.brs, fr.fdf)
  <2>1. w = <<v[1] \cap 0 .. 28, (v[2] \cap 0 .. 7) \cup Shl(Bits(n), 11)>>
    BY <1>2, <1>4, Zenon
  <2>2. PICK id \in IdType, rtr \in BOOLEAN, brs \in BOOLEAN, fdf \in BOOLEAN :
          id = fr.id /\ rtr = fr.rtr /\ brs = fr.brs /\ fdf = fr.fdf
    BY <1>6
  <2>3. d \in 0 .. 15 /\ Says(v, id, d, rtr, brs, fdf)  BY <1>5, <1>6, <2>2, Zenon
  <2>4. Says(<<v[1] \cap 0 .. 28, (v[2] \cap 0 .. 7) \cup Shl(Bits(n), 11)>>,
             id, d, rtr, brs, fdf)
    BY <2>3, BusSays
  <2>. QED  BY <2>1, <2>2, <2>4, Zenon
<1>8. SaysFrame(w, fr)  BY <1>7, Zenon DEF SaysFrame
<1>9. SaysSome(w)  BY <1>3, <1>4, <1>8, SomeFrame
<1>10. BusInv'  BY <1>1, <1>4, <1>8, <1>9 DEF BusInv
<1>11. FrameInv' /\ ObjInv' /\ EndInv'
  BY <1>1, <1>3 DEF CodecInv, FrameInv, ObjInv, EndInv
<1>. QED  BY <1>1, <1>10, <1>11 DEF CodecInv

LEMMA ForeignStep ==
  ASSUME CodecInv, NEW id \in Ids, NEW dlc \in 0 .. 15, NEW rtr \in BOOLEAN,
         NEW fdf \in BOOLEAN, NEW esi \in BOOLEAN, Foreign(id, dlc, rtr, fdf, esi)
  PROVE  CodecInv'
<1>1. stage = "new" /\ stage' = "bus" /\ UNCHANGED <<frame, seq, filter, obj, got>>
  BY DEF Foreign
<1>2. PICK w : w = rx'  OBVIOUS
<1>3. id \in IdType  BY IdsTyped
<1>4. Says(w, id, dlc, rtr /\ ~fdf, FALSE, fdf)
  BY <1>2, <1>3, ForeignSays, Zenon DEF Foreign
<1>5. SaysSome(w)
  <2>1. (rtr /\ ~fdf) \in BOOLEAN /\ FALSE \in BOOLEAN  OBVIOUS
  <2>. QED  BY <1>3, <1>4, <2>1, Zenon DEF SaysSome
<1>6. frame = None /\ obj = None /\ got = None
  BY <1>1 DEF CodecInv, FrameInv, ObjInv, EndInv
<1>7. BusInv'  BY <1>1, <1>2, <1>5, <1>6 DEF BusInv
<1>8. FrameInv' /\ ObjInv' /\ EndInv'  BY <1>1, <1>6 DEF FrameInv, ObjInv, EndInv
<1>. QED  BY <1>1, <1>7, <1>8 DEF CodecInv

LEMMA EndStep == ASSUME CodecInv, FilterDrops \/ Receive \/ Again PROVE CodecInv'
<1>1. CASE FilterDrops
  BY <1>1 DEF FilterDrops, CodecInv, FrameInv, ObjInv, BusInv, EndInv
<1>2. CASE Receive
  <2>1. got' = Taken(rx)  BY <1>2, Zenon DEF Receive, Taken
  <2>2. /\ stage = "bus" /\ stage' = "received" /\ Matches(rx, filter)
        /\ UNCHANGED <<asked, frame, seq, filter, obj, rx>>
    BY <1>2 DEF Receive
  <2>3. EndInv'  BY <2>1, <2>2 DEF EndInv
  <2>4. FrameInv' /\ ObjInv' /\ BusInv'
    BY <2>2 DEF CodecInv, FrameInv, ObjInv, BusInv
  <2>. QED  BY <2>2, <2>3, <2>4 DEF CodecInv
<1>3. CASE Again
  BY <1>3 DEF Again, CodecInv, FrameInv, ObjInv, BusInv, EndInv
<1>. QED  BY <1>1, <1>2, <1>3

LEMMA StepCodec == CodecInv /\ [Next]_vars => CodecInv'
<1>. SUFFICES ASSUME CodecInv, [Next]_vars PROVE CodecInv'  OBVIOUS
<1>1. CASE \E id \in Ids, len \in DataLens, b \in BOOLEAN :
             NewClassic(id, len, b) \/ NewFd(id, len, b) \/ NewPadded(id, len, b)
  BY <1>1, ConstructorStep
<1>2. CASE \E id \in Ids, dlc \in 0 .. 15, rtr, fdf, esi \in BOOLEAN :
             Foreign(id, dlc, rtr, fdf, esi)
  BY <1>2, ForeignStep
<1>3. CASE UNCHANGED vars
  BY <1>3 DEF vars, CodecInv, FrameInv, ObjInv, BusInv, EndInv
<1>. QED  BY <1>1, <1>2, <1>3, TransmitStep, OnBusStep, EndStep DEF Next

LEMMA CodecHolds == Spec => []CodecInv
BY InitCodec, StepCodec, PTL DEF Spec

-----------------------------------------------------------------------------
(* A frame that was built, sent and received again is the frame that was   *)
(* built, with the length asked for or the next one there is.              *)
THEOREM FramesRoundTrip == Spec => []RoundTrip
<1>1. ASSUME CodecInv, stage = "received", frame # None
      PROVE  /\ got = frame /\ got.len >= asked.len
             /\ \A l \in asked.len .. got.len - 1 : len_to_dlc(l, TRUE) = {}
  <2>1. got = Taken(rx) /\ SaysFrame(rx, frame) /\ Built(frame, asked)
    BY <1>1 DEF CodecInv, EndInv, BusInv, FrameInv
  <2>2. got = frame  BY <2>1, TakenIsBuilt
  <2>3. frame.len >= asked.len /\ \A l \in asked.len .. frame.len - 1 : FdCodes(l) = {}
    BY <2>1, Zenon DEF Built
  <2>. QED  BY <2>2, <2>3, Zenon DEF FdCodes
<1>2. CodecInv => RoundTrip  BY <1>1, Zenon DEF RoundTrip
<1>. QED  BY <1>2, CodecHolds, PTL

(* Object and header agree on the length of the payload.                   *)
THEOREM PayloadFitsDlc == Spec => []PayloadMatchesDlc
<1>1. ASSUME CodecInv, obj # None
      PROVE  \/ RxHeader(obj.words).rtr
             \/ obj.payload \in dlc_to_len(RxHeader(obj.words).dlc, RxHeader(obj.words).fdf)
                   .. dlc_to_len(RxHeader(obj.words).dlc, RxHeader(obj.words).fdf) + 3
  <2>1. PICK fr, v : fr = frame /\ v = obj.words  OBVIOUS
  <2>2. SaysFrame(v, fr) /\ Built(fr, asked) /\ obj.payload = Words(fr)
    BY <1>1, <2>1 DEF CodecInv, FrameInv, ObjInv
  <2>3. PICK h : h = RxHeader(v)  OBVIOUS
  <2>4. Taken(v) = fr /\ Taken(v).len = dlc_to_len(h.dlc, h.fdf)
    BY <2>2, <2>3, TakenIsBuilt DEF Taken
  <2>5. Taken(v).rtr = (h.rtr /\ ~h.fdf)  BY <2>3 DEF Taken
  <2>6. fr.rtr => h.rtr  BY <2>4, <2>5
  <2>7. fr.len \in Nat /\ fr.rtr \in BOOLEAN  BY <2>2 DEF Built, FrameType
  <2>8. ~fr.rtr => obj.payload \in fr.len .. fr.len + 3
    <3>1. \A n \in Nat : ((n + 3) \div 4) * 4 \in n .. n + 3  OBVIOUS
    <3>. QED  BY <2>2, <2>7, <3>1 DEF Words
  <2>. QED  BY <2>1, <2>3, <2>4, <2>6, <2>7, <2>8
<1>2. CodecInv => PayloadMatchesDlc  BY <1>1, Zenon DEF PayloadMatchesDlc
<1>. QED  BY <1>2, CodecHolds, PTL

(* A received frame has a length its kind can have, whatever was sent.     *)
THEOREM ReceivedIsValid == Spec => []ReceivedValid
<1>1. ASSUME CodecInv, got # None
      PROVE  len_to_dlc(got.len, got.fdf) # {} /\ (got.rtr => ~got.fdf)
  <2>1. PICK r, g : r = rx /\ g = got  OBVIOUS
  <2>2. g = Taken(r) /\ SaysSome(r)  BY <1>1, <2>1 DEF CodecInv, EndInv, BusInv
  <2>3. PICK id \in IdType, d \in 0 .. 15, rtr \in BOOLEAN, brs \in BOOLEAN, fdf \in BOOLEAN :
          Says(r, id, d, rtr, brs, fdf)
    BY <2>2, Zenon DEF SaysSome
  <2>4. HeaderIs(r, id, d, rtr, brs, fdf)  BY <2>3, HeaderSays
  <2>5. g.fdf = fdf /\ g.rtr = (rtr /\ ~fdf) /\ g.len = dlc_to_len(d, fdf)
    <3>1. g = [id |-> RxHeader(r).id, fdf |-> RxHeader(r).fdf,
               rtr |-> RxHeader(r).rtr /\ ~RxHeader(r).fdf, brs |-> RxHeader(r).brs,
               len |-> dlc_to_len(RxHeader(r).dlc, RxHeader(r).fdf)]
      BY <2>2, Zenon DEF Taken
    <3>2. /\ g.fdf = RxHeader(r).fdf /\ g.rtr = (RxHeader(r).rtr /\ ~RxHeader(r).fdf)
          /\ g.len = dlc_to_len(RxHeader(r).dlc, RxHeader(r).fdf)
      BY <3>1
    <3>. QED  BY <2>4, <3>2, Zenon DEF HeaderIs
  <2>6. len_to_dlc(dlc_to_len(d, fdf), fdf) # {}
    <3>1. CASE fdf = TRUE
      BY <3>1, LengthHasCode, Zenon DEF FdCodes, FdLen
    <3>2. CASE fdf = FALSE
      BY <3>2, LengthHasCode, Zenon DEF ClassicCodes, ClassicLen
    <3>. QED  BY <3>1, <3>2, Zenon
  <2>7. g.rtr => ~g.fdf  BY <2>5
  <2>. QED  BY <2>1, <2>5, <2>6, <2>7, Zenon
<1>2. CodecInv => ReceivedValid  BY <1>1, Zenon DEF ReceivedValid
<1>. QED  BY <1>2, CodecHolds, PTL

(* A filter accepts what its constructor says of the natural identifier.   *)
THEOREM FiltersMeanIt == Spec => []FilterMeaning
<1>1. ASSUME CodecInv, stage \in {"received", "dropped"}
      PROVE  (stage = "received") <=> Means(filter, unpack_id(rx[1], 4 \in rx[2]))
  <2>1. PICK r : r = rx  OBVIOUS
  <2>2. SaysSome(r) /\ filter \in Filters  BY <1>1, <2>1 DEF CodecInv, BusInv
  <2>3. PICK id \in IdType, d \in 0 .. 15, rtr \in BOOLEAN, brs \in BOOLEAN, fdf \in BOOLEAN :
          Says(r, id, d, rtr, brs, fdf)
    BY <2>2, Zenon DEF SaysSome
  <2>4. HeaderIs(r, id, d, rtr, brs, fdf)  BY <2>3, HeaderSays
  <2>5. unpack_id(r[1], 4 \in r[2]) = id  BY <2>4 DEF HeaderIs, RxHeader
  <2>6. Matches(r, filter) <=> Means(filter, id)  BY <2>2, <2>3, FilterSays
  <2>7. (stage = "received") <=> Matches(r, filter)  BY <1>1, <2>1 DEF CodecInv, EndInv
  <2>. QED  BY <2>1, <2>5, <2>6, <2>7, Zenon
<1>2. CodecInv => FilterMeaning  BY <1>1, Zenon DEF FilterMeaning, Means
<1>. QED  BY <1>2, CodecHolds, PTL
=============================================================================
