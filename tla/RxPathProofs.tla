---------------------------- MODULE RxPathProofs ----------------------------
(***************************************************************************)
(* Proofs about RxPath, for every layout, any frames, any number of them,  *)
(* and any failures: the bounds checks of receive are exact, frames are    *)
(* delivered exact, the FIFOs with receive are the queues of RxChannel,    *)
(* and wait_rx does not spin.                                              *)
(***************************************************************************)
EXTENDS RxPath, TLAPS

-----------------------------------------------------------------------------
(* Two sequences with the same elements are the same; so a longer one is   *)
(* the shorter one with an element appended, and a shorter one the tail.   *)
LEMMA SameSequence ==
  ASSUME NEW S, NEW s \in Seq(S), NEW t \in Seq(S), Len(s) = Len(t),
         \A k \in 1 .. Len(s) : s[k] = t[k]
  PROVE  s = t
  BY SMT

LEMMA AppendIs ==
  ASSUME NEW S, NEW s \in Seq(S), NEW x \in S, NEW t \in Seq(S), Len(t) = Len(s) + 1,
         \A k \in 1 .. Len(s) : t[k] = s[k], t[Len(s) + 1] = x
  PROVE  t = Append(s, x)
<1>1. Append(s, x) \in Seq(S) /\ Len(Append(s, x)) = Len(s) + 1  BY SMT
<1>2. \A k \in 1 .. Len(s) + 1 : Append(s, x)[k] = t[k]  BY SMT
<1>. QED  BY <1>1, <1>2, SameSequence

LEMMA TailIs ==
  ASSUME NEW S, NEW s \in Seq(S), NEW t \in Seq(S), Len(s) = Len(t) + 1,
         \A k \in 1 .. Len(t) : t[k] = s[k + 1]
  PROVE  t = Tail(s)
<1>1. Tail(s) \in Seq(S) /\ Len(Tail(s)) = Len(t)  BY SMT
<1>2. \A k \in 1 .. Len(t) : Tail(s)[k] = t[k]  BY SMT
<1>. QED  BY <1>1, <1>2, SameSequence

-----------------------------------------------------------------------------
(* Quotient and remainder by a number that is not a literal.               *)
LEMMA DivMod ==
  ASSUME NEW d \in Nat \ {0}, NEW a \in Nat
  PROVE  a % d \in 0 .. d - 1 /\ a \div d \in Nat /\ a = d * (a \div d) + (a % d)
  BY SMT

LEMMA TimesMono ==
  ASSUME NEW d \in Nat \ {0}, NEW p \in Int, NEW q \in Int, p < q
  PROVE  d * p \in Int /\ d * q \in Int /\ d * p + d <= d * q
<1>1. q - p - 1 \in Nat  BY SMT
<1>2. \A k \in Nat : d * k >= 0  BY SMT
<1>3. d * (q - p - 1) >= 0  BY <1>1, <1>2
<1>. QED  BY <1>3, SMT

(* Two numbers less than d apart, and congruent, are equal; quotient and   *)
(* remainder are unique.                                                   *)
LEMMA Congruent ==
  ASSUME NEW d \in Nat \ {0}, NEW p \in Int, NEW q \in Int, NEW a \in Int, NEW b \in Int,
         a - b = d * p - d * q, a - b < d, b - a < d
  PROVE  a = b
<1>1. d * p \in Int /\ d * q \in Int  BY SMT
<1>2. ~(p < q)  BY <1>1, TimesMono, SMT
<1>3. ~(q < p)  BY <1>1, TimesMono, SMT
<1>4. p = q  BY <1>2, <1>3, SMT
<1>. QED  BY <1>1, <1>4, SMT

LEMMA ModUnique ==
  ASSUME NEW d \in Nat \ {0}, NEW a \in Nat, NEW q \in Int, NEW r \in 0 .. d - 1, a = d * q + r
  PROVE  a % d = r
<1>1. PICK p \in Nat, t \in 0 .. d - 1 : a = d * p + t /\ a % d = t  BY DivMod
<1>2. d * p \in Int /\ d * q \in Int  BY SMT
<1>3. r - t = d * p - d * q /\ r - t < d /\ t - r < d  BY <1>1, <1>2, SMT
<1>4. r = t  BY <1>3, Congruent
<1>. QED  BY <1>1, <1>4

LEMMA ModZero ==
  ASSUME NEW d \in Nat \ {0}, NEW a \in Nat, a % d = 0
  PROVE  \E q \in Nat : a = d * q
<1>1. PICK p \in Nat, t \in 0 .. d - 1 : a = d * p + t /\ a % d = t  BY DivMod
<1>2. d * p \in Int /\ t = 0  BY <1>1, SMT
<1>3. a = d * p  BY <1>1, <1>2, SMT
<1>. QED  BY <1>3

-----------------------------------------------------------------------------
(* Types; unlike TypeOK these say what the state functions are.            *)
OpType  == [fifo : Fifo, wait : BOOLEAN, woken : BOOLEAN, at : Nat, hdr : Frame, data : Seq(Byte)]
GotType == [hdr : Frame, data : Seq(Byte)]
Element(f) == [hdr : Frame, data : [1 .. PlBytes[f] -> Byte]]

RxType ==
  /\ pc \in {"idle", "status", "header", "data", "uinc", "waiting"}
  /\ op \in OpType
  /\ elems = [f \in Fifo |-> elems[f]]
  /\ \A f \in Fifo : elems[f] \in [0 .. Depth[f] - 1 -> Element(f)]
  /\ tail \in [Fifo -> Nat] /\ \A f \in Fifo : tail[f] < Depth[f]
  /\ count \in [Fifo -> Nat] /\ \A f \in Fifo : count[f] <= Depth[f]
  /\ rxov \in [Fifo -> BOOLEAN]
  /\ stored \in [Fifo -> SUBSET Frame]
  /\ got \in [Fifo -> Seq(GotType)]
  /\ arrived \in Nat /\ errs \in Nat

(* The element of f that is k steps from the tail.                         *)
Elem(f, k) == elems[f][Slot(f, k)]

(* A queued element holds a stored frame, and all the bytes it has.        *)
HoldsFrame(f, e) ==
  /\ e.hdr \in stored[f] /\ e.hdr.len \in Lengths[f]
  /\ ~e.hdr.remote => \A i \in 1 .. PlBytes[f] : i <= e.hdr.len => e.data[i] = <<e.hdr.n, i>>
QueueOk == \A f \in Fifo : \A k \in 0 .. count[f] - 1 : HoldsFrame(f, Elem(f, k))

(* From its status read to its UINC a call reads the oldest element, which *)
(* stays where it is; what it has read is that element's.  So it is where  *)
(* CiFIFOUA reads back as the right address or as one the checks refuse.   *)
CorruptShows == \A ua \in CorruptUA : ua % WordBytes # 0 \/ ua + HdrBytes > RamSize
ReadOk ==
  /\ pc \in {"header", "data", "uinc"} => NotEmpty(op.fifo) /\ op.at = UserAddress(op.fifo)
  /\ pc \in {"data", "uinc"} =>
       /\ op.hdr = Elem(op.fifo, 0).hdr
       /\ op.at + HdrBytes + Padded(op.hdr.len) <= RamSize
  /\ pc = "data" => ~op.hdr.remote /\ op.data = [i \in 1 .. Padded(op.hdr.len) |-> Zero]
  /\ pc = "uinc" => op.data = Delivery(op.hdr).data

GotOk == \A f \in Fifo : \A k \in DOMAIN got[f] :
  got[f][k].hdr \in stored[f] /\ got[f][k] = Delivery(got[f][k].hdr)

RxInv == RxType /\ QueueOk /\ ReadOk /\ GotOk
-----------------------------------------------------------------------------
(* The layout, and the arithmetic of addresses and padded lengths.         *)
Stride(f) == HdrBytes + PlBytes[f]

LEMMA LayoutTypes ==
  ASSUME NEW f \in Fifo
  PROVE  /\ Depth[f] \in Nat \ {0} /\ PlBytes[f] \in Nat /\ Base[f] \in Nat /\ RamSize \in Nat
         /\ WordBytes \in Nat \ {0} /\ HdrBytes = 2 * WordBytes
         /\ HdrBytes \in Nat /\ Stride(f) \in Nat \ {0}
         /\ Base[f] + Depth[f] * Stride(f) <= RamSize
<1>1. /\ Depth[f] \in Nat \ {0} /\ PlBytes[f] \in Nat /\ Base[f] \in Nat /\ RamSize \in Nat
      /\ WordBytes \in Nat \ {0}
      /\ Base[f] + Depth[f] * (HdrBytes + PlBytes[f]) <= RamSize
  BY RxAssumption
<1>2. HdrBytes \in Nat /\ HdrBytes = 2 * WordBytes /\ HdrBytes > 0  BY <1>1, SMT DEF HdrBytes
<1>3. HdrBytes + PlBytes[f] \in Nat \ {0}  BY <1>1, <1>2, SMT
<1>. QED  BY <1>1, <1>2, <1>3 DEF Stride

(* Whole words: the padding adds less than a word, and none to what is     *)
(* whole words already.                                                    *)
LEMMA Padding ==
  ASSUME NEW len \in Nat
  PROVE  /\ Padded(len) \in Nat /\ len <= Padded(len)
         /\ \A f \in Fifo : len <= PlBytes[f] => Padded(len) <= PlBytes[f]
<1>1. PICK W : W = WordBytes  OBVIOUS
<1>2. W \in Nat \ {0}  BY <1>1, RxAssumption
<1>3. len + W - 1 \in Nat  BY <1>2, SMT
<1>4. PICK q \in Nat, r \in 0 .. W - 1 : len + W - 1 = W * q + r /\ (len + W - 1) \div W = q
  BY <1>2, <1>3, DivMod
<1>5. Padded(len) = q * W  BY <1>1, <1>4 DEF Padded
<1>6. q * W = W * q /\ W * q \in Nat  BY <1>2, SMT
<1>7. len <= W * q  BY <1>2, <1>4, <1>6, SMT
<1>8. ASSUME NEW f \in Fifo, len <= PlBytes[f] PROVE W * q <= PlBytes[f]
  <2>1. PlBytes[f] \in Nat /\ PlBytes[f] % W = 0  BY <1>1, RxAssumption
  <2>2. PICK p \in Nat : PlBytes[f] = W * p  BY <1>2, <2>1, ModZero
  <2>3. W * p \in Nat  BY <1>2, SMT
  <2>4. ~(p < q)
    <3>. SUFFICES ASSUME p < q PROVE FALSE  OBVIOUS
    <3>1. W * p + W <= W * q  BY <1>2, TimesMono
    <3>. QED  BY <1>2, <1>4, <1>6, <1>8, <2>2, <2>3, <3>1, SMT
  <2>5. CASE q = p  BY <2>2, <2>3, <2>5, SMT
  <2>6. CASE q < p
    <3>1. W * q + W <= W * p  BY <1>2, <2>6, TimesMono
    <3>. QED  BY <1>2, <1>6, <2>2, <2>3, <3>1, SMT
  <2>. QED  BY <2>4, <2>5, <2>6, SMT
<1>. QED  BY <1>5, <1>6, <1>7, <1>8

(* The tail element of f lies in the RAM, on a word boundary.              *)
LEMMA TailElement ==
  ASSUME NEW f \in Fifo, tail[f] \in Nat, tail[f] < Depth[f]
  PROVE  /\ UserAddress(f) \in Nat /\ UserAddress(f) + Stride(f) <= RamSize
         /\ UserAddress(f) % WordBytes = 0
<1>. PICK t, d, s, b : t = tail[f] /\ d = Depth[f] /\ s = Stride(f) /\ b = Base[f]  OBVIOUS
<1>1. t \in Nat /\ d \in Nat /\ t < d /\ s \in Nat \ {0} /\ b \in Nat /\ RamSize \in Nat
      /\ b + d * s <= RamSize
  BY LayoutTypes
<1>2. UserAddress(f) = b + t * s  BY DEF UserAddress, Stride
<1>3. t * s \in Nat /\ t * s = s * t /\ d * s = s * d /\ d * s \in Nat  BY <1>1, SMT
<1>4. s * t + s <= s * d  BY <1>1, TimesMono, SMT
<1>5. b + t * s \in Nat /\ (b + t * s) + s <= RamSize  BY <1>1, <1>3, <1>4, SMT
<1>7. (b + t * s) % WordBytes = 0
  <2>. PICK W, l : W = WordBytes /\ l = PlBytes[f]  OBVIOUS
  <2>1. W \in Nat \ {0} /\ s = 2 * W + l /\ l \in Nat  BY LayoutTypes DEF Stride
  <2>2. l % W = 0 /\ b % W = 0  BY RxAssumption
  <2>3. PICK p \in Nat : l = W * p  BY <2>1, <2>2, ModZero
  <2>4. PICK q \in Nat : b = W * q  BY <1>1, <2>1, <2>2, ModZero
  <2>5. b + t * s = W * (q + t * (2 + p)) + 0  BY <1>1, <2>1, <2>3, <2>4, SMT
  <2>6. q + t * (2 + p) \in Int /\ 0 \in 0 .. W - 1  BY <1>1, <2>1, SMT
  <2>. QED  BY <1>5, <2>1, <2>5, <2>6, ModUnique
<1>. QED  BY <1>2, <1>5, <1>7
-----------------------------------------------------------------------------
(* The ring of elements, and what steps do to it.                          *)
LEMMA OpFacts ==
  ASSUME RxType
  PROVE  /\ op.fifo \in Fifo /\ op.wait \in BOOLEAN /\ op.woken \in BOOLEAN
         /\ op.at \in Nat /\ op.hdr \in Frame /\ op.data \in Seq(Byte)
  BY DEF RxType, OpType

LEMMA FifoFacts ==
  ASSUME RxType, NEW f \in Fifo
  PROVE  /\ tail[f] \in Nat /\ tail[f] < Depth[f] /\ Depth[f] \in Nat \ {0}
         /\ count[f] \in Nat /\ count[f] <= Depth[f]
         /\ Slot(f, 0) = tail[f] /\ Slot(f, 0) \in 0 .. Depth[f] - 1
<1>1. /\ tail[f] \in Nat /\ tail[f] < Depth[f] /\ Depth[f] \in Nat \ {0}
      /\ count[f] \in Nat /\ count[f] <= Depth[f]
  BY LayoutTypes DEF RxType
<1>. QED  BY <1>1, SMT DEF Slot

LEMMA SlotRange ==
  ASSUME RxType, NEW f \in Fifo, NEW k \in 0 .. Depth[f] - 1
  PROVE  Slot(f, k) \in 0 .. Depth[f] - 1
  BY FifoFacts, SMT DEF Slot

LEMMA SlotDistinct ==
  ASSUME RxType, NEW f \in Fifo, NEW k \in 0 .. Depth[f] - 1, NEW l \in 0 .. Depth[f] - 1, k # l
  PROVE  Slot(f, k) # Slot(f, l)
  BY FifoFacts, SMT DEF Slot

LEMMA PopShifts ==
  ASSUME RxType, NEW f \in Fifo, PopFifo(f), NEW k \in 0 .. Depth[f] - 2
  PROVE  Slot(f, k)' = Slot(f, k + 1)
<1>1. tail'[f] = Slot(f, 1)  BY DEF PopFifo, RxType
<1>2. tail[f] \in Nat /\ tail[f] < Depth[f] /\ Depth[f] \in Nat \ {0}  BY FifoFacts
<1>. QED  BY <1>1, <1>2, SMT DEF Slot

LEMMA ElemType ==
  ASSUME RxType, NEW f \in Fifo, NEW k \in 0 .. Depth[f] - 1
  PROVE  Elem(f, k) \in Element(f) /\ Elem(f, k).hdr \in Frame
<1>1. Slot(f, k) \in 0 .. Depth[f] - 1  BY SlotRange
<1>2. elems[f] \in [0 .. Depth[f] - 1 -> Element(f)]  BY DEF RxType
<1>. QED  BY <1>1, <1>2 DEF Elem, Element

LEMMA OldestIs ==
  ASSUME RxType, NEW f \in Fifo, f = op.fifo
  PROVE  Oldest = Elem(f, 0)
  BY FifoFacts DEF Oldest, Elem

(* A call that has read the status of its FIFO reads its oldest element.   *)
LEMMA Reading ==
  ASSUME RxInv, pc \in {"header", "data", "uinc"}, NEW f \in Fifo, f = op.fifo
  PROVE  /\ NotEmpty(f) /\ op.at = UserAddress(f) /\ Oldest = Elem(f, 0)
         /\ op.at + Stride(f) <= RamSize
         /\ 0 \in 0 .. count[f] - 1 /\ 0 \in 0 .. Depth[f] - 1
         /\ Elem(f, 0) \in Element(f) /\ Elem(f, 0).hdr \in Frame
         /\ HoldsFrame(f, Elem(f, 0))
<1>. USE DEF RxInv
<1>1. NotEmpty(f) /\ op.at = UserAddress(f)  BY DEF ReadOk
<1>2. 0 \in 0 .. count[f] - 1 /\ 0 \in 0 .. Depth[f] - 1
  BY <1>1, FifoFacts, SMT DEF NotEmpty
<1>3. op.at + Stride(f) <= RamSize  BY <1>1, FifoFacts, TailElement
<1>4. Oldest = Elem(f, 0)  BY OldestIs
<1>5. HoldsFrame(f, Elem(f, 0))  BY <1>2 DEF QueueOk
<1>. QED  BY <1>1, <1>2, <1>3, <1>4, <1>5, ElemType

LEMMA ZeroBytes ==
  ASSUME NEW n \in Nat
  PROVE  [i \in 1 .. n |-> Zero] \in Seq(Byte) /\ DOMAIN [i \in 1 .. n |-> Zero] = 1 .. n
<1>1. Zero \in Byte  BY SMT DEF Zero, Byte
<1>2. PICK z : z = Zero  OBVIOUS
<1>3. [i \in 1 .. n |-> z] \in Seq(Byte)  BY <1>1, <1>2, SMT
<1>. QED  BY <1>2, <1>3

(* What the chip does with the element it stores a frame in.               *)
StoredIn(f, fr, s) ==
  /\ s \in 0 .. Depth[f] - 1
  /\ elems' = [g \in Fifo |-> elems'[g]]
  /\ \A g \in Fifo : elems'[g] \in [0 .. Depth[g] - 1 -> Element(g)]
  /\ \A g \in Fifo \ {f} : elems'[g] = elems[g]
  /\ \A k \in (0 .. Depth[f] - 1) \ {s} : elems'[f][k] = elems[f][k]
  /\ elems'[f][s].hdr = fr
  /\ ~fr.remote => \A i \in 1 .. PlBytes[f] : i <= fr.len => elems'[f][s].data[i] = <<fr.n, i>>

LEMMA StoreFrame ==
  ASSUME RxType, NEW f \in Fifo, NEW fr \in Frame, count[f] < Depth[f], Store(f, fr),
         NEW s, s = Slot(f, count[f])
  PROVE  StoredIn(f, fr, s)
<1>1. PICK e, x : e = elems[f] /\ x = e[s]  OBVIOUS
<1>2. s \in 0 .. Depth[f] - 1
  <2>1. count[f] \in 0 .. Depth[f] - 1  BY FifoFacts, SMT
  <2>. QED  BY <2>1, SlotRange
<1>3. e \in [0 .. Depth[f] - 1 -> Element(f)] /\ x \in Element(f)  BY <1>1, <1>2 DEF RxType
<1>4. x.data \in [1 .. PlBytes[f] -> Byte] /\ DOMAIN x.data = 1 .. PlBytes[f]
  BY <1>3 DEF Element
<1>5. fr.n \in Nat /\ fr.len \in Nat /\ fr.remote \in BOOLEAN  BY DEF Frame
<1>6. PICK b : b = IF fr.remote THEN 0 ELSE fr.len  OBVIOUS
<1>7. PICK d : d = [i \in DOMAIN x.data |-> IF i <= b THEN <<fr.n, i>> ELSE x.data[i]]  OBVIOUS
<1>8. d \in [1 .. PlBytes[f] -> Byte]
  <2>1. \A i \in 1 .. PlBytes[f] : <<fr.n, i>> \in Byte /\ x.data[i] \in Byte
    BY <1>4, <1>5, LayoutTypes, SMT DEF Byte
  <2>. QED  BY <1>4, <1>7, <2>1
<1>9. PICK y : y = [hdr |-> fr, data |-> d]  OBVIOUS
<1>10. y \in Element(f) /\ y.hdr = fr /\ y.data = d  BY <1>8, <1>9 DEF Element
<1>11. elems' = [elems EXCEPT ![f] = [e EXCEPT ![s] = y]]
  BY <1>1, <1>6, <1>7, <1>9 DEF Store
<1>12. elems = [g \in Fifo |-> elems[g]]  BY DEF RxType
<1>13. elems'[f] = [e EXCEPT ![s] = y] /\ \A g \in Fifo \ {f} : elems'[g] = elems[g]
  BY <1>11, <1>12
<1>14. elems' = [g \in Fifo |-> elems'[g]]  BY <1>11, <1>12
<1>15. elems'[f] \in [0 .. Depth[f] - 1 -> Element(f)]  BY <1>3, <1>10, <1>13
<1>16. elems'[f][s] = y  BY <1>2, <1>3, <1>13
<1>17. \A k \in (0 .. Depth[f] - 1) \ {s} : elems'[f][k] = elems[f][k]  BY <1>1, <1>3, <1>13
<1>18. ~fr.remote => \A i \in 1 .. PlBytes[f] : i <= fr.len => d[i] = <<fr.n, i>>
  BY <1>4, <1>6, <1>7
<1>19. \A g \in Fifo : elems'[g] \in [0 .. Depth[g] - 1 -> Element(g)]
  BY <1>13, <1>15 DEF RxType
<1>. QED  BY <1>2, <1>10, <1>13, <1>14, <1>16, <1>17, <1>18, <1>19 DEF StoredIn
-----------------------------------------------------------------------------
(* An arriving frame leaves the queued elements alone, and becomes the     *)
(* newest of them or is dropped.                                           *)
Stores(f, fr) ==
  /\ count[f] < Depth[f] /\ Store(f, fr)
  /\ count' = [count EXCEPT ![f] = @ + 1]
  /\ stored' = [stored EXCEPT ![f] = @ \cup {fr}]
  /\ UNCHANGED <<driverVars, tail, rxov, got, errs>>
Drops(f) ==
  /\ count[f] = Depth[f] /\ rxov' = [rxov EXCEPT ![f] = TRUE]
  /\ UNCHANGED <<driverVars, elems, tail, count, stored, got, errs>>

LEMMA ArriveKinds ==
  ASSUME RxType, NEW f \in Fifo, NEW remote \in BOOLEAN, NEW len \in Lengths[f],
         Arrive(f, remote, len)
  PROVE  /\ arrived < MaxFrames /\ arrived' = arrived + 1
         /\ \E fr \in FramesOf(f, arrived + 1) :
              fr \in Frame /\ fr.len \in Lengths[f] /\ (Stores(f, fr) \/ Drops(f))
<1>1. PICK fr : fr = [n |-> arrived + 1, remote |-> remote, len |-> len]  OBVIOUS
<1>2. fr \in FramesOf(f, arrived + 1) /\ fr.len = len  BY <1>1 DEF FramesOf
<1>3. fr \in Frame
  <2>1. arrived + 1 \in Nat  BY SMT DEF RxType
  <2>2. len \in Nat  BY RxAssumption
  <2>. QED  BY <1>1, <2>1, <2>2 DEF Frame
<1>4. Stores(f, fr) \/ Drops(f)
  BY <1>1 DEF Arrive, Stores, Drops
<1>5. arrived < MaxFrames /\ arrived' = arrived + 1  BY DEF Arrive
<1>. QED  BY <1>2, <1>3, <1>4, <1>5

(* Frame fr is now the newest element, number c, of f.                     *)
Grown(f, fr, c) ==
  /\ count' \in [Fifo -> Nat] /\ count'[f] = c + 1
  /\ \A g \in Fifo \ {f} : count'[g] = count[g] /\ stored'[g] = stored[g]
  /\ \A g \in Fifo : count'[g] <= Depth[g]
  /\ stored' \in [Fifo -> SUBSET Frame] /\ stored'[f] = stored[f] \cup {fr}
  /\ elems' = [g \in Fifo |-> elems'[g]]
  /\ \A g \in Fifo : elems'[g] \in [0 .. Depth[g] - 1 -> Element(g)]
  /\ \A g \in Fifo : \A k \in 0 .. count[g] - 1 : Elem(g, k)' = Elem(g, k)
  /\ Elem(f, c)'.hdr = fr
  /\ ~fr.remote => \A i \in 1 .. PlBytes[f] : i <= fr.len => Elem(f, c)'.data[i] = <<fr.n, i>>

LEMMA StoreElems ==
  ASSUME RxType, NEW f \in Fifo, NEW fr \in Frame, Stores(f, fr), NEW c, c = count[f]
  PROVE  Grown(f, fr, c)
<1>1. PICK s : s = Slot(f, count[f])  OBVIOUS
<1>2. c \in 0 .. Depth[f] - 1 /\ c \in Nat /\ Depth[f] \in Nat  BY <1>1, FifoFacts, SMT DEF Stores
<1>3. StoredIn(f, fr, s)
  <2>1. count[f] < Depth[f] /\ Store(f, fr)  BY DEF Stores
  <2>. QED  BY <1>1, <2>1, StoreFrame
<1>4. /\ count' \in [Fifo -> Nat] /\ count'[f] = c + 1
      /\ \A g \in Fifo \ {f} : count'[g] = count[g] /\ stored'[g] = stored[g]
      /\ stored' \in [Fifo -> SUBSET Frame] /\ stored'[f] = stored[f] \cup {fr}
  BY <1>1, <1>2 DEF RxType, Stores
<1>5. \A g \in Fifo : count'[g] <= Depth[g]
  BY <1>2, <1>4, FifoFacts, SMT
<1>6. tail' = tail  BY DEF Stores
<1>7. Elem(f, c)' = elems'[f][s]  BY <1>1, <1>6 DEF Elem, Slot
<1>8. ASSUME NEW g \in Fifo, NEW k \in 0 .. count[g] - 1 PROVE Elem(g, k)' = Elem(g, k)
  <2>1. Elem(g, k)' = elems'[g][Slot(g, k)]  BY <1>6 DEF Elem, Slot
  <2>2. CASE g # f  BY <1>3, <2>1, <2>2 DEF Elem, StoredIn
  <2>3. CASE g = f
    <3>1. k \in 0 .. Depth[f] - 1 /\ k # c  BY <1>1, <1>2, <2>3, SMT
    <3>2. Slot(f, k) # s /\ Slot(f, k) \in 0 .. Depth[f] - 1
      BY <1>1, <1>2, <3>1, SlotDistinct, SlotRange
    <3>. QED  BY <1>3, <2>1, <2>3, <3>2 DEF Elem, StoredIn
  <2>. QED  BY <2>2, <2>3
<1>. QED  BY <1>1, <1>3, <1>4, <1>5, <1>7, <1>8 DEF StoredIn, Grown

(* What a step that frees the oldest element of f does.                    *)
LEMMA PopElems ==
  ASSUME RxType, NEW f \in Fifo, NotEmpty(f), PopFifo(f), elems' = elems
  PROVE  /\ tail' \in [Fifo -> Nat] /\ \A g \in Fifo : tail'[g] < Depth[g]
         /\ count' \in [Fifo -> Nat] /\ \A g \in Fifo : count'[g] <= Depth[g]
         /\ count'[f] = count[f] - 1
         /\ \A g \in Fifo \ {f} : tail'[g] = tail[g] /\ count'[g] = count[g]
         /\ \A g \in Fifo \ {f} : \A k \in Nat : Elem(g, k)' = Elem(g, k)
         /\ \A k \in 0 .. count[f] - 2 : Elem(f, k)' = Elem(f, k + 1)
<1>1. PICK c, t, d : c = count[f] /\ t = Slot(f, 1) /\ d = Depth[f]  OBVIOUS
<1>2. c \in Nat /\ c > 0 /\ c <= d /\ d \in Nat  BY <1>1, FifoFacts DEF NotEmpty
<1>3. t \in Nat /\ t < d  BY <1>1, FifoFacts, SMT DEF Slot
<1>4. /\ tail' = [tail EXCEPT ![f] = t] /\ count' = [count EXCEPT ![f] = c - 1]
  BY <1>1 DEF PopFifo
<1>5. c - 1 \in Nat /\ c - 1 <= d  BY <1>2, SMT
<1>6. /\ tail' \in [Fifo -> Nat] /\ tail'[f] = t
      /\ count' \in [Fifo -> Nat] /\ count'[f] = c - 1
      /\ \A g \in Fifo \ {f} : tail'[g] = tail[g] /\ count'[g] = count[g]
  BY <1>3, <1>4, <1>5 DEF RxType
<1>7. \A g \in Fifo : tail'[g] < Depth[g] /\ count'[g] <= Depth[g]
  BY <1>1, <1>3, <1>5, <1>6, FifoFacts
<1>8. \A g \in Fifo \ {f} : \A k \in Nat : Elem(g, k)' = Elem(g, k)
  BY <1>6 DEF Elem, Slot
<1>9. ASSUME NEW k \in 0 .. c - 2 PROVE Elem(f, k)' = Elem(f, k + 1)
  <2>1. k \in 0 .. Depth[f] - 2  BY <1>1, <1>2, SMT
  <2>2. Slot(f, k)' = Slot(f, k + 1)  BY <2>1, PopShifts
  <2>. QED  BY <2>2 DEF Elem
<1>. QED  BY <1>1, <1>6, <1>7, <1>8, <1>9
-----------------------------------------------------------------------------
(* Types are kept, whatever the call has read.                             *)
LEMMA NoOpType == NoOp \in OpType
<1>1. (CHOOSE f \in Fifo : TRUE) \in Fifo  BY RxAssumption
<1>2. Nothing \in Frame /\ <<>> \in Seq(Byte) /\ 0 \in Nat  BY SMT DEF Nothing, Frame
<1>. QED  BY <1>1, <1>2 DEF NoOp, OpType

LEMMA ArriveTypes ==
  ASSUME RxType, NEW f \in Fifo, NEW remote \in BOOLEAN, NEW len \in Lengths[f],
         Arrive(f, remote, len)
  PROVE  /\ RxType' /\ UNCHANGED <<pc, op>>
         /\ \A h \in Fifo : NotEmpty(h) => NotEmpty(h)'
<1>1. arrived' \in Nat  BY ArriveKinds, SMT DEF RxType
<1>2. PICK fr \in Frame : fr.len \in Lengths[f] /\ (Stores(f, fr) \/ Drops(f))  BY ArriveKinds
<1>3. CASE Drops(f)
  <2>1. UNCHANGED <<pc, op, elems, tail, count, stored, got, errs>> /\ rxov' \in [Fifo -> BOOLEAN]
    BY <1>3 DEF Drops, driverVars, RxType
  <2>. QED  BY <1>1, <2>1 DEF RxType, NotEmpty
<1>4. CASE Stores(f, fr)
  <2>. PICK c : c = count[f]  OBVIOUS
  <2>1. UNCHANGED <<pc, op, tail, rxov, got, errs>>  BY <1>4 DEF Stores, driverVars
  <2>2. Grown(f, fr, c)  BY <1>4, StoreElems
  <2>3. RxType'  BY <1>1, <2>1, <2>2 DEF RxType, Grown
  <2>4. ASSUME NEW h \in Fifo, NotEmpty(h) PROVE NotEmpty(h)'
    <3>1. c \in Nat  BY FifoFacts
    <3>2. count'[h] = count[h] \/ count'[h] = c + 1  BY <2>2 DEF Grown
    <3>. QED  BY <2>4, <3>1, <3>2, SMT DEF NotEmpty
  <2>. QED  BY <2>1, <2>3, <2>4
<1>. QED  BY <1>2, <1>3, <1>4

LEMMA PopTypes ==
  ASSUME RxType, NEW f \in Fifo, NotEmpty(f), PopFifo(f), Abort,
         UNCHANGED <<elems, rxov, arrived, stored>>,
         got' \in [Fifo -> Seq(GotType)], errs' \in Nat
  PROVE  RxType'
<1>1. /\ tail' \in [Fifo -> Nat] /\ \A g \in Fifo : tail'[g] < Depth[g]
      /\ count' \in [Fifo -> Nat] /\ \A g \in Fifo : count'[g] <= Depth[g]
  BY PopElems
<1>2. pc' = "idle" /\ op' \in OpType  BY NoOpType DEF Abort
<1>. QED  BY <1>1, <1>2 DEF RxType

LEMMA RegisterTypes ==
  ASSUME RxType, NEW f \in Fifo, ClearRxOverflow(f) \/ ResetFifo(f)
  PROVE  /\ RxType'
         /\ \A g \in Fifo : (tail'[g] = tail[g] /\ count'[g] = count[g])
                             \/ (tail'[g] = 0 /\ count'[g] = 0)
<1>1. UNCHANGED <<driverVars, elems, history>>  BY DEF ClearRxOverflow, ResetFifo
<1>2. /\ tail' \in [Fifo -> Nat] /\ count' \in [Fifo -> Nat] /\ rxov' \in [Fifo -> BOOLEAN]
      /\ \A g \in Fifo : (tail'[g] = tail[g] /\ count'[g] = count[g])
                        \/ (tail'[g] = 0 /\ count'[g] = 0)
  <2>1. /\ tail \in [Fifo -> Nat] /\ count \in [Fifo -> Nat] /\ rxov \in [Fifo -> BOOLEAN]
        /\ 0 \in Nat
    BY SMT DEF RxType
  <2>2. CASE ClearRxOverflow(f)  BY <2>1, <2>2 DEF ClearRxOverflow
  <2>3. CASE ResetFifo(f)  BY <2>1, <2>3 DEF ResetFifo
  <2>. QED  BY <2>2, <2>3
<1>3. \A g \in Fifo : tail'[g] < Depth[g] /\ count'[g] <= Depth[g]
  <2>1. \A g \in Fifo : 0 < Depth[g] /\ 0 <= Depth[g]  BY LayoutTypes, SMT
  <2>. QED  BY <1>2, <2>1 DEF RxType
<1>. QED  BY <1>1, <1>2, <1>3 DEF RxType, driverVars, history

LEMMA Popped ==
  ASSUME RxType, NEW f \in Fifo, f = op.fifo, WriteUinc
  PROVE  got' \in [Fifo -> Seq(GotType)]
<1>1. PICK x, s : x = [hdr |-> op.hdr, data |-> op.data] /\ s = got[f]  OBVIOUS
<1>2. x \in GotType  BY <1>1, OpFacts DEF GotType
<1>3. s \in Seq(GotType)  BY <1>1 DEF RxType
<1>4. Append(s, x) \in Seq(GotType)  BY <1>2, <1>3, SMT
<1>5. got' = [got EXCEPT ![f] = Append(s, x)]  BY <1>1 DEF WriteUinc
<1>. QED  BY <1>4, <1>5 DEF RxType

-----------------------------------------------------------------------------
(* What the bounds checks give, whatever CiFIFOUA reads back as.           *)
InBounds ==
  /\ pc \in {"header", "data", "uinc"} => NotEmpty(op.fifo)
  /\ pc \in {"header", "data"} => op.at % WordBytes = 0 /\ op.at + HdrBytes <= RamSize
  /\ pc = "data" => op.at + HdrBytes + Padded(op.hdr.len) <= RamSize
BoundsInv == RxType /\ InBounds

LEMMA BoundsStill ==
  ASSUME RxType, UNCHANGED <<chipVars, history>>, op' \in OpType, InBounds',
         pc' \in {"idle", "status", "header", "data", "uinc", "waiting"}
  PROVE  BoundsInv'
<1>1. UNCHANGED <<elems, tail, count, rxov, arrived, stored, got, errs>>  BY DEF chipVars, history
<1>. QED  BY <1>1 DEF RxType, BoundsInv

LEMMA BoundsApart ==
  ASSUME RxType, UNCHANGED <<chipVars, history>>, op' \in OpType,
         pc' \in {"idle", "status", "waiting"}
  PROVE  BoundsInv'
<1>1. InBounds'  BY DEF InBounds
<1>. QED  BY <1>1, BoundsStill

LEMMA StatusKeepsBounds == ASSUME BoundsInv, StatusOk \/ StatusMisread PROVE BoundsInv'
<1>1. PICK a \in Nat : PlausibleUA(a) /\ op' = [op EXCEPT !.at = a]
  <2>1. UserAddress(op.fifo) \in Nat  BY OpFacts, FifoFacts, TailElement DEF BoundsInv
  <2>2. CorruptUA \subseteq Nat  BY RxAssumption
  <2>. QED  BY <2>1, <2>2 DEF StatusOk, StatusMisread
<1>2. NotEmpty(op.fifo) /\ pc' = "header" /\ UNCHANGED <<chipVars, history>>
  BY DEF StatusOk, StatusMisread
<1>3. op' \in OpType /\ op'.at = a /\ op'.fifo = op.fifo
  BY <1>1 DEF BoundsInv, RxType, OpType
<1>4. InBounds'
  BY <1>1, <1>2, <1>3 DEF InBounds, PlausibleUA, NotEmpty, chipVars
<1>. QED  BY <1>2, <1>3, <1>4, BoundsStill DEF BoundsInv

LEMMA HeadersAreFrames == ASSUME RxType PROVE Headers \subseteq Frame
<1>1. PICK f \in Fifo : f = op.fifo  BY OpFacts
<1>2. Oldest.hdr \in Frame
  <2>1. 0 \in 0 .. Depth[f] - 1  BY FifoFacts, SMT
  <2>. QED  BY <1>1, <2>1, OldestIs, ElemType
<1>3. [n : {0}, remote : BOOLEAN, len : DlcLengths] \subseteq Frame
  <2>1. {0} \subseteq Nat /\ DlcLengths \subseteq Nat  BY RxAssumption, SMT
  <2>. QED  BY <2>1 DEF Frame
<1>. QED  BY <1>2, <1>3 DEF Headers

LEMMA HeaderKeepsBounds == ASSUME BoundsInv, ReadHeader PROVE BoundsInv'
<1>1. PICK h \in Headers :
        /\ EndsInRam(op.at, h.len)
        /\ op' = [op EXCEPT !.hdr = h, !.data = [i \in 1 .. Padded(h.len) |-> Zero]]
        /\ pc' = IF h.len > 0 /\ ~h.remote THEN "data" ELSE "uinc"
  BY DEF ReadHeader
<1>2. PICK z : z = [i \in 1 .. Padded(h.len) |-> Zero]  OBVIOUS
<1>3. h \in Frame /\ h.len \in Nat  BY HeadersAreFrames DEF BoundsInv, Frame
<1>4. z \in Seq(Byte)  BY <1>2, <1>3, Padding, ZeroBytes
<1>5. op' = [op EXCEPT !.hdr = h, !.data = z]  BY <1>1, <1>2
<1>6. op' \in OpType /\ op'.hdr = h /\ op'.at = op.at /\ op'.fifo = op.fifo
  BY <1>3, <1>4, <1>5 DEF BoundsInv, RxType, OpType
<1>7. pc = "header" /\ pc' \in {"data", "uinc"} /\ UNCHANGED <<chipVars, history>>
  BY <1>1 DEF ReadHeader
<1>8. Padded(op.hdr.len)' = Padded(h.len)  BY <1>6 DEF Padded
<1>9. InBounds'
  BY <1>1, <1>6, <1>7, <1>8 DEF BoundsInv, InBounds, EndsInRam, NotEmpty, chipVars
<1>. QED  BY <1>6, <1>7, <1>9, BoundsStill DEF BoundsInv

LEMMA DataKeepsBounds == ASSUME BoundsInv, ReadData PROVE BoundsInv'
<1>1. PICK f \in Fifo : f = op.fifo  BY OpFacts DEF BoundsInv
<1>2. PICK d : d = [i \in DOMAIN op.data |-> IF i > op.hdr.len THEN Zero ELSE ByteRead(i)]
  OBVIOUS
<1>3. op' = [op EXCEPT !.data = d] /\ pc' = "uinc" /\ pc = "data" /\ UNCHANGED <<chipVars, history>>
  BY <1>2 DEF ReadData
<1>4. PICK e : e = Oldest.data  OBVIOUS
<1>5. e \in [1 .. PlBytes[f] -> Byte]
  <2>1. 0 \in 0 .. Depth[f] - 1  BY FifoFacts, SMT DEF BoundsInv
  <2>. QED  BY <1>1, <1>4, <2>1, OldestIs, ElemType DEF BoundsInv, Element
<1>6. Junk \in Byte /\ Zero \in Byte  BY SMT DEF Junk, Zero, Byte
<1>7. \A i \in DOMAIN op.data : ByteRead(i) \in Byte  BY <1>4, <1>5, <1>6 DEF ByteRead
<1>8. d \in Seq(Byte)
  <2>1. PICK n \in Nat : DOMAIN op.data = 1 .. n
    <3>1. PICK t : t = op.data  OBVIOUS
    <3>2. t \in Seq(Byte)  BY <3>1, OpFacts DEF BoundsInv
    <3>3. Len(t) \in Nat /\ DOMAIN t = 1 .. Len(t)  BY <3>2, SMT
    <3>. QED  BY <3>1, <3>3
  <2>2. d \in [1 .. n -> Byte]  BY <1>2, <1>6, <1>7, <2>1
  <2>. QED  BY <2>2, SMT
<1>9. op' \in OpType /\ op'.fifo = op.fifo  BY <1>3, <1>8 DEF BoundsInv, RxType, OpType
<1>10. InBounds'  BY <1>3, <1>9 DEF BoundsInv, InBounds, NotEmpty, chipVars
<1>. QED  BY <1>3, <1>9, <1>10, BoundsStill DEF BoundsInv

LEMMA UincKeepsBounds == ASSUME BoundsInv, WriteUinc \/ UincLost \/ UincLate PROVE BoundsInv'
<1>1. PICK f \in Fifo : f = op.fifo  BY OpFacts DEF BoundsInv
<1>2. NotEmpty(f) /\ pc' = "idle" /\ op' \in OpType
  BY <1>1, NoOpType DEF BoundsInv, InBounds, WriteUinc, UincLost, UincLate, Abort
<1>3. InBounds'  BY <1>2 DEF InBounds
<1>4. errs' \in Nat  BY SMT DEF WriteUinc, UincLost, UincLate, BoundsInv, RxType
<1>5. got' \in [Fifo -> Seq(GotType)]
  <2>1. CASE WriteUinc  BY <1>1, <2>1, Popped DEF BoundsInv
  <2>2. CASE UincLost \/ UincLate  BY <2>2 DEF UincLost, UincLate, BoundsInv, RxType
  <2>. QED  BY <2>1, <2>2
<1>6. RxType'
  <2>1. CASE WriteUinc \/ UincLate
    BY <1>1, <1>2, <1>4, <1>5, <2>1, PopTypes DEF BoundsInv, WriteUinc, UincLate
  <2>2. CASE UincLost
    <3>1. UNCHANGED <<elems, tail, count, rxov, arrived, stored>>  BY <2>2 DEF UincLost, chipVars
    <3>. QED  BY <1>2, <1>4, <1>5, <3>1 DEF BoundsInv, RxType
  <2>. QED  BY <2>1, <2>2
<1>. QED  BY <1>3, <1>6 DEF BoundsInv

LEMMA BoundsStep == ASSUME BoundsInv, [Next]_vars PROVE BoundsInv'
<1>. USE DEF BoundsInv
<1>1. CASE ReadFails \/ StatusRefused \/ ReadRefused \/ PinFails \/ DropWait
  <2>1. pc' = "idle" /\ op' \in OpType /\ UNCHANGED <<chipVars, history>>
    BY <1>1, NoOpType DEF ReadFails, StatusRefused, ReadRefused, PinFails, DropWait, Abort
  <2>. QED  BY <2>1, BoundsApart
<1>2. ASSUME NEW f \in Fifo, Receive(f) \/ WaitRx(f) PROVE BoundsInv'
  <2>1. [NoOp EXCEPT !.fifo = f] \in OpType /\ [NoOp EXCEPT !.fifo = f, !.wait = TRUE] \in OpType
    BY NoOpType DEF OpType
  <2>. QED  BY <1>2, <2>1, BoundsApart DEF Receive, WaitRx
<1>3. CASE StatusEmpty
  <2>1. [op EXCEPT !.woken = FALSE] \in OpType  BY DEF RxType, OpType
  <2>2. op' \in OpType /\ pc' \in {"idle", "waiting"} /\ UNCHANGED <<chipVars, history>>
    BY <1>3, <2>1, NoOpType DEF StatusEmpty, Abort
  <2>. QED  BY <2>2, BoundsApart
<1>4. CASE PinLow
  <2>1. [op EXCEPT !.woken = TRUE] \in OpType  BY DEF RxType, OpType
  <2>. QED  BY <1>4, <2>1, BoundsApart DEF PinLow
<1>5. CASE StatusOk \/ StatusMisread \/ ReadHeader \/ ReadData
  BY <1>5, StatusKeepsBounds, HeaderKeepsBounds, DataKeepsBounds
<1>6. CASE WriteUinc \/ UincLost \/ UincLate  BY <1>6, UincKeepsBounds
<1>7. ASSUME NEW f \in Fifo, ClearRxOverflow(f) \/ ResetFifo(f) PROVE BoundsInv'
  <2>1. RxType'  BY <1>7, RegisterTypes
  <2>2. pc' = "idle"  BY <1>7 DEF ClearRxOverflow, ResetFifo, driverVars
  <2>. QED  BY <2>1, <2>2 DEF InBounds
<1>8. CASE Chip
  <2>1. PICK f \in Fifo, remote \in BOOLEAN : \E len \in Lengths[f] : Arrive(f, remote, len)
    BY <1>8 DEF Chip
  <2>2. RxType' /\ UNCHANGED <<pc, op>> /\ \A h \in Fifo : NotEmpty(h) => NotEmpty(h)'
    BY <2>1, ArriveTypes
  <2>3. PICK h \in Fifo : h = op.fifo  BY OpFacts
  <2>4. NotEmpty(op.fifo) => NotEmpty(op.fifo)'  BY <2>2, <2>3 DEF NotEmpty
  <2>5. InBounds'  BY <2>2, <2>4 DEF InBounds, Padded
  <2>. QED  BY <2>2, <2>5
<1>9. CASE UNCHANGED vars
  <2>1. UNCHANGED <<pc, op, chipVars, history>>  BY <1>9 DEF vars, driverVars
  <2>2. op' \in OpType /\ pc' \in {"idle", "status", "header", "data", "uinc", "waiting"}
    BY <2>1 DEF RxType
  <2>3. InBounds'  BY <2>1 DEF InBounds, NotEmpty, chipVars, Padded
  <2>. QED  BY <2>1, <2>2, <2>3, BoundsStill
<1>. QED  BY <1>1, <1>2, <1>3, <1>4, <1>5, <1>6, <1>7, <1>8, <1>9
          DEF Next, Application, Driver, Failure

-----------------------------------------------------------------------------
(* The invariant, step by step.  First, the steps inside the driver.       *)
LEMMA RxInit == Init => RxInv
<1>. SUFFICES ASSUME Init PROVE RxInv  OBVIOUS
<1>1. \A f \in Fifo : Depth[f] \in Nat /\ 0 < Depth[f] /\ 0 <= Depth[f]  BY LayoutTypes, SMT
<1>2. elems = [f \in Fifo |-> [s \in 0 .. Depth[f] - 1 |->
                [hdr |-> Nothing, data |-> [i \in 1 .. PlBytes[f] |-> Zero]]]]
  BY DEF Init
<1>3. ASSUME NEW f \in Fifo PROVE elems[f] \in [0 .. Depth[f] - 1 -> Element(f)]
  <2>1. Nothing \in Frame  BY SMT DEF Nothing, Frame
  <2>2. Zero \in Byte  BY SMT DEF Zero, Byte
  <2>. QED  BY <1>2, <2>1, <2>2 DEF Element
<1>4. elems = [f \in Fifo |-> elems[f]]  BY <1>2
<1>5. RxType
  <2>1. <<>> \in Seq(GotType) /\ 0 \in Nat  BY SMT
  <2>. QED  BY <1>1, <1>3, <1>4, <2>1, NoOpType DEF Init, RxType
<1>6. QueueOk
  <2>1. \A f \in Fifo : 0 .. count[f] - 1 = {}  BY SMT DEF Init
  <2>. QED  BY <2>1 DEF QueueOk
<1>7. ReadOk  BY DEF Init, ReadOk
<1>8. GotOk
  <2>1. \A f \in Fifo : DOMAIN got[f] = {}  BY SMT DEF Init
  <2>. QED  BY <2>1 DEF GotOk
<1>. QED  BY <1>5, <1>6, <1>7, <1>8 DEF RxInv

LEMMA QueueStill ==
  ASSUME QueueOk, UNCHANGED <<elems, tail, count, stored>>
  PROVE  QueueOk'
  BY DEF QueueOk, HoldsFrame, Elem, Slot

(* With the chip and the history as they were, only the call matters.      *)
LEMMA ChipStill ==
  ASSUME RxInv, UNCHANGED <<chipVars, history>>, op' \in OpType, ReadOk',
         pc' \in {"idle", "status", "header", "data", "uinc", "waiting"}
  PROVE  RxInv'
<1>1. UNCHANGED <<elems, tail, count, rxov, arrived, stored, got, errs>>  BY DEF chipVars, history
<1>2. RxType'  BY <1>1 DEF RxInv, RxType
<1>3. QueueOk'  BY <1>1, QueueStill DEF RxInv
<1>4. GotOk'  BY <1>1 DEF RxInv, GotOk
<1>. QED  BY <1>2, <1>3, <1>4 DEF RxInv

LEMMA CallEnds ==
  ASSUME RxInv, UNCHANGED <<chipVars, history>>, Abort
  PROVE  RxInv'
<1>1. pc' = "idle" /\ op' \in OpType  BY NoOpType DEF Abort
<1>2. ReadOk'  BY <1>1 DEF ReadOk
<1>. QED  BY <1>1, <1>2, ChipStill

(* Outside the reads of an element the call knows nothing of it.           *)
LEMMA CallWaits ==
  ASSUME RxInv, UNCHANGED <<chipVars, history>>, op' \in OpType, pc' \in {"status", "waiting"}
  PROVE  RxInv'
<1>1. ReadOk'  BY DEF ReadOk
<1>. QED  BY <1>1, ChipStill

LEMMA StatusOkStep == ASSUME RxInv, StatusOk PROVE RxInv'
<1>1. PICK a : a = UserAddress(op.fifo)  OBVIOUS
<1>2. op.fifo \in Fifo /\ a \in Nat  BY <1>1, OpFacts, FifoFacts, TailElement DEF RxInv
<1>3. /\ NotEmpty(op.fifo) /\ pc' = "header" /\ op' = [op EXCEPT !.at = a]
      /\ UNCHANGED <<chipVars, history>>
  BY <1>1 DEF StatusOk
<1>4. op' \in OpType /\ op'.at = a /\ op'.fifo = op.fifo  BY <1>2, <1>3 DEF RxInv, RxType, OpType
<1>5. ReadOk'  BY <1>1, <1>3, <1>4 DEF ReadOk, NotEmpty, UserAddress, chipVars
<1>. QED  BY <1>3, <1>4, <1>5, ChipStill

LEMMA ReadHeaderStep == ASSUME RxInv, ReadHeader PROVE RxInv'
<1>1. PICK f \in Fifo : f = op.fifo  BY OpFacts DEF RxInv
<1>2. PICK h, n : h = Oldest.hdr /\ n = Padded(Oldest.hdr.len)  OBVIOUS
<1>0. Headers = {h}  BY <1>1, <1>2, Reading DEF ReadHeader, Headers, AtOldest
<1>3. PICK z : z = [i \in 1 .. n |-> Zero]  OBVIOUS
<1>4. /\ NotEmpty(f) /\ op.at = UserAddress(f) /\ h = Elem(f, 0).hdr /\ h \in Frame
  BY <1>1, <1>2, Reading DEF ReadHeader
<1>5. h.len \in Nat /\ n = Padded(h.len) /\ n \in Nat /\ h.remote \in BOOLEAN
  BY <1>2, <1>4, Padding DEF Frame
<1>6. z \in Seq(Byte)  BY <1>3, <1>5, ZeroBytes
<1>7. /\ op' = [op EXCEPT !.hdr = h, !.data = z] /\ op.at + HdrBytes + n <= RamSize
      /\ pc' = IF h.len > 0 /\ ~h.remote THEN "data" ELSE "uinc"
      /\ UNCHANGED <<chipVars, history>>
  BY <1>0, <1>2, <1>3 DEF ReadHeader, EndsInRam
<1>8. /\ op' \in OpType /\ op'.hdr = h /\ op'.data = z /\ op'.fifo = f /\ op'.at = op.at
  BY <1>1, <1>4, <1>6, <1>7 DEF RxInv, RxType, OpType
<1>9. pc' = "uinc" => z = Delivery(h).data
  <2>. SUFFICES ASSUME pc' = "uinc" PROVE z = Delivery(h).data  OBVIOUS
  <2>1. h.remote \/ ~(h.len > 0)  BY <1>7
  <2>2. \A i \in 1 .. n : h.remote \/ i > h.len  BY <1>5, <2>1, SMT
  <2>. QED  BY <1>3, <1>5, <2>2 DEF Delivery
<1>10. Elem(f, 0)' = Elem(f, 0) /\ NotEmpty(f)' = NotEmpty(f) /\ UserAddress(f)' = UserAddress(f)
  BY <1>7 DEF Elem, Slot, NotEmpty, UserAddress, chipVars
<1>11. pc' = "data" => ~h.remote  BY <1>7
<1>12. op'.fifo \in {f}  BY <1>8
<1>13. /\ Elem(op.fifo, 0)' = Elem(f, 0)' /\ NotEmpty(op.fifo)' = NotEmpty(f)'
       /\ UserAddress(op.fifo)' = UserAddress(f)'
  BY <1>8 DEF Elem, Slot, NotEmpty, UserAddress
<1>14. Padded(op.hdr.len)' = n /\ Delivery(op.hdr)' = Delivery(h)
  BY <1>5, <1>8 DEF Padded, Delivery
<1>15. ReadOk'
  BY <1>3, <1>4, <1>7, <1>8, <1>9, <1>10, <1>11, <1>13, <1>14 DEF ReadOk
<1>. QED  BY <1>7, <1>8, <1>15, ChipStill

(* The payload that is read fits the element: a longer one, which only the *)
(* last element of the RAM may hold, was refused.                          *)
LEMMA PayloadFits ==
  ASSUME RxInv, pc \in {"data", "uinc"}, NEW f \in Fifo, f = op.fifo
  PROVE  op.hdr.len \in Nat /\ op.hdr.len <= PlBytes[f]
<1>1. PICK l : l = op.hdr.len  OBVIOUS
<1>2. op.hdr = Elem(f, 0).hdr /\ op.at + HdrBytes + Padded(l) <= RamSize
  BY <1>1 DEF RxInv, ReadOk
<1>3. HoldsFrame(f, Elem(f, 0)) /\ op.at = UserAddress(f)  BY Reading
<1>4. l \in Lengths[f] /\ l \in Nat  BY <1>1, <1>2, <1>3, RxAssumption DEF HoldsFrame
<1>5. l <= PlBytes[f] \/ (Depth[f] = 1 /\ Base[f] + HdrBytes + PlBytes[f] = RamSize)
  BY <1>4, OversizeAtEnd
<1>6. l <= PlBytes[f]
  <2>. SUFFICES ASSUME ~(l <= PlBytes[f]) PROVE FALSE  OBVIOUS
  <2>1. tail[f] = 0  BY <1>5, FifoFacts, SMT DEF RxInv
  <2>2. op.at = Base[f]
    <3>1. 0 * (HdrBytes + PlBytes[f]) = 0 /\ Base[f] + 0 = Base[f]  BY LayoutTypes, SMT
    <3>. QED  BY <1>3, <2>1, <3>1 DEF UserAddress
  <2>3. Padded(l) \in Nat /\ l <= Padded(l)  BY <1>4, Padding
  <2>. QED  BY <1>2, <1>4, <1>5, <2>2, <2>3, LayoutTypes, SMT
<1>. QED  BY <1>1, <1>4, <1>6

LEMMA ReadDataStep == ASSUME RxInv, ReadData PROVE RxInv'
<1>1. PICK f \in Fifo : f = op.fifo  BY OpFacts DEF RxInv
<1>2. PICK h, e : h = op.hdr /\ e = Elem(f, 0)  OBVIOUS
<1>3. pc = "data"  BY DEF ReadData
<1>4. /\ NotEmpty(f) /\ op.at = UserAddress(f) /\ Oldest = e /\ HoldsFrame(f, e)
      /\ e \in Element(f)
  BY <1>1, <1>2, <1>3, Reading
<1>5. /\ h = e.hdr /\ ~h.remote /\ DOMAIN op.data = 1 .. Padded(h.len)
      /\ op.at + HdrBytes + Padded(h.len) <= RamSize
  BY <1>1, <1>2, <1>3 DEF RxInv, ReadOk
<1>6. h \in Frame /\ h.len \in Nat /\ h.n \in Nat  BY <1>2, OpFacts DEF RxInv, Frame
<1>7. h.len <= PlBytes[f] /\ PlBytes[f] \in Nat  BY <1>1, <1>2, <1>3, PayloadFits, LayoutTypes
<1>8. DOMAIN e.data = 1 .. PlBytes[f]  BY <1>4 DEF Element
<1>9. PICK d : d = [i \in DOMAIN op.data |->
                 IF i > h.len THEN Zero ELSE IF i \in DOMAIN e.data THEN e.data[i] ELSE Junk]
  OBVIOUS
<1>10. op' = [op EXCEPT !.data = d] /\ pc' = "uinc" /\ UNCHANGED <<chipVars, history>>
  <2>1. \A i : ByteRead(i) = IF i \in DOMAIN e.data THEN e.data[i] ELSE Junk
    BY <1>1, <1>4 DEF ByteRead, AtOldest
  <2>. QED  BY <1>2, <1>9, <2>1 DEF ReadData
<1>11. d = Delivery(h).data
  <2>1. ASSUME NEW i \in 1 .. Padded(h.len), ~(i > h.len)
        PROVE  i \in DOMAIN e.data /\ e.data[i] = <<h.n, i>>
    <3>1. i \in 1 .. PlBytes[f] /\ i <= h.len  BY <1>6, <1>7, <2>1, Padding, SMT
    <3>. QED  BY <1>4, <1>5, <1>8, <3>1 DEF HoldsFrame
  <2>. QED  BY <1>5, <1>9, <2>1 DEF Delivery
<1>12. d \in Seq(Byte)
  <2>1. \A i \in 1 .. Padded(h.len) : (IF h.remote \/ i > h.len THEN Zero ELSE <<h.n, i>>) \in Byte
    BY <1>6, Padding, SMT DEF Zero, Byte
  <2>2. d \in [1 .. Padded(h.len) -> Byte]  BY <1>11, <2>1 DEF Delivery
  <2>3. PICK n \in Nat : n = Padded(h.len)  BY <1>6, Padding
  <2>4. d \in [1 .. n -> Byte]  BY <2>2, <2>3
  <2>. QED  BY <2>4, SMT
<1>13. /\ op' \in OpType /\ op'.hdr = h /\ op'.data = d /\ op'.fifo = f /\ op'.at = op.at
  BY <1>1, <1>2, <1>10, <1>12 DEF RxInv, RxType, OpType
<1>14. Elem(f, 0)' = Elem(f, 0) /\ NotEmpty(f)' = NotEmpty(f) /\ UserAddress(f)' = UserAddress(f)
  BY <1>10 DEF Elem, Slot, NotEmpty, UserAddress, chipVars
<1>15. /\ Elem(op.fifo, 0)' = Elem(f, 0)' /\ NotEmpty(op.fifo)' = NotEmpty(f)'
       /\ UserAddress(op.fifo)' = UserAddress(f)'
       /\ Padded(op.hdr.len)' = Padded(h.len) /\ Delivery(op.hdr)' = Delivery(h)
  BY <1>13 DEF Elem, Slot, NotEmpty, UserAddress, Padded, Delivery
<1>16. ReadOk'
  BY <1>2, <1>4, <1>5, <1>10, <1>11, <1>13, <1>14, <1>15 DEF ReadOk
<1>. QED  BY <1>10, <1>13, <1>16, ChipStill
(* The steps that change the chip.                                         *)
LEMMA PopStep ==
  ASSUME RxInv, pc = "uinc", PopFifo(op.fifo), Abort, UNCHANGED <<elems, rxov, arrived, stored>>,
         got' \in [Fifo -> Seq(GotType)], errs' \in Nat, GotOk'
  PROVE  RxInv'
<1>1. PICK f \in Fifo : f = op.fifo  BY OpFacts DEF RxInv
<1>2. NotEmpty(f)  BY <1>1, Reading
<1>3. PICK c : c = count[f]  OBVIOUS
<1>4. c \in Nat  BY <1>3, FifoFacts DEF RxInv
<1>5. /\ tail' \in [Fifo -> Nat] /\ \A g \in Fifo : tail'[g] < Depth[g]
      /\ count' \in [Fifo -> Nat] /\ \A g \in Fifo : count'[g] <= Depth[g]
      /\ count'[f] = c - 1
      /\ \A g \in Fifo \ {f} : tail'[g] = tail[g] /\ count'[g] = count[g]
      /\ \A g \in Fifo \ {f} : \A k \in Nat : Elem(g, k)' = Elem(g, k)
      /\ \A k \in 0 .. c - 2 : Elem(f, k)' = Elem(f, k + 1)
  BY <1>1, <1>2, <1>3, PopElems DEF RxInv
<1>6. RxType'  BY <1>1, <1>2, PopTypes DEF RxInv
<1>7. ASSUME NEW g \in Fifo, NEW k \in 0 .. count'[g] - 1
      PROVE  \E l \in 0 .. count[g] - 1 : Elem(g, k)' = Elem(g, l)
  <2>1. CASE g # f
    <3>1. k \in 0 .. count[g] - 1 /\ k \in Nat
      <4>1. count[g] \in Nat  BY FifoFacts DEF RxInv
      <4>2. count'[g] = count[g]  BY <1>5, <2>1
      <4>. QED  BY <4>1, <4>2, SMT
    <3>. QED  BY <1>5, <2>1, <3>1
  <2>2. CASE g = f
    <3>1. k \in 0 .. c - 2 /\ k + 1 \in 0 .. c - 1  BY <1>4, <1>5, <2>2, SMT
    <3>. QED  BY <1>3, <1>5, <2>2, <3>1
  <2>. QED  BY <2>1, <2>2
<1>8. QueueOk'
  <2>1. \A g \in Fifo : \A l \in 0 .. count[g] - 1 : HoldsFrame(g, Elem(g, l))
    BY DEF RxInv, QueueOk
  <2>2. ASSUME NEW g \in Fifo, NEW k \in 0 .. count'[g] - 1 PROVE HoldsFrame(g, Elem(g, k))'
    <3>1. PICK l \in 0 .. count[g] - 1 : Elem(g, k)' = Elem(g, l)  BY <1>7
    <3>2. HoldsFrame(g, Elem(g, l))  BY <2>1
    <3>. QED  BY <3>1, <3>2 DEF HoldsFrame
  <2>. QED  BY <2>2 DEF QueueOk
<1>9. ReadOk'  BY DEF ReadOk, Abort
<1>. QED  BY <1>6, <1>8, <1>9 DEF RxInv

(* What is delivered: the record of the header and of the bytes read.      *)
LEMMA Delivers ==
  ASSUME RxInv, pc = "uinc", NEW f \in Fifo, f = op.fifo
  PROVE  /\ [hdr |-> op.hdr, data |-> op.data] = Delivery(op.hdr)
         /\ [hdr |-> op.hdr, data |-> op.data] \in GotType
         /\ op.hdr = Elem(f, 0).hdr /\ op.hdr \in stored[f]
<1>1. op.data = Delivery(op.hdr).data  BY DEF RxInv, ReadOk
<1>2. [hdr |-> op.hdr, data |-> op.data] = Delivery(op.hdr)  BY <1>1 DEF Delivery
<1>3. [hdr |-> op.hdr, data |-> op.data] \in GotType  BY OpFacts DEF RxInv, GotType
<1>4. HoldsFrame(f, Elem(f, 0))  BY Reading
<1>5. op.hdr = Elem(f, 0).hdr  BY DEF RxInv, ReadOk
<1>. QED  BY <1>2, <1>3, <1>4, <1>5 DEF HoldsFrame

LEMMA WriteUincStep == ASSUME RxInv, WriteUinc PROVE RxInv'
<1>1. PICK f \in Fifo : f = op.fifo  BY OpFacts DEF RxInv
<1>2. PICK x, s : x = [hdr |-> op.hdr, data |-> op.data] /\ s = got[f]  OBVIOUS
<1>3. pc = "uinc" /\ got' = [got EXCEPT ![f] = Append(s, x)]
  BY <1>1, <1>2 DEF WriteUinc
<1>4. x \in GotType /\ x.hdr \in stored[f] /\ x = Delivery(x.hdr)
  BY <1>1, <1>2, <1>3, Delivers
<1>5. s \in Seq(GotType)  BY <1>2 DEF RxInv, RxType
<1>6. /\ Append(s, x) \in Seq(GotType) /\ DOMAIN Append(s, x) = DOMAIN s \cup {Len(s) + 1}
      /\ \A k \in DOMAIN s : Append(s, x)[k] = s[k]
      /\ Append(s, x)[Len(s) + 1] = x
  BY <1>4, <1>5, SMT
<1>7. got' \in [Fifo -> Seq(GotType)] /\ got'[f] = Append(s, x)
      /\ \A g \in Fifo \ {f} : got'[g] = got[g]
  BY <1>3, <1>6 DEF RxInv, RxType
<1>8. stored' = stored  BY DEF WriteUinc
<1>9. ASSUME NEW g \in Fifo, NEW k \in DOMAIN got'[g]
      PROVE  got'[g][k].hdr \in stored[g] /\ got'[g][k] = Delivery(got'[g][k].hdr)
  <2>1. CASE g # f  BY <1>7, <2>1 DEF RxInv, GotOk
  <2>2. CASE g = f /\ k \in DOMAIN s  BY <1>2, <1>6, <1>7, <2>2 DEF RxInv, GotOk
  <2>3. CASE g = f /\ k = Len(s) + 1  BY <1>4, <1>6, <1>7, <2>3
  <2>. QED  BY <1>6, <1>7, <2>1, <2>2, <2>3
<1>10. GotOk'  BY <1>8, <1>9 DEF GotOk, Delivery, Padded
<1>11. errs' \in Nat  BY DEF WriteUinc, RxInv, RxType
<1>. QED  BY <1>7, <1>10, <1>11, PopStep DEF WriteUinc

LEMMA UincFailsStep == ASSUME RxInv, UincLost \/ UincLate PROVE RxInv'
<1>1. got' \in [Fifo -> Seq(GotType)] /\ errs' \in Nat /\ stored' = stored /\ got' = got
  BY SMT DEF UincLost, UincLate, RxInv, RxType
<1>2. GotOk'  BY <1>1 DEF RxInv, GotOk
<1>3. CASE UincLate  BY <1>1, <1>2, <1>3, PopStep DEF UincLate
<1>4. CASE UincLost
  <2>1. pc' = "idle" /\ op' \in OpType  BY <1>4, NoOpType DEF UincLost, Abort
  <2>2. UNCHANGED <<elems, tail, count, rxov, arrived, stored, got>>
    BY <1>4 DEF UincLost, chipVars
  <2>3. RxType'  BY <1>1, <2>1, <2>2 DEF RxInv, RxType
  <2>4. QueueOk'  BY <2>2, QueueStill DEF RxInv
  <2>5. ReadOk'  BY <2>1 DEF ReadOk
  <2>. QED  BY <1>2, <2>3, <2>4, <2>5 DEF RxInv
<1>. QED  BY <1>3, <1>4

LEMMA RegisterStep ==
  ASSUME RxInv, NEW f \in Fifo, ClearRxOverflow(f) \/ ResetFifo(f)
  PROVE  RxInv'
<1>1. pc = "idle" /\ UNCHANGED <<driverVars, elems, history>>
  BY DEF ClearRxOverflow, ResetFifo
<1>2. /\ RxType'
      /\ \A g \in Fifo : (tail'[g] = tail[g] /\ count'[g] = count[g])
                        \/ (tail'[g] = 0 /\ count'[g] = 0)
  BY RegisterTypes DEF RxInv
<1>5. QueueOk'
  <2>1. ASSUME NEW g \in Fifo, NEW k \in 0 .. count'[g] - 1 PROVE HoldsFrame(g, Elem(g, k))'
    <3>1. 0 .. 0 - 1 = {}  BY SMT
    <3>2. tail'[g] = tail[g] /\ count'[g] = count[g]  BY <1>2, <3>1
    <3>3. Elem(g, k)' = Elem(g, k)  BY <1>1, <3>2 DEF Elem, Slot
    <3>4. HoldsFrame(g, Elem(g, k))  BY <3>2 DEF RxInv, QueueOk
    <3>. QED  BY <1>1, <3>3, <3>4 DEF HoldsFrame, history
  <2>. QED  BY <2>1 DEF QueueOk
<1>6. ReadOk'  BY <1>1 DEF ReadOk, driverVars
<1>7. GotOk'  BY <1>1 DEF RxInv, GotOk, history
<1>. QED  BY <1>2, <1>5, <1>6, <1>7 DEF RxInv

LEMMA ArriveStep ==
  ASSUME RxInv, NEW f \in Fifo, NEW remote \in BOOLEAN, NEW len \in Lengths[f],
         Arrive(f, remote, len)
  PROVE  RxInv'
<1>. USE DEF RxInv
<1>1. RxType' /\ \A h \in Fifo : NotEmpty(h) => NotEmpty(h)'  BY ArriveTypes
<1>2. PICK fr \in Frame : fr.len \in Lengths[f] /\ (Stores(f, fr) \/ Drops(f))  BY ArriveKinds
<1>3. CASE Drops(f)
  <2>1. UNCHANGED <<pc, op, elems, tail, count, stored, got, errs>> /\ rxov' \in [Fifo -> BOOLEAN]
    BY <1>3 DEF Drops, driverVars, RxType
  <2>3. QueueOk'  BY <2>1, QueueStill
  <2>4. ReadOk'  BY <2>1 DEF ReadOk, NotEmpty, UserAddress, Elem, Slot
  <2>5. GotOk'  BY <2>1 DEF GotOk
  <2>. QED  BY <1>1, <2>3, <2>4, <2>5
<1>4. CASE Stores(f, fr)
  <2>. PICK c : c = count[f]  OBVIOUS
  <2>1. c \in Nat  BY FifoFacts
  <2>2. UNCHANGED <<pc, op, tail, rxov, got, errs>>  BY <1>4 DEF Stores, driverVars
  <2>3. Grown(f, fr, c)  BY <1>4, StoreElems
  <2>5. \A g \in Fifo : stored[g] \subseteq stored'[g]  BY <2>3 DEF Grown
  <2>6. QueueOk'
    <3>1. ASSUME NEW g \in Fifo, NEW k \in 0 .. count'[g] - 1 PROVE HoldsFrame(g, Elem(g, k))'
      <4>1. CASE k \in 0 .. count[g] - 1
        <5>1. HoldsFrame(g, Elem(g, k)) /\ Elem(g, k)' = Elem(g, k)  BY <2>3, <4>1 DEF QueueOk, Grown
        <5>. QED  BY <2>5, <5>1 DEF HoldsFrame
      <4>2. CASE k \notin 0 .. count[g] - 1
        <5>1. g = f  BY <2>3, <4>2 DEF Grown
        <5>2. k = c  BY <2>1, <2>3, <4>2, <5>1, SMT DEF Grown
        <5>. QED  BY <1>2, <2>3, <5>1, <5>2 DEF HoldsFrame, Grown
      <4>. QED  BY <4>1, <4>2
    <3>. QED  BY <3>1 DEF QueueOk
  <2>7. ReadOk'
    <3>1. CASE ~(pc \in {"header", "data", "uinc"})  BY <2>2, <3>1 DEF ReadOk
    <3>2. CASE pc \in {"header", "data", "uinc"}
      <4>1. PICK h \in Fifo : h = op.fifo  BY OpFacts
      <4>2. NotEmpty(h) /\ 0 \in 0 .. count[h] - 1  BY <3>2, <4>1, Reading
      <4>3. Elem(h, 0)' = Elem(h, 0)  BY <2>3, <4>2 DEF Grown
      <4>4. NotEmpty(h)'  BY <1>1, <4>2
      <4>5. Elem(op.fifo, 0)' = Elem(op.fifo, 0) /\ NotEmpty(op.fifo)'
        BY <2>2, <4>1, <4>3, <4>4 DEF Elem, Slot, NotEmpty
      <4>6. UserAddress(op.fifo)' = UserAddress(op.fifo)  BY <2>2 DEF UserAddress
      <4>. QED  BY <2>2, <4>5, <4>6 DEF ReadOk
    <3>. QED  BY <3>1, <3>2
  <2>8. GotOk'
    <3>1. got' = got  BY <2>2
    <3>. QED  BY <2>5, <3>1 DEF GotOk
  <2>. QED  BY <1>1, <2>6, <2>7, <2>8
<1>. QED  BY <1>2, <1>3, <1>4

LEMMA RxStep == ASSUME CorruptShows, RxInv, [Next]_vars PROVE RxInv'
<1>1. CASE ReadFails \/ StatusRefused \/ ReadRefused \/ PinFails \/ DropWait
  BY <1>1, CallEnds DEF ReadFails, StatusRefused, ReadRefused, PinFails, DropWait
<1>2. ASSUME NEW f \in Fifo, Receive(f) \/ WaitRx(f) PROVE RxInv'
  <2>1. [NoOp EXCEPT !.fifo = f] \in OpType /\ [NoOp EXCEPT !.fifo = f, !.wait = TRUE] \in OpType
    BY NoOpType DEF OpType
  <2>. QED  BY <1>2, <2>1, CallWaits DEF Receive, WaitRx
<1>3. CASE StatusEmpty
  <2>1. [op EXCEPT !.woken = FALSE] \in OpType  BY DEF RxInv, RxType, OpType
  <2>. QED  BY <1>3, <2>1, CallWaits, CallEnds DEF StatusEmpty
<1>4. CASE PinLow
  <2>1. [op EXCEPT !.woken = TRUE] \in OpType  BY DEF RxInv, RxType, OpType
  <2>. QED  BY <1>4, <2>1, CallWaits DEF PinLow
<1>5. CASE StatusOk \/ ReadHeader \/ ReadData
  BY <1>5, StatusOkStep, ReadHeaderStep, ReadDataStep
<1>6. CASE WriteUinc \/ UincLost \/ UincLate  BY <1>6, WriteUincStep, UincFailsStep
<1>10. ~StatusMisread
  <2>1. ASSUME NEW ua \in CorruptUA PROVE ~PlausibleUA(ua)
    <3>1. ua \in Nat /\ HdrBytes \in Nat /\ RamSize \in Nat
      <4>1. \E f \in Fifo : TRUE  BY RxAssumption
      <4>. QED  BY <4>1, LayoutTypes, RxAssumption
    <3>2. ua % WordBytes # 0 \/ ua + HdrBytes > RamSize  BY DEF CorruptShows
    <3>. QED  BY <3>1, <3>2, SMT DEF PlausibleUA
  <2>. QED  BY <2>1 DEF StatusMisread
<1>7. ASSUME NEW f \in Fifo, ClearRxOverflow(f) \/ ResetFifo(f) PROVE RxInv'
  BY <1>7, RegisterStep
<1>8. CASE Chip  BY <1>8, ArriveStep DEF Chip
<1>9. CASE UNCHANGED vars
  <2>1. UNCHANGED <<driverVars, chipVars, history>>  BY <1>9 DEF vars
  <2>2. UNCHANGED <<pc, op, elems, tail, count>>  BY <2>1 DEF driverVars, chipVars
  <2>3. op' \in OpType /\ pc' \in {"idle", "status", "header", "data", "uinc", "waiting"}
    BY <2>2 DEF RxInv, RxType
  <2>4. ReadOk'  BY <2>2 DEF RxInv, ReadOk, NotEmpty, UserAddress, Elem, Slot
  <2>. QED  BY <2>1, <2>3, <2>4, ChipStill
<1>. QED  BY <1>1, <1>2, <1>3, <1>4, <1>5, <1>6, <1>7, <1>8, <1>9, <1>10
          DEF Next, Application, Driver, Failure

(* A frame handed to the application is one that arrived for that FIFO,    *)
(* with exactly its own bytes, unless CiFIFOUA read back as another        *)
(* address that the checks accept.                                         *)
THEOREM DeliveryIsExact == ASSUME CorruptShows PROVE Spec => []DeliveredExact
<1>1. RxInv => DeliveredExact  BY DEF RxInv, GotOk, DeliveredExact
<1>2. RxInv /\ [Next]_vars => RxInv'  BY RxStep
<1>. QED  BY <1>1, <1>2, RxInit, PTL DEF Spec

(* Every read of receive starts on a word and ends in the message RAM,     *)
(* whatever CiFIFOUA reads back as and whatever the header there says, and *)
(* no element whose frame fits it is refused.                              *)
THEOREM ReadsAreInBounds == Spec => []BoundsExact
<1>1. BoundsInv => BoundsExact
  <2>. SUFFICES ASSUME BoundsInv PROVE BoundsExact  OBVIOUS
  <2>1. PICK f \in Fifo : f = op.fifo  BY OpFacts DEF BoundsInv
  <2>2. UserAddress(f) \in Nat /\ UserAddress(f) + Stride(f) <= RamSize
        /\ UserAddress(f) % WordBytes = 0
    BY FifoFacts, TailElement DEF BoundsInv
  <2>3. /\ HdrBytes \in Nat /\ HdrBytes > 0 /\ PlBytes[f] \in Nat /\ RamSize \in Nat
        /\ Stride(f) = HdrBytes + PlBytes[f]
    BY LayoutTypes, SMT DEF Stride
  <2>4. PlausibleUA(UserAddress(f))  BY <2>2, <2>3, SMT DEF PlausibleUA
  <2>5. ASSUME AtOldest, Oldest.hdr.len <= PlBytes[f] PROVE EndsInRam(op.at, Oldest.hdr.len)
    <3>1. PICK l : l = Oldest.hdr.len  OBVIOUS
    <3>2. l \in Nat
      <4>1. 0 \in 0 .. Depth[f] - 1  BY FifoFacts, SMT DEF BoundsInv
      <4>. QED  BY <2>1, <3>1, <4>1, OldestIs, ElemType DEF BoundsInv, Frame
    <3>3. Padded(l) \in Nat /\ Padded(l) <= PlBytes[f]  BY <2>5, <3>1, <3>2, Padding
    <3>4. op.at = UserAddress(f)  BY <2>1, <2>5 DEF AtOldest
    <3>5. op.at + HdrBytes + Padded(l) <= RamSize  BY <2>2, <2>3, <3>3, <3>4, SMT
    <3>. QED  BY <3>1, <3>5 DEF EndsInRam
  <2>. QED  BY <2>1, <2>4, <2>5 DEF BoundsExact, BoundsInv, InBounds
<1>2. BoundsInv /\ [Next]_vars => BoundsInv'  BY BoundsStep
<1>3. Init => BoundsInv  BY RxInit DEF Init, RxInv, BoundsInv, InBounds
<1>. QED  BY <1>1, <1>2, <1>3, PTL DEF Spec

(* When the FIFO is the only one, and its not-empty interrupt the only     *)
(* enabled source, each wake-up of wait_rx finds a frame.                  *)
OnlySource == Enabled = {"RXIE"} /\ \A f, g \in Fifo : f = g

LEMMA NoSpinStep == ASSUME OnlySource, BoundsInv, NoSpin, [Next]_vars PROVE NoSpin'
<1>. USE DEF NoSpin
<1>1. CASE pc' # "status"  BY <1>1
<1>2. ASSUME NEW f \in Fifo, Receive(f) \/ WaitRx(f) PROVE NoSpin'
  <2>1. op'.woken = FALSE  BY <1>2 DEF Receive, WaitRx, NoOp
  <2>. QED  BY <2>1
<1>3. CASE PinLow
  <2>1. \E f \in Fifo : NotEmpty(f)  BY <1>3 DEF PinLow, IntLow, OnlySource
  <2>2. op.fifo \in Fifo  BY OpFacts DEF BoundsInv
  <2>3. NotEmpty(op.fifo)  BY <2>1, <2>2 DEF OnlySource
  <2>4. op'.fifo = op.fifo /\ count' = count
    BY <1>3 DEF PinLow, chipVars, BoundsInv, RxType, OpType
  <2>. QED  BY <2>3, <2>4 DEF NotEmpty
<1>4. ASSUME NEW f \in Fifo, NEW remote \in BOOLEAN, NEW len \in Lengths[f],
             Arrive(f, remote, len)
      PROVE  NoSpin'
  <2>1. UNCHANGED <<pc, op>>  BY <1>4 DEF Arrive, driverVars
  <2>2. PICK h \in Fifo : h = op.fifo  BY OpFacts DEF BoundsInv
  <2>3. NotEmpty(h) => NotEmpty(h)'  BY <1>4, ArriveTypes DEF BoundsInv
  <2>. QED  BY <2>1, <2>2, <2>3 DEF NotEmpty
<1>5. CASE UNCHANGED vars
  BY <1>5 DEF vars, driverVars, chipVars, NotEmpty
<1>6. ASSUME NEW f \in Fifo, ClearRxOverflow(f) \/ ResetFifo(f) PROVE NoSpin'
  BY <1>1, <1>6 DEF ClearRxOverflow, ResetFifo, driverVars
<1>7. CASE \/ DropWait \/ StatusEmpty \/ StatusRefused \/ StatusOk \/ ReadHeader \/ ReadRefused
           \/ ReadData \/ WriteUinc \/ Failure
  <2>1. pc' # "status"
    BY <1>7 DEF DropWait, StatusEmpty, StatusRefused, StatusOk, ReadHeader, ReadRefused, ReadData,
                WriteUinc, Failure, StatusMisread, ReadFails, UincLost, UincLate, PinFails, Abort
  <2>. QED  BY <1>1, <2>1
<1>. QED  BY <1>2, <1>3, <1>4, <1>5, <1>6, <1>7 DEF Next, Application, Driver, Chip

(* wait_rx does not spin where its docs promise it: with one FIFO and its  *)
(* not-empty interrupt as the only source, a wake-up finds a frame.        *)
THEOREM WakeUpsFindFrames == ASSUME OnlySource PROVE Spec => []NoSpin
<1>1. Init => NoSpin  BY DEF Init, NoSpin
<1>2. BoundsInv /\ [Next]_vars => BoundsInv'  BY BoundsStep
<1>3. BoundsInv /\ NoSpin /\ [Next]_vars => NoSpin'  BY NoSpinStep
<1>4. Init => BoundsInv  BY RxInit DEF Init, RxInv, BoundsInv, InBounds
<1>. QED  BY <1>1, <1>2, <1>3, <1>4, PTL DEF Spec
-----------------------------------------------------------------------------
(* The refinement.  The queue of f, element by element, and what the steps *)
(* do to it.                                                               *)
QueueShape == \A f \in Fifo :
  /\ Queue(f) \in Seq(Frame) /\ Len(Queue(f)) = count[f] /\ count[f] \in Nat
  /\ \A k \in 1 .. count[f] : Queue(f)[k] = Elem(f, k - 1).hdr

LEMMA ShapeHolds == RxInv => QueueShape
<1>. SUFFICES ASSUME RxInv, NEW f \in Fifo
              PROVE  /\ Queue(f) \in Seq(Frame) /\ Len(Queue(f)) = count[f] /\ count[f] \in Nat
                     /\ \A k \in 1 .. count[f] : Queue(f)[k] = Elem(f, k - 1).hdr
  BY DEF QueueShape
<1>1. PICK c \in Nat : c = count[f]  BY FifoFacts DEF RxInv
<1>2. \A k \in 1 .. c : k - 1 \in 0 .. Depth[f] - 1  BY <1>1, FifoFacts, SMT DEF RxInv
<1>3. \A k \in 1 .. c : Elem(f, k - 1).hdr \in Frame  BY <1>2, ElemType DEF RxInv
<1>4. Queue(f) = [k \in 1 .. c |-> Elem(f, k - 1).hdr]  BY <1>1 DEF Queue, Elem
<1>5. Queue(f) \in [1 .. c -> Frame]  BY <1>3, <1>4
<1>6. PICK q : q = Queue(f)  OBVIOUS
<1>7. q \in Seq(Frame) /\ Len(q) = c
  <2>1. PICK S : S = Frame  OBVIOUS
  <2>2. q \in [1 .. c -> S]  BY <1>5, <1>6, <2>1
  <2>3. q \in Seq(S) /\ Len(q) = c  BY <2>2, SMT
  <2>. QED  BY <2>1, <2>3
<1>. QED  BY <1>1, <1>4, <1>6, <1>7

LEMMA ShapeNext == RxInv' => QueueShape'
  BY ShapeHolds, PTL

LEMMA QueueSame ==
  ASSUME RxInv, RxInv', NEW f \in Fifo, count'[f] = count[f],
         \A k \in 0 .. count[f] - 1 : Elem(f, k)' = Elem(f, k)
  PROVE  Queue(f)' = Queue(f)
<1>1. QueueShape /\ QueueShape'  BY ShapeHolds, ShapeNext
<1>2. PICK q, r, c : q = Queue(f) /\ r = Queue(f)' /\ c = count[f]  OBVIOUS
<1>3. q \in Seq(Frame) /\ r \in Seq(Frame) /\ Len(q) = c /\ Len(r) = c /\ c \in Nat
  BY <1>1, <1>2 DEF QueueShape, Frame
<1>4. ASSUME NEW k \in 1 .. c PROVE r[k] = q[k]
  <2>1. k - 1 \in 0 .. c - 1  BY <1>3, SMT
  <2>2. q[k] = Elem(f, k - 1).hdr /\ r[k] = Elem(f, k - 1)'.hdr
    BY <1>1, <1>2 DEF QueueShape
  <2>. QED  BY <1>2, <2>1, <2>2
<1>5. q = r  BY <1>3, <1>4, SameSequence
<1>. QED  BY <1>2, <1>5

LEMMA QueuePush ==
  ASSUME RxInv, RxInv', NEW f \in Fifo, NEW fr \in Frame, Stores(f, fr)
  PROVE  /\ Len(Queue(f)) < Depth[f] /\ Queue(f)' = Append(Queue(f), fr)
         /\ \A g \in Fifo \ {f} : Queue(g)' = Queue(g)
<1>1. QueueShape /\ QueueShape'  BY ShapeHolds, ShapeNext
<1>2. PICK q, r, c : q = Queue(f) /\ r = Queue(f)' /\ c = count[f]  OBVIOUS
<1>3. Grown(f, fr, c)  BY <1>2, StoreElems DEF RxInv
<1>4. /\ q \in Seq(Frame) /\ r \in Seq(Frame) /\ Len(q) = c /\ Len(r) = c + 1 /\ c \in Nat
      /\ c < Depth[f]
  BY <1>1, <1>2, <1>3 DEF QueueShape, Frame, Grown, Stores
<1>5. ASSUME NEW k \in 1 .. c PROVE r[k] = q[k]
  <2>1. k - 1 \in 0 .. c - 1 /\ k \in 1 .. c + 1  BY <1>4, SMT
  <2>2. q[k] = Elem(f, k - 1).hdr /\ r[k] = Elem(f, k - 1)'.hdr
    BY <1>1, <1>2, <1>3, <2>1 DEF QueueShape, Grown
  <2>. QED  BY <1>2, <1>3, <2>1, <2>2 DEF Grown
<1>6. r[c + 1] = fr
  <2>1. c + 1 \in 1 .. c + 1 /\ (c + 1) - 1 = c  BY <1>4, SMT
  <2>2. r[c + 1] = Elem(f, (c + 1) - 1)'.hdr  BY <1>1, <1>2, <1>3, <2>1 DEF QueueShape, Grown
  <2>3. Elem(f, (c + 1) - 1)' = Elem(f, c)'  BY <2>1
  <2>. QED  BY <1>3, <2>2, <2>3 DEF Grown
<1>7. r = Append(q, fr)  BY <1>4, <1>5, <1>6, AppendIs
<1>8. \A g \in Fifo \ {f} : Queue(g)' = Queue(g)  BY <1>3, QueueSame DEF Grown
<1>. QED  BY <1>2, <1>4, <1>7, <1>8

LEMMA QueuePop ==
  ASSUME RxInv, RxInv', NEW f \in Fifo, NotEmpty(f), PopFifo(f), elems' = elems
  PROVE  /\ Queue(f) # <<>> /\ Head(Queue(f)) = Elem(f, 0).hdr
         /\ Queue(f)' = Tail(Queue(f))
         /\ \A g \in Fifo \ {f} : Queue(g)' = Queue(g)
<1>1. QueueShape /\ QueueShape'  BY ShapeHolds, ShapeNext
<1>2. PICK q, r, c : q = Queue(f) /\ r = Queue(f)' /\ c = count[f]  OBVIOUS
<1>3. /\ count'[f] = c - 1
      /\ \A g \in Fifo \ {f} : tail'[g] = tail[g] /\ count'[g] = count[g]
      /\ \A g \in Fifo \ {f} : \A k \in Nat : Elem(g, k)' = Elem(g, k)
      /\ \A k \in 0 .. c - 2 : Elem(f, k)' = Elem(f, k + 1)
  BY <1>2, PopElems DEF RxInv
<1>4. /\ q \in Seq(Frame) /\ r \in Seq(Frame) /\ Len(q) = c /\ Len(r) = c - 1 /\ c \in Nat
      /\ c > 0
  BY <1>1, <1>2, <1>3 DEF QueueShape, Frame, NotEmpty
<1>5. ASSUME NEW k \in 1 .. c - 1 PROVE r[k] = q[k + 1]
  <2>1. /\ k - 1 \in 0 .. c - 2 /\ (k - 1) + 1 = k /\ k + 1 \in 1 .. c /\ (k + 1) - 1 = k
    BY <1>4, SMT
  <2>2. r[k] = Elem(f, k - 1)'.hdr  BY <1>1, <1>2, <1>3 DEF QueueShape
  <2>3. q[k + 1] = Elem(f, (k + 1) - 1).hdr  BY <1>1, <1>2, <2>1 DEF QueueShape
  <2>4. Elem(f, k - 1)' = Elem(f, (k - 1) + 1)  BY <1>3, <2>1
  <2>. QED  BY <2>1, <2>2, <2>3, <2>4
<1>6. q # <<>> /\ Head(q) = q[1] /\ Len(q) = Len(r) + 1 /\ Len(r) = c - 1 /\ 1 \in 1 .. c
  BY <1>4, SMT
<1>7. r = Tail(q)  BY <1>4, <1>5, <1>6, TailIs
<1>8. q[1] = Elem(f, 0).hdr
  <2>1. q[1] = Elem(f, 1 - 1).hdr /\ 1 - 1 = 0  BY <1>1, <1>2, <1>6, SMT DEF QueueShape
  <2>. QED  BY <2>1
<1>9. ASSUME NEW g \in Fifo \ {f} PROVE Queue(g)' = Queue(g)
  <2>1. count[g] \in Nat  BY FifoFacts DEF RxInv
  <2>2. \A k \in 0 .. count[g] - 1 : k \in Nat  BY <2>1, SMT
  <2>. QED  BY <1>3, <2>2, QueueSame
<1>. QED  BY <1>2, <1>6, <1>7, <1>8, <1>9

LEMMA QueueDrop ==
  ASSUME RxInv, RxInv', NEW f \in Fifo, ResetFifo(f)
  PROVE  Queue(f)' = <<>> /\ \A g \in Fifo \ {f} : Queue(g)' = Queue(g)
<1>1. /\ count'[f] = 0 /\ elems' = elems
      /\ \A g \in Fifo \ {f} : count'[g] = count[g] /\ tail'[g] = tail[g]
  BY DEF RxInv, RxType, ResetFifo
<1>2. PICK r : r = Queue(f)'  OBVIOUS
<1>3. r \in Seq(Frame) /\ Len(r) = 0  BY <1>1, <1>2, ShapeNext DEF QueueShape, Frame
<1>4. r = <<>>  BY <1>3, SMT
<1>5. \A g \in Fifo \ {f} : Queue(g)' = Queue(g)
  BY <1>1, QueueSame DEF Elem, Slot
<1>. QED  BY <1>2, <1>4, <1>5

LEMMA AllSame ==
  ASSUME RxInv, RxInv', UNCHANGED <<elems, tail, count>>
  PROVE  [f \in Fifo |-> Queue(f)]' = [f \in Fifo |-> Queue(f)]
<1>1. \A f \in Fifo : Queue(f)' = Queue(f)  BY DEF Queue, Slot
<1>. QED  BY <1>1

-----------------------------------------------------------------------------
LEMMA ChannelInit == Init => Channel!Init
<1>. SUFFICES ASSUME Init PROVE Channel!Init  OBVIOUS
<1>1. ASSUME NEW f \in Fifo PROVE Queue(f) = <<>>
  <2>1. 1 .. count[f] = {}  BY SMT DEF Init
  <2>. QED  BY <2>1, SMT DEF Queue
<1>2. [f \in Fifo |-> Queue(f)] = [f \in Fifo |-> <<>>]  BY <1>1
<1>. QED  BY <1>2 DEF Channel!Init, Init

LEMMA ChannelArrive ==
  ASSUME RxInv, RxInv', NEW f \in Fifo, NEW remote \in BOOLEAN, NEW len \in Lengths[f],
         Arrive(f, remote, len)
  PROVE  Channel!Arrive(f)
<1>1. arrived < MaxFrames /\ arrived' = arrived + 1 /\ UNCHANGED <<errs, got>>
  BY DEF Arrive
<1>2. PICK fr \in FramesOf(f, arrived + 1) : fr \in Frame /\ (Stores(f, fr) \/ Drops(f))
  BY ArriveKinds DEF RxInv
<1>3. PICK Q : Q = [g \in Fifo |-> Queue(g)]  OBVIOUS
<1>4. CASE Stores(f, fr)
  <2>1. /\ Len(Queue(f)) < Depth[f] /\ Queue(f)' = Append(Queue(f), fr)
        /\ \A g \in Fifo \ {f} : Queue(g)' = Queue(g)
    BY <1>2, <1>4, QueuePush
  <2>2. [g \in Fifo |-> Queue(g)]'
          = [Q EXCEPT ![f] = IF Len(@) < Depth[f] THEN Append(@, fr) ELSE @]
    BY <1>3, <2>1
  <2>. QED  BY <1>1, <1>2, <1>3, <2>2 DEF Channel!Arrive
<1>5. CASE Drops(f)
  <2>2. [g \in Fifo |-> Queue(g)]' = Q  BY <1>3, <1>5, AllSame DEF Drops
  <2>3. Len(Q[f]) = Depth[f] /\ Depth[f] \in Nat
    BY <1>3, <1>5, ShapeHolds, LayoutTypes DEF QueueShape, Drops
  <2>4. ~(Len(Q[f]) < Depth[f])  BY <2>3, SMT
  <2>5. [g \in Fifo |-> Queue(g)]'
          = [Q EXCEPT ![f] = IF Len(@) < Depth[f] THEN Append(@, fr) ELSE @]
    BY <1>3, <2>2, <2>4
  <2>. QED  BY <1>1, <1>2, <1>3, <2>5 DEF Channel!Arrive
<1>. QED  BY <1>2, <1>4, <1>5

LEMMA ChannelDeliver ==
  ASSUME RxInv, RxInv', WriteUinc, NEW f \in Fifo, f = op.fifo
  PROVE  Channel!Deliver(f)
<1>1. /\ pc = "uinc" /\ PopFifo(f) /\ elems' = elems /\ UNCHANGED <<arrived, errs>>
      /\ got' = [got EXCEPT ![f] = Append(@, [hdr |-> op.hdr, data |-> op.data])]
  BY DEF WriteUinc
<1>2. /\ [hdr |-> op.hdr, data |-> op.data] = Delivery(op.hdr)
      /\ op.hdr = Elem(f, 0).hdr /\ NotEmpty(f)
  BY <1>1, Delivers, Reading
<1>3. /\ Queue(f) # <<>> /\ Head(Queue(f)) = Elem(f, 0).hdr
      /\ Queue(f)' = Tail(Queue(f))
      /\ \A g \in Fifo \ {f} : Queue(g)' = Queue(g)
  BY <1>1, <1>2, QueuePop
<1>4. PICK Q : Q = [g \in Fifo |-> Queue(g)]  OBVIOUS
<1>5. [g \in Fifo |-> Queue(g)]' = [Q EXCEPT ![f] = Tail(@)] /\ Q[f] = Queue(f)
  BY <1>3, <1>4
<1>6. got' = [got EXCEPT ![f] = Append(@, Delivery(Head(Q[f])))]
  BY <1>1, <1>2, <1>3, <1>5
<1>. QED  BY <1>1, <1>3, <1>4, <1>5, <1>6 DEF Channel!Deliver

LEMMA ChannelFail ==
  ASSUME RxInv, RxInv', UincLost \/ UincLate, NEW f \in Fifo, f = op.fifo
  PROVE  Channel!Fail(f)
<1>1. /\ pc = "uinc" /\ elems' = elems /\ errs' = errs + 1 /\ UNCHANGED <<arrived, got>>
  BY DEF UincLost, UincLate, chipVars
<1>2. NotEmpty(f)  BY <1>1, Reading
<1>3. PICK Q : Q = [g \in Fifo |-> Queue(g)]  OBVIOUS
<1>4. Q[f] = Queue(f) /\ Queue(f) # <<>>
  <2>1. count[f] > 0 /\ Len(Queue(f)) = count[f]  BY <1>2, ShapeHolds DEF NotEmpty, QueueShape
  <2>2. Len(<<>>) = 0  BY SMT
  <2>3. Queue(f) # <<>>  BY <2>1, <2>2, SMT
  <2>. QED  BY <1>3, <2>3
<1>5. [g \in Fifo |-> Queue(g)]' \in {Q} \cup (IF "late" \in Faults THEN {[Q EXCEPT ![f] = Tail(@)]} ELSE {})
  <2>1. CASE UincLost
    <3>1. [g \in Fifo |-> Queue(g)]' = Q  BY <1>3, <2>1, AllSame DEF UincLost, chipVars
    <3>. QED  BY <3>1
  <2>2. CASE UincLate
    <3>1. PopFifo(f) /\ "late" \in Faults  BY <2>2 DEF UincLate
    <3>2. /\ Queue(f)' = Tail(Queue(f)) /\ \A g \in Fifo \ {f} : Queue(g)' = Queue(g)
      BY <1>1, <1>2, <3>1, QueuePop
    <3>3. [g \in Fifo |-> Queue(g)]' = [Q EXCEPT ![f] = Tail(@)]  BY <1>3, <3>2
    <3>. QED  BY <3>1, <3>3
  <2>. QED  BY <2>1, <2>2
<1>. QED  BY <1>1, <1>3, <1>4, <1>5 DEF Channel!Fail

LEMMA ChannelDiscard ==
  ASSUME RxInv, RxInv', NEW f \in Fifo, ResetFifo(f)
  PROVE  Channel!Discard(f)
<1>1. Queue(f)' = <<>> /\ \A g \in Fifo \ {f} : Queue(g)' = Queue(g)  BY QueueDrop
<1>2. [g \in Fifo |-> Queue(g)]' = [[g \in Fifo |-> Queue(g)] EXCEPT ![f] = <<>>]  BY <1>1
<1>. QED  BY <1>2 DEF Channel!Discard, ResetFifo, history

LEMMA ChannelStutter ==
  ASSUME RxInv, RxInv', UNCHANGED <<elems, tail, count, history>>
  PROVE  UNCHANGED Channel!vars
  BY AllSame DEF Channel!vars, history

LEMMA ChannelStep == ASSUME RxInv, RxInv', [Next]_vars PROVE [Channel!Next]_(Channel!vars)
<1>1. PICK h \in Fifo : h = op.fifo  BY OpFacts DEF RxInv
<1>2. CASE WriteUinc  BY <1>1, <1>2, ChannelDeliver DEF Channel!Next
<1>3. CASE UincLost \/ UincLate  BY <1>1, <1>3, ChannelFail DEF Channel!Next
<1>4. CASE Chip  BY <1>4, ChannelArrive DEF Channel!Next, Chip
<1>5. ASSUME NEW f \in Fifo, ResetFifo(f) PROVE Channel!Next
  BY <1>5, ChannelDiscard DEF Channel!Next
<1>6. ASSUME NEW f \in Fifo, Receive(f) \/ WaitRx(f) \/ ClearRxOverflow(f)
      PROVE  UNCHANGED Channel!vars
  BY <1>6, ChannelStutter DEF Receive, WaitRx, ClearRxOverflow, chipVars
<1>7. CASE \/ DropWait \/ StatusEmpty \/ StatusRefused \/ StatusOk \/ ReadHeader \/ ReadRefused
           \/ ReadData \/ PinLow \/ StatusMisread \/ ReadFails \/ PinFails \/ UNCHANGED vars
  BY <1>7, ChannelStutter
     DEF DropWait, StatusEmpty, StatusRefused, StatusOk, ReadHeader, ReadRefused, ReadData, PinLow,
         StatusMisread, ReadFails, PinFails, vars, chipVars
<1>. QED  BY <1>2, <1>3, <1>4, <1>5, <1>6, <1>7 DEF Next, Application, Driver, Failure

(* The receive path implements the abstract queue: what the controller     *)
(* stores joins it, a popping write that succeeds delivers its head, one   *)
(* that fails loses at most the head, reset_fifo empties it; no other step *)
(* of the driver changes what waits or what was delivered.                 *)
THEOREM RxChannelIsImplemented == ASSUME CorruptShows PROVE Spec => ImplementsRxChannel
<1>1. RxInv /\ [Next]_vars => RxInv'  BY RxStep
<1>2. RxInv /\ RxInv' /\ [Next]_vars => [Channel!Next]_(Channel!vars)  BY ChannelStep
<1>. QED  BY <1>1, <1>2, RxInit, ChannelInit, PTL DEF Spec, ImplementsRxChannel, Channel!Spec
=============================================================================
