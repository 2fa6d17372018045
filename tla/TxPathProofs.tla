---------------------------- MODULE TxPathProofs ----------------------------
(***************************************************************************)
(* Proofs about TxPath, for every layout, every RAM size, any frames and   *)
(* any number of calls: types and the bounds of the RAM writes; then, for  *)
(* frames that fit their FIFO (FramesFit) and CiFIFOUA reads that are      *)
(* either right or recognisably wrong (CorruptShows), that the slot check  *)
(* of transmit_raw holds until the hand-over, that queued objects are      *)
(* never touched, and that what is queued, and what goes out on the bus,   *)
(* are whole objects of frames handed over for that FIFO.  The second half *)
(* is about the order: the path is the bounded queue of whole frames of    *)
(* TxChannel, and the results of its calls mean what they say.             *)
(***************************************************************************)
EXTENDS TxPath, TLAPS

-----------------------------------------------------------------------------
(* Two sequences with the same elements are the same; so a longer one is   *)
(* the shorter one with an element appended, and a shorter one the tail.   *)
LEMMA SameSequence ==
  ASSUME NEW S, NEW s \in Seq(S), NEW t \in Seq(S), Len(s) = Len(t),
         \A k \in 1 .. Len(s) : s[k] = t[k]
  PROVE  s = t
  BY SMT

LEMMA AppendIs ==
  ASSUME NEW S, NEW s \in Seq(S), NEW x \in S, NEW t \in Seq(S), Len(t) = Len(s) + 1,
         \A k \in 1 .. Len(s) : t[k] = s[k], t[Len(s) + 1] = x
  PROVE  t = Append(s, x)
<1>1. Append(s, x) \in Seq(S) /\ Len(Append(s, x)) = Len(s) + 1  BY SMT
<1>2. \A k \in 1 .. Len(s) + 1 : Append(s, x)[k] = t[k]  BY SMT
<1>. QED  BY <1>1, <1>2, SameSequence

LEMMA TailIs ==
  ASSUME NEW S, NEW s \in Seq(S), NEW t \in Seq(S), Len(s) = Len(t) + 1,
         \A k \in 1 .. Len(t) : t[k] = s[k + 1]
  PROVE  t = Tail(s)
<1>1. Tail(s) \in Seq(S) /\ Len(Tail(s)) = Len(t)  BY SMT
<1>2. \A k \in 1 .. Len(t) : Tail(s)[k] = t[k]  BY SMT
<1>. QED  BY <1>1, <1>2, SameSequence

-----------------------------------------------------------------------------
(* Quotient and remainder by a number that is not a literal.               *)
LEMMA DivMod ==
  ASSUME NEW d \in Nat \ {0}, NEW a \in Nat
  PROVE  a % d \in 0 .. d - 1 /\ a \div d \in Nat /\ a = d * (a \div d) + (a % d)
  BY SMT

LEMMA TimesMono ==
  ASSUME NEW d \in Nat \ {0}, NEW p \in Int, NEW q \in Int, p < q
  PROVE  d * p \in Int /\ d * q \in Int /\ d * p + d <= d * q
<1>1. q - p - 1 \in Nat  BY SMT
<1>2. \A k \in Nat : d * k >= 0  BY SMT
<1>3. d * (q - p - 1) >= 0  BY <1>1, <1>2
<1>. QED  BY <1>3, SMT

(* Two numbers less than d apart, and congruent, are equal; quotient and   *)
(* remainder are unique.                                                   *)
LEMMA Congruent ==
  ASSUME NEW d \in Nat \ {0}, NEW p \in Int, NEW q \in Int, NEW a \in Int, NEW b \in Int,
         a - b = d * p - d * q, a - b < d, b - a < d
  PROVE  a = b
<1>1. d * p \in Int /\ d * q \in Int  BY SMT
<1>2. ~(p < q)  BY <1>1, TimesMono, SMT
<1>3. ~(q < p)  BY <1>1, TimesMono, SMT
<1>4. p = q  BY <1>2, <1>3, SMT
<1>. QED  BY <1>1, <1>4, SMT

LEMMA ModUnique ==
  ASSUME NEW d \in Nat \ {0}, NEW a \in Nat, NEW q \in Int, NEW r \in 0 .. d - 1, a = d * q + r
  PROVE  a % d = r
<1>1. PICK p \in Nat, t \in 0 .. d - 1 : a = d * p + t /\ a % d = t  BY DivMod
<1>2. d * p \in Int /\ d * q \in Int  BY SMT
<1>3. r - t = d * p - d * q /\ r - t < d /\ t - r < d  BY <1>1, <1>2, SMT
<1>4. r = t  BY <1>3, Congruent
<1>. QED  BY <1>1, <1>4

LEMMA ModSuccessor ==
  ASSUME NEW d \in Nat \ {0}, NEW a \in Nat
  PROVE  (a + 1) % d = IF a % d = d - 1 THEN 0 ELSE (a % d) + 1
<1>1. PICK p \in Nat, t \in 0 .. d - 1 : a = d * p + t /\ a % d = t  BY DivMod
<1>2. CASE t = d - 1
  <2>1. p + 1 \in Int /\ 0 \in 0 .. d - 1 /\ a + 1 \in Nat /\ a + 1 = d * (p + 1) + 0
    BY <1>1, <1>2, SMT
  <2>. QED  BY <1>1, <1>2, <2>1, ModUnique
<1>3. CASE t # d - 1
  <2>1. p \in Int /\ t + 1 \in 0 .. d - 1 /\ a + 1 \in Nat /\ a + 1 = d * p + (t + 1)
    BY <1>1, <1>3, SMT
  <2>. QED  BY <1>1, <1>3, <2>1, ModUnique
<1>. QED  BY <1>2, <1>3

LEMMA ModDistinct ==
  ASSUME NEW d \in Nat \ {0}, NEW a \in Nat, NEW b \in Nat, a < b, b - a < d
  PROVE  a % d # b % d
<1>1. PICK p \in Nat, t \in 0 .. d - 1 : a = d * p + t /\ a % d = t  BY DivMod
<1>2. PICK q \in Nat, u \in 0 .. d - 1 : b = d * q + u /\ b % d = u  BY DivMod
<1>. SUFFICES ASSUME t = u PROVE FALSE  BY <1>1, <1>2
<1>3. d * p \in Int /\ d * q \in Int  BY SMT
<1>4. a - b = d * p - d * q /\ a - b < d  BY <1>1, <1>2, <1>3, SMT
<1>5. a = b  BY <1>4, Congruent
<1>. QED  BY <1>5

-----------------------------------------------------------------------------
(* Arithmetic of the layout. *)

(* An element that starts before the d-th one ends where that one starts,  *)
(* or earlier.                                                             *)
LEMMA StrideMono ==
  ASSUME NEW s \in Nat, NEW d \in Nat, NEW e \in Nat, s < d
  PROVE  s * e \in Nat /\ d * e \in Nat /\ s * e + e <= d * e
<1>1. PICK c \in Nat : d = s + 1 + c
  <2>1. d - s - 1 \in Nat  BY SMT
  <2>2. d = s + 1 + (d - s - 1)  BY SMT
  <2>. QED  BY <2>1, <2>2
<1>2. d * e = s * e + e + c * e  BY <1>1, SMT
<1>3. c * e \in Nat /\ s * e \in Nat  BY SMT
<1>. QED  BY <1>2, <1>3, SMT

LEMMA StrideNat == ASSUME NEW f \in Fifo PROVE Stride(f) \in Nat /\ Stride(f) >= 2
  BY LayoutAssumption, SMT DEF Stride

(* A ring index is an element of the FIFO.                                 *)
LEMMA SlotRange ==
  ASSUME TypeOK, NEW f \in Fifo, NEW k \in Nat, k <= Depth[f]
  PROVE  Slot(f, k) \in Nat /\ Slot(f, k) < Depth[f]
<1>1. tail[f] \in Nat /\ tail[f] < Depth[f] /\ Depth[f] \in Nat
  BY LayoutAssumption DEF TypeOK
<1>. QED  BY <1>1, SMT DEF Slot

(* An element lies inside its FIFO's part of the RAM.                      *)
LEMMA ElemInRam ==
  ASSUME TypeOK, NEW f \in Fifo, NEW k \in Nat, k <= Depth[f]
  PROVE  /\ ElemAddr(f, k) \in Nat
         /\ Base[f] <= ElemAddr(f, k)
         /\ ElemAddr(f, k) + Stride(f) <= Base[f] + Depth[f] * Stride(f)
         /\ ElemAddr(f, k) + Stride(f) <= RamWords
<1>1. Slot(f, k) \in Nat /\ Slot(f, k) < Depth[f]  BY SlotRange
<1>2. Stride(f) \in Nat  BY StrideNat
<1>3. Depth[f] \in Nat /\ Base[f] \in Nat /\ RamWords \in Nat
      /\ Base[f] + Depth[f] * Stride(f) <= RamWords
  BY LayoutAssumption
<1>4. /\ Slot(f, k) * Stride(f) \in Nat /\ Depth[f] * Stride(f) \in Nat
      /\ Slot(f, k) * Stride(f) + Stride(f) <= Depth[f] * Stride(f)
  BY <1>1, <1>2, <1>3, StrideMono
<1>. DEFINE x == Slot(f, k) * Stride(f)
            y == Depth[f] * Stride(f)
<1>5. ElemAddr(f, k) = Base[f] + x  BY DEF ElemAddr
<1>6. x \in Nat /\ y \in Nat /\ x + Stride(f) <= y /\ Base[f] + y <= RamWords  BY <1>3, <1>4
<1>. HIDE DEF x, y
<1>7. /\ Base[f] + x \in Nat /\ Base[f] <= Base[f] + x
      /\ Base[f] + x + Stride(f) <= Base[f] + y
      /\ Base[f] + x + Stride(f) <= RamWords
  BY <1>2, <1>3, <1>6, SMT
<1>. QED  BY <1>5, <1>7 DEF y

(* Reading a user address back as a word index loses nothing.              *)
LEMMA DivFour == ASSUME NEW ua \in Nat, ua % 4 = 0
                 PROVE  ua \div 4 \in Nat /\ ua = 4 * (ua \div 4)
  BY SMT
LEMMA TimesFour == ASSUME NEW h \in Nat
                   PROVE  4 * h \in Nat /\ (4 * h) % 4 = 0 /\ (4 * h) \div 4 = h
  BY SMT

-----------------------------------------------------------------------------
LEMMA CallTypes ==
  ASSUME TypeOK
  PROVE  /\ calls \in Seq(CallType) /\ DOMAIN calls = 1 .. Len(calls) /\ Len(calls) \in Nat
         /\ \A n \in DOMAIN calls : /\ n \in Nat /\ calls[n] \in CallType
                                    /\ calls[n].words \in Nat /\ calls[n].fifo \in Fifo
<1>1. calls \in Seq(CallType)  BY DEF TypeOK
<1>2. DOMAIN calls = 1 .. Len(calls) /\ Len(calls) \in Nat
      /\ \A n \in DOMAIN calls : calls[n] \in CallType
  BY <1>1, SMT
<1>3. \A n \in 1 .. Len(calls) : n \in Nat  BY <1>2, SMT
<1>. QED  BY <1>1, <1>2, <1>3 DEF CallType

(* What the chip fetches from an element of the RAM is an object.          *)
LEMMA FetchedType ==
  ASSUME TypeOK, NEW a \in Nat, a + 2 <= RamWords
  PROVE  /\ Fetched(a) \in Seq(Word) /\ Len(Fetched(a)) >= 2
         /\ Fetched(a)[1] = ram[a] /\ Fetched(a)[1][1] \in Nat
<1>. DEFINE n == ram[a + 1][1]
            w == IF n \in DOMAIN calls THEN calls[n].words ELSE 0
            c(i) == IF a + i - 1 < RamWords THEN ram[a + i - 1] ELSE <<0, 0>>
<1>1. w \in Nat
  BY CallTypes
<1>2. RamWords \in Nat  BY LayoutAssumption
<1>3. \A i \in 1 .. 2 + w : c(i) \in Word
  <2>. TAKE i \in 1 .. 2 + w
  <2>1. CASE a + i - 1 < RamWords
    <3>1. a + i - 1 \in 0 .. RamWords - 1  BY <1>1, <1>2, <2>1, SMT
    <3>. QED  BY <2>1, <3>1 DEF TypeOK
  <2>2. CASE ~(a + i - 1 < RamWords)  BY <2>2, SMT DEF Word
  <2>. QED  BY <2>1, <2>2
<1>4. Fetched(a) = [i \in 1 .. 2 + w |-> c(i)]  BY DEF Fetched
<1>5. c(1) = ram[a] /\ ram[a] \in Word
  <2>1. a + 1 - 1 = a /\ a < RamWords /\ a \in 0 .. RamWords - 1  BY <1>2, SMT
  <2>. QED  BY <2>1 DEF TypeOK
<1>. HIDE DEF w, c
<1>6. 2 + w \in Nat /\ 2 + w >= 2 /\ 1 \in 1 .. 2 + w  BY <1>1, SMT
<1>7. Fetched(a) \in Seq(Word) /\ Len(Fetched(a)) = 2 + w  BY <1>3, <1>4, <1>6, SMT
<1>8. Fetched(a)[1] = ram[a]  BY <1>4, <1>5, <1>6
<1>9. ram[a][1] \in Nat  BY <1>5, SMT DEF Word
<1>. QED  BY <1>6, <1>7, <1>8, <1>9

(* The identifiers in a FIFO's queue are numbers.                          *)
LEMMA QueueIds ==
  ASSUME TypeOK, NEW f \in Fifo
  PROVE  Ids(Queue(f)) \subseteq Nat
<1>. SUFFICES ASSUME NEW k \in 1 .. count[f]
              PROVE  Fetched(ElemAddr(f, k - 1))[1][1] \in Nat
  BY DEF Ids, Queue
<1>1. count[f] \in Nat /\ count[f] <= Depth[f] /\ Depth[f] \in Nat
  BY LayoutAssumption DEF TypeOK
<1>2. k - 1 \in Nat /\ k - 1 <= Depth[f]  BY <1>1, SMT
<1>3. ElemAddr(f, k - 1) \in Nat /\ ElemAddr(f, k - 1) + Stride(f) <= RamWords
  BY <1>2, ElemInRam
<1>4. ElemAddr(f, k - 1) + 2 <= RamWords
  BY <1>3, StrideNat, LayoutAssumption, SMT
<1>. QED  BY <1>3, <1>4, FetchedType

-----------------------------------------------------------------------------
(* While an object is being written, it is the last one started, it ends   *)
(* inside the RAM, and the FIFO has a slot for it.                         *)
InHand == pc \in {"ram", "uinc"} =>
  /\ calls # <<>> /\ calls[This].fifo = op.fifo /\ op.rest # <<>>
  /\ NotFull(op.fifo)
  /\ op.at + ThisLen <= RamWords

TypeInv == TypeOK /\ InHand
LEMMA RegisterTypes ==
  ASSUME TypeOK
  PROVE  /\ tail \in [Fifo -> Nat] /\ count \in [Fifo -> Nat] /\ txreq \in [Fifo -> BOOLEAN]
         /\ \A f \in Fifo : /\ tail[f] \in Nat /\ tail[f] < Depth[f]
                            /\ count[f] \in Nat /\ count[f] <= Depth[f]
                            /\ Depth[f] \in Nat /\ Depth[f] >= 1
<1>1. Depth \in [Fifo -> Nat \ {0}]  BY LayoutAssumption
<1>2. \A f \in Fifo : Depth[f] \in Nat /\ Depth[f] >= 1  BY <1>1, SMT
<1>. QED  BY <1>2 DEF TypeOK

LEMMA OpFacts ==
  ASSUME TypeOK
  PROVE  /\ op.fifo \in Fifo /\ op.rest \in Seq(Nat) /\ op.batch \in BOOLEAN
         /\ op.acc \in Nat /\ op.first \in Nat /\ op.at \in Nat
  BY DEF TypeOK, OpType

LEMMA NoOpType == NoOp \in OpType
<1>1. (CHOOSE f \in Fifo : TRUE) \in Fifo  BY LayoutAssumption
<1>2. <<>> \in Seq(Nat)  BY SMT
<1>. QED  BY <1>1, <1>2, SMT DEF NoOp, OpType

LEMMA RecordUpdate ==
  ASSUME NEW A, NEW B, NEW C, NEW D,
         NEW o \in [fifo : A, rest : B, batch : C, acc : D, first : D, at : D]
  PROVE  LET R == [fifo : A, rest : B, batch : C, acc : D, first : D, at : D] IN
         /\ \A x \in A : [o EXCEPT !.fifo = x] \in R
         /\ \A x \in B : [o EXCEPT !.rest = x] \in R
         /\ \A x \in C : [o EXCEPT !.batch = x] \in R
         /\ \A x \in D : [o EXCEPT !.acc = x] \in R
         /\ \A x \in D : [o EXCEPT !.first = x] \in R
         /\ \A x \in D : [o EXCEPT !.at = x] \in R
  BY SMT

LEMMA OpUpdate ==
  ASSUME NEW o \in OpType
  PROVE  /\ \A f \in Fifo : [o EXCEPT !.fifo = f] \in OpType
         /\ \A r \in Seq(Nat) : [o EXCEPT !.rest = r] \in OpType
         /\ \A b \in BOOLEAN : [o EXCEPT !.batch = b] \in OpType
         /\ \A n \in Nat : [o EXCEPT !.acc = n] \in OpType
         /\ \A n \in Nat : [o EXCEPT !.first = n] \in OpType
         /\ \A n \in Nat : [o EXCEPT !.at = n] \in OpType
  BY RecordUpdate, Zenon DEF OpType

LEMMA NewOp ==
  ASSUME NEW f \in Fifo, NEW r \in Seq(Nat), NEW n \in Nat
  PROVE  /\ [NoOp EXCEPT !.fifo = f, !.rest = r, !.first = n] \in OpType
         /\ [NoOp EXCEPT !.fifo = f, !.batch = TRUE, !.first = n, !.rest = r] \in OpType
<1>. DEFINE o1 == [NoOp EXCEPT !.fifo = f]
            o2 == [o1 EXCEPT !.rest = r]
            o3 == [o1 EXCEPT !.batch = TRUE]
            o4 == [o3 EXCEPT !.first = n]
<1>1. o1 \in OpType  BY NoOpType, OpUpdate
<1>. HIDE DEF o1
<1>2. o2 \in OpType /\ o3 \in OpType  BY <1>1, OpUpdate
<1>. HIDE DEF o2, o3
<1>3. [o2 EXCEPT !.first = n] \in OpType /\ o4 \in OpType  BY <1>2, OpUpdate
<1>. HIDE DEF o4
<1>4. [o4 EXCEPT !.rest = r] \in OpType  BY <1>3, OpUpdate
<1>. QED  BY <1>3, <1>4 DEF o1, o2, o3, o4

LEMMA TypeInit == Init => TypeInv
<1>. SUFFICES ASSUME Init PROVE TypeInv  OBVIOUS
<1>1. ram \in [0 .. RamWords - 1 -> Word]  BY SMT DEF Init, Word
<1>2. /\ tail \in [Fifo -> Nat] /\ \A f \in Fifo : tail[f] < Depth[f]
      /\ count \in [Fifo -> Nat] /\ \A f \in Fifo : count[f] <= Depth[f]
  BY LayoutAssumption, SMT DEF Init
<1>3. txreq \in [Fifo -> BOOLEAN] /\ running \in BOOLEAN  BY DEF Init
<1>4. seq \in 0 .. SeqWrap - 1  BY BoundsAssumption, SMT DEF Init
<1>5. calls \in Seq(CallType) /\ wire \in [Fifo -> Seq(Seq(Word))] /\ gone \subseteq Nat
  BY SMT DEF Init
<1>6. ret \in [res : {"none", "ok", "full", "comm", "spi"}, acc : Nat, first : Nat, last : Nat]
  BY SMT DEF Init
<1>7. op \in OpType /\ pc = "idle"  BY NoOpType DEF Init
<1>. QED  BY <1>1, <1>2, <1>3, <1>4, <1>5, <1>6, <1>7 DEF TypeInv, TypeOK, InHand

RetType == [res : {"none", "ok", "full", "comm", "spi"}, acc : Nat, first : Nat, last : Nat]

(* A call that returns leaves a well-typed result, and nothing in hand.    *)
LEMMA ReturnType ==
  ASSUME TypeOK, NEW res \in {"ok", "full", "comm", "spi"}, NEW acc \in Nat, Return(res, acc)
  PROVE  pc' = "idle" /\ op' \in OpType /\ ret' \in RetType
<1>1. op.first \in Nat  BY OpFacts
<1>2. Len(calls) \in Nat  BY CallTypes
<1>. QED  BY <1>1, <1>2, NoOpType, SMT DEF Return, RetType

(* TypeInv looks at these parts of the state; what a step leaves alone     *)
(* keeps its type.                                                         *)
LEMMA TypeParts ==
  ASSUME TypeOK,
         pc' \in {"idle", "status", "ram", "uinc"}, op' \in OpType,
         seq' \in 0 .. SeqWrap - 1, ram' = ram \/ ram' \in [0 .. RamWords - 1 -> Word],
         UNCHANGED tail \/ (tail' \in [Fifo -> Nat] /\ \A f \in Fifo : tail'[f] < Depth[f]),
         UNCHANGED count \/ (count' \in [Fifo -> Nat] /\ \A f \in Fifo : count'[f] <= Depth[f]),
         UNCHANGED txreq \/ txreq' \in [Fifo -> BOOLEAN], running' \in BOOLEAN,
         UNCHANGED calls \/ calls' \in Seq(CallType), UNCHANGED ret \/ ret' \in RetType,
         UNCHANGED wire \/ wire' \in [Fifo -> Seq(Seq(Word))],
         UNCHANGED gone \/ gone' \subseteq Nat
  PROVE  TypeOK'
  BY DEF TypeOK, RetType

(* The steps of the application.                                           *)
LEMMA TypeApplication == ASSUME TypeInv, Application PROVE TypeInv'
<1>. USE DEF TypeInv
<1>1. ASSUME NEW f \in Fifo, NEW w \in Sizes[f], Transmit(f, w)  PROVE TypeInv'
  <2>1. w \in Nat  BY BoundsAssumption
  <2>2. Len(calls) \in Nat  BY CallTypes
  <2>3. <<w>> \in Seq(Nat)  BY <2>1, SMT
  <2>4. op' \in OpType
    <3>1. op' = [NoOp EXCEPT !.fifo = f, !.rest = <<w>>, !.first = Len(calls)]
      BY <1>1 DEF Transmit
    <3>2. [NoOp EXCEPT !.fifo = f, !.rest = <<w>>, !.first = Len(calls)] \in OpType
      BY <2>2, <2>3, NewOp
    <3>. QED  BY <3>1, <3>2
  <2>5. TypeOK'
    BY <1>1, <2>4, TypeParts DEF Transmit, TypeOK, chipVars, history
  <2>. QED  BY <1>1, <2>5 DEF Transmit, InHand
<1>2. ASSUME NEW f \in Fifo, NEW ws \in Batches(f), TransmitBatch(f, ws)  PROVE TypeInv'
  <2>1. PICK n \in 0 .. MaxBatch : ws \in [1 .. n -> Sizes[f]]  BY <1>2 DEF Batches
  <2>2. n \in Nat  BY <2>1, BoundsAssumption, SMT
  <2>3. ws \in Seq(Nat)
    <3>1. Sizes[f] \subseteq Nat  BY BoundsAssumption
    <3>. QED  BY <2>1, <2>2, <3>1, SMT
  <2>4. Len(calls) \in Nat  BY CallTypes
  <2>. DEFINE m == IF Len(ws) < BatchCap THEN Len(ws) ELSE BatchCap
  <2>5. m \in Nat /\ m <= Len(ws)  BY <2>3, BoundsAssumption, SMT
  <2>6. SubSeq(ws, 1, m) \in Seq(Nat)
    <3>. HIDE DEF m
    <3>. QED  BY <2>3, <2>5, SMT
  <2>7. op' = [NoOp EXCEPT !.fifo = f, !.batch = TRUE, !.first = Len(calls),
                           !.rest = SubSeq(ws, 1, m)]
    BY <1>2 DEF TransmitBatch
  <2>8. op' \in OpType
    <3>. DEFINE r == SubSeq(ws, 1, m)
    <3>. HIDE DEF m, r
    <3>1. op' = [NoOp EXCEPT !.fifo = f, !.batch = TRUE, !.first = Len(calls), !.rest = r]
      BY <2>7 DEF r
    <3>2. r \in Seq(Nat)  BY <2>6 DEF r
    <3>. QED  BY <2>4, <3>1, <3>2, NewOp
  <2>9. TypeOK'
    BY <1>2, <2>8, TypeParts DEF TransmitBatch, TypeOK, chipVars, history
  <2>. QED  BY <1>2, <2>9 DEF TransmitBatch, InHand
<1>3. ASSUME NEW f \in Fifo, ResetFifo(f)  PROVE TypeInv'
  <2>1. tail' \in [Fifo -> Nat] /\ \A g \in Fifo : tail'[g] < Depth[g]
    BY <1>3, RegisterTypes, SMT DEF ResetFifo
  <2>2. count' \in [Fifo -> Nat] /\ \A g \in Fifo : count'[g] <= Depth[g]
    BY <1>3, RegisterTypes, SMT DEF ResetFifo
  <2>3. txreq' \in [Fifo -> BOOLEAN]  BY <1>3 DEF ResetFifo, TypeOK
  <2>4. gone' \subseteq Nat  BY <1>3, QueueIds DEF ResetFifo, TypeOK
  <2>5. TypeOK'
    BY <1>3, <2>1, <2>2, <2>3, <2>4, TypeParts DEF ResetFifo, TypeOK, driverVars
  <2>. QED  BY <1>3, <2>5 DEF ResetFifo, InHand, driverVars
<1>. QED  BY <1>1, <1>2, <1>3 DEF Application

(* The steps of the controller.                                            *)
LEMMA TypeChip == ASSUME TypeInv, Chip PROVE TypeInv'
<1>. USE DEF TypeInv
<1>1. CASE ChipMode
  <2>1. TypeOK'
    BY <1>1, TypeParts DEF ChipMode, ChipPark, ChipResume, TypeOK, driverVars, history
  <2>. QED  BY <1>1, <2>1 DEF ChipMode, InHand, driverVars, history, This, ThisLen, NotFull
<1>2. ASSUME NEW f \in Fifo, ChipSend(f)  PROVE TypeInv'
  <2>1. count[f] \in Nat /\ count[f] > 0 /\ 1 <= Depth[f] /\ 1 \in Nat /\ 0 \in Nat /\ 0 <= Depth[f]
    BY <1>2, RegisterTypes, SMT DEF ChipSend
  <2>2. Slot(f, 1) \in Nat /\ Slot(f, 1) < Depth[f]  BY <2>1, SlotRange
  <2>3. tail' \in [Fifo -> Nat] /\ \A g \in Fifo : tail'[g] < Depth[g]
    BY <1>2, <2>2 DEF ChipSend, TypeOK
  <2>4. /\ count' \in [Fifo -> Nat] /\ \A g \in Fifo : count'[g] <= Depth[g]
        /\ \A g \in Fifo : count'[g] <= count[g]
    BY <1>2, <2>1, RegisterTypes, SMT DEF ChipSend
  <2>5. txreq' \in [Fifo -> BOOLEAN]  BY <1>2 DEF ChipSend, TypeOK
  <2>6. Fetched(ElemAddr(f, 0)) \in Seq(Word)
    <3>1. ElemAddr(f, 0) \in Nat /\ ElemAddr(f, 0) + Stride(f) <= RamWords
      BY <2>1, ElemInRam
    <3>2. ElemAddr(f, 0) + 2 <= RamWords
      BY <3>1, StrideNat, LayoutAssumption, SMT
    <3>. QED  BY <3>1, <3>2, FetchedType
  <2>7. wire' \in [Fifo -> Seq(Seq(Word))]
    <3>1. \A g \in Fifo : wire[g] \in Seq(Seq(Word))  BY DEF TypeOK
    <3>2. Append(wire[f], Fetched(ElemAddr(f, 0))) \in Seq(Seq(Word))  BY <2>6, <3>1, SMT
    <3>. QED  BY <1>2, <3>2 DEF ChipSend, TypeOK
  <2>8. TypeOK'
    BY <1>2, <2>3, <2>4, <2>5, <2>7, TypeParts DEF ChipSend, TypeOK, driverVars
  <2>9. NotFull(op.fifo) => NotFull(op.fifo)'
    <3>1. /\ op.fifo \in Fifo /\ op' = op /\ count[op.fifo] \in Nat /\ count'[op.fifo] \in Nat
          /\ Depth[op.fifo] \in Nat /\ count'[op.fifo] <= count[op.fifo]
      BY <1>2, <2>4, OpFacts, LayoutAssumption DEF ChipSend, driverVars, TypeOK
    <3>. QED  BY <3>1, SMT DEF NotFull
  <2>. QED  BY <1>2, <2>8, <2>9 DEF ChipSend, InHand, driverVars, This, ThisLen
<1>. QED  BY <1>1, <1>2 DEF Chip

-----------------------------------------------------------------------------
(* The steps of a driver call.                                             *)

LEMMA TypeReturn ==
  ASSUME TypeInv, NEW res \in {"ok", "full", "comm", "spi"}, NEW acc \in Nat,
         Return(res, acc), UNCHANGED <<seq, chipVars, calls, wire, gone>>
  PROVE  TypeInv'
<1>1. pc' = "idle" /\ op' \in OpType /\ ret' \in RetType  BY ReturnType DEF TypeInv
<1>2. TypeOK'  BY <1>1, TypeParts DEF TypeInv, TypeOK, chipVars
<1>. QED  BY <1>1, <1>2 DEF TypeInv, InHand

LEMMA StatusOkFacts ==
  ASSUME TypeOK, StatusOk
  PROVE  /\ op.rest # <<>> /\ Head(op.rest) \in Nat /\ op'.at \in Nat
         /\ op' = [op EXCEPT !.at = op'.at]
         /\ op'.at + 2 + Head(op.rest) <= RamWords
         /\ op'.fifo = op.fifo /\ op'.rest = op.rest /\ op' \in OpType
<1>1. op.rest # <<>> /\ op.rest \in Seq(Nat) /\ op.fifo \in Fifo /\ op \in OpType
  BY OpFacts DEF StatusOk, AtStatus, TypeOK
<1>2. Head(op.rest) \in Nat  BY <1>1, SMT
<1>3. PICK ua \in {UserAddress(op.fifo)} \cup CorruptUA :
        Plausible(ua, 2 + Head(op.rest)) /\ op' = [op EXCEPT !.at = ua \div 4]
  BY DEF StatusOk
<1>4. ua \in Nat
  <2>1. count[op.fifo] \in Nat /\ count[op.fifo] <= Depth[op.fifo]
    BY <1>1, RegisterTypes
  <2>2. ElemAddr(op.fifo, count[op.fifo]) \in Nat  BY <1>1, <2>1, ElemInRam
  <2>3. UserAddress(op.fifo) \in Nat  BY <2>2, TimesFour DEF UserAddress
  <2>. QED  BY <2>3, BoundsAssumption
<1>5. ua % 4 = 0  BY <1>3 DEF Plausible
<1>6. ua \div 4 \in Nat /\ ua = 4 * (ua \div 4)  BY <1>4, <1>5, DivFour
<1>. DEFINE q == ua \div 4
            w == Head(op.rest)
<1>7. ua + 4 * (2 + w) <= 4 * RamWords  BY <1>3 DEF Plausible
<1>8. q \in Nat /\ ua = 4 * q /\ w \in Nat /\ RamWords \in Nat
  BY <1>2, <1>6, LayoutAssumption
<1>. HIDE DEF q, w
<1>9. q + 2 + w <= RamWords  BY <1>7, <1>8, SMT
<1>10. op' = [op EXCEPT !.at = q]  BY <1>3 DEF q
<1>11. op' \in OpType  BY <1>1, <1>8, <1>10, OpUpdate
<1>12. op'.at = q /\ op'.fifo = op.fifo /\ op'.rest = op.rest
  BY <1>1, <1>10, SMT DEF OpType
<1>. QED  BY <1>1, <1>2, <1>8, <1>9, <1>10, <1>11, <1>12 DEF w

LEMMA TypeStatusOk == ASSUME TypeInv, StatusOk PROVE TypeInv'
<1>. USE DEF TypeInv
<1>. DEFINE c == [fifo |-> op.fifo, words |-> Head(op.rest), seq |-> seq % SeqMod, ok |-> FALSE]
<1>1. op.fifo \in Fifo  BY OpFacts
<1>2. seq \in Nat /\ SeqMod \in Nat \ {0} /\ SeqWrap \in Nat \ {0}
  BY BoundsAssumption, SMT DEF TypeOK
<1>3. seq % SeqMod \in 0 .. SeqMod - 1 /\ (seq + 1) % SeqWrap \in 0 .. SeqWrap - 1
  BY <1>2, SMT
<1>4. c \in CallType  BY <1>1, <1>3, StatusOkFacts, SMT DEF CallType
<1>5. c.fifo = op.fifo /\ c.words = Head(op.rest)  OBVIOUS
<1>6. calls' = Append(calls, c)  BY DEF StatusOk
<1>. HIDE DEF c
<1>7. /\ calls' \in Seq(CallType) /\ calls' # <<>> /\ Len(calls') = Len(calls) + 1
      /\ calls'[Len(calls')] = c
  BY <1>4, <1>6, CallTypes, SMT
<1>8. TypeOK'
  BY <1>3, <1>7, StatusOkFacts, TypeParts DEF StatusOk, NextSeq, TypeOK, chipVars
<1>9. NotFull(op.fifo)'  BY StatusOkFacts DEF StatusOk, NotFull, chipVars
<1>10. op'.at + (2 + calls'[Len(calls')].words) <= RamWords
  BY <1>5, <1>7, StatusOkFacts, LayoutAssumption, SMT
<1>. QED  BY <1>5, <1>7, <1>8, <1>9, <1>10, StatusOkFacts DEF InHand, This, ThisLen

(* A burst, or a piece of one, stores words.                               *)
LEMMA WrittenType ==
  ASSUME TypeInv, pc \in {"ram", "uinc"}, NEW j \in Nat
  PROVE  Written(j) \in [0 .. RamWords - 1 -> Word]
<1>1. Len(calls) \in Nat /\ op.at \in Nat /\ RamWords \in Nat
  BY CallTypes, OpFacts, LayoutAssumption DEF TypeInv
<1>2. ram \in [0 .. RamWords - 1 -> Word]  BY DEF TypeInv, TypeOK
<1>3. ASSUME NEW x \in 0 .. RamWords - 1, x \in op.at .. op.at + j - 1
      PROVE  <<This, x - op.at + 1>> \in Word
  BY <1>1, <1>3, SMT DEF Word, This
<1>. QED  BY <1>2, <1>3 DEF Written

LEMMA TypeWriteRam == ASSUME TypeInv, WriteRam \/ WriteRamFails PROVE TypeInv'
<1>. USE DEF TypeInv
<1>1. CASE WriteRam
  <2>1. pc \in {"ram", "uinc"} /\ ThisLen \in Nat
    <3>1. pc = "ram"  BY <1>1 DEF WriteRam
    <3>2. calls # <<>>  BY <3>1 DEF InHand
    <3>3. This \in DOMAIN calls  BY <3>2, CallTypes, SMT DEF This
    <3>4. calls[This].words \in Nat  BY <3>3, CallTypes
    <3>. QED  BY <3>1, <3>4, SMT DEF ThisLen
  <2>2. ram' \in [0 .. RamWords - 1 -> Word]  BY <1>1, <2>1, WrittenType DEF WriteRam
  <2>3. TypeOK'  BY <1>1, <2>2, TypeParts DEF WriteRam, TypeOK, history
  <2>. QED  BY <1>1, <2>1, <2>3 DEF WriteRam, InHand, history, This, ThisLen, NotFull
<1>2. CASE WriteRamFails
  <2>1. pc \in {"ram", "uinc"}  BY <1>2 DEF WriteRamFails
  <2>2. ThisLen \in Nat
    <3>1. calls # <<>>  BY <2>1 DEF InHand
    <3>2. This \in DOMAIN calls  BY <3>1, CallTypes, SMT DEF This
    <3>3. calls[This].words \in Nat  BY <3>2, CallTypes
    <3>. QED  BY <3>3, SMT DEF ThisLen
  <2>3. PICK j \in Nat : ram' = Written(j)
    <3>1. PICK i \in IF "late" \in Faults THEN 0 .. ThisLen ELSE {0} : ram' = Written(i)
      BY <1>2 DEF WriteRamFails
    <3>2. i \in Nat  BY <2>2, SMT
    <3>. QED  BY <3>1, <3>2
  <2>4. ram' \in [0 .. RamWords - 1 -> Word]  BY <2>1, <2>3, WrittenType
  <2>5. Return("spi", op.acc) /\ op.acc \in Nat  BY <1>2, OpFacts DEF WriteRamFails
  <2>6. pc' = "idle" /\ op' \in OpType /\ ret' \in RetType  BY <2>5, ReturnType
  <2>7. TypeOK'  BY <1>2, <2>4, <2>6, TypeParts DEF WriteRamFails, TypeOK
  <2>. QED  BY <2>6, <2>7 DEF InHand
<1>. QED  BY <1>1, <1>2

LEMMA HandOverType ==
  ASSUME TypeInv, NEW f \in Fifo, NotFull(f), HandOver(f)
  PROVE  /\ count' \in [Fifo -> Nat] /\ \A g \in Fifo : count'[g] <= Depth[g]
         /\ txreq' \in [Fifo -> BOOLEAN]
<1>1. /\ count' \in [Fifo -> Nat] /\ \A g \in Fifo : count'[g] <= Depth[g]
  BY RegisterTypes, SMT DEF TypeInv, HandOver, NotFull
<1>. QED  BY <1>1, RegisterTypes DEF TypeInv, HandOver

(* Reporting success changes nothing else about a call.                    *)
LEMMA FlagUpdate ==
  ASSUME NEW A, NEW B, NEW C, NEW D, NEW c \in [fifo : A, words : B, seq : C, ok : D], NEW x \in D
  PROVE  /\ [c EXCEPT !.ok = x] \in [fifo : A, words : B, seq : C, ok : D]
         /\ [c EXCEPT !.ok = x].fifo = c.fifo /\ [c EXCEPT !.ok = x].words = c.words
         /\ [c EXCEPT !.ok = x].seq = c.seq
  BY SMT

LEMMA CallDone ==
  ASSUME NEW c \in CallType
  PROVE  /\ [c EXCEPT !.ok = TRUE] \in CallType
         /\ [c EXCEPT !.ok = TRUE].fifo = c.fifo /\ [c EXCEPT !.ok = TRUE].words = c.words
  BY FlagUpdate, Zenon DEF CallType

LEMMA NextFrameType ==
  ASSUME TypeInv, pc = "uinc", NextFrame
  PROVE  /\ pc' \in {"idle", "status"} /\ op' \in OpType /\ calls' \in Seq(CallType)
         /\ ret' = ret \/ ret' \in RetType
<1>. USE DEF TypeInv
<1>1. calls # <<>> /\ op.rest # <<>>  BY DEF InHand
<1>2. This \in DOMAIN calls  BY <1>1, CallTypes, SMT DEF This
<1>3. [calls[This] EXCEPT !.ok = TRUE] \in CallType
  <2>1. calls[This] \in CallType  BY <1>2, CallTypes
  <2>. QED  BY <2>1, CallDone
<1>4. calls' = [calls EXCEPT ![This] = [calls[This] EXCEPT !.ok = TRUE]]  BY DEF NextFrame
<1>5. calls' \in Seq(CallType)
  <2>. DEFINE c == [calls[This] EXCEPT !.ok = TRUE]
  <2>1. c \in CallType /\ calls' = [calls EXCEPT ![This] = c]  BY <1>3, <1>4
  <2>. HIDE DEF c
  <2>. QED  BY <1>2, <2>1, CallTypes, SMT
<1>6. CASE op.batch
  <2>1. op.rest \in Seq(Nat) /\ op.acc \in Nat /\ op \in OpType  BY OpFacts DEF TypeOK
  <2>2. Tail(op.rest) \in Seq(Nat) /\ op.acc + 1 \in Nat  BY <1>1, <2>1, SMT
  <2>. DEFINE o1 == [op EXCEPT !.rest = Tail(op.rest)]
              o2 == [o1 EXCEPT !.acc = op.acc + 1]
  <2>3. op' = [op EXCEPT !.rest = Tail(op.rest), !.acc = op.acc + 1]
    BY <1>6 DEF NextFrame
  <2>4. o1 \in OpType  BY <2>1, <2>2, OpUpdate
  <2>5. o2 \in OpType
    <3>. HIDE DEF o1
    <3>. QED  BY <2>2, <2>4, OpUpdate
  <2>6. op' = o2  BY <2>3
  <2>. QED  BY <1>5, <1>6, <2>5, <2>6 DEF NextFrame
<1>7. CASE ~op.batch
  <2>1. Return("ok", 1)  BY <1>7 DEF NextFrame
  <2>2. 1 \in Nat  BY SMT
  <2>3. pc' = "idle" /\ op' \in OpType /\ ret' \in RetType  BY <2>1, <2>2, ReturnType
  <2>. QED  BY <1>5, <2>3
<1>. QED  BY <1>6, <1>7

LEMMA TypeUinc == ASSUME TypeInv, WriteUinc \/ UincLate PROVE TypeInv'
<1>. USE DEF TypeInv
<1>1. op.fifo \in Fifo /\ op.acc \in Nat  BY OpFacts
<1>2. pc = "uinc" /\ HandOver(op.fifo) /\ NotFull(op.fifo)
  BY DEF WriteUinc, UincLate, InHand
<1>3. /\ count' \in [Fifo -> Nat] /\ \A g \in Fifo : count'[g] <= Depth[g]
      /\ txreq' \in [Fifo -> BOOLEAN]
  BY <1>1, <1>2, HandOverType
<1>4. CASE WriteUinc
  <2>1. NextFrame  BY <1>4 DEF WriteUinc
  <2>2. /\ pc' \in {"idle", "status"} /\ op' \in OpType /\ calls' \in Seq(CallType)
        /\ ret' = ret \/ ret' \in RetType
    BY <1>2, <2>1, NextFrameType
  <2>3. TypeOK'  BY <1>3, <1>4, <2>2, TypeParts DEF WriteUinc, TypeOK
  <2>. QED  BY <2>2, <2>3 DEF InHand
<1>5. CASE UincLate
  <2>1. Return("spi", op.acc)  BY <1>5 DEF UincLate
  <2>2. pc' = "idle" /\ op' \in OpType /\ ret' \in RetType  BY <1>1, <2>1, ReturnType
  <2>3. TypeOK'  BY <1>3, <1>5, <2>2, TypeParts DEF UincLate, TypeOK
  <2>. QED  BY <2>2, <2>3 DEF InHand
<1>. QED  BY <1>4, <1>5

LEMMA TypeDriver == ASSUME TypeInv, Driver PROVE TypeInv'
<1>1. op.acc \in Nat  BY OpFacts DEF TypeInv
<1>2. CASE BatchDone  BY <1>1, <1>2, TypeReturn DEF BatchDone
<1>3. CASE StatusFails  BY <1>1, <1>3, TypeReturn DEF StatusFails
<1>4. CASE StatusFull
  <2>1. Return("ok", op.acc) \/ Return("full", op.acc)  BY <1>4 DEF StatusFull
  <2>. QED  BY <1>1, <1>4, <2>1, TypeReturn DEF StatusFull
<1>5. CASE StatusRefused  BY <1>1, <1>5, TypeReturn DEF StatusRefused
<1>6. CASE StatusOk  BY <1>6, TypeStatusOk
<1>7. CASE WriteRam \/ WriteRamFails  BY <1>7, TypeWriteRam
<1>8. CASE WriteUinc \/ UincLate  BY <1>8, TypeUinc
<1>9. CASE UincLost  BY <1>1, <1>9, TypeReturn DEF UincLost
<1>. QED
  BY <1>2, <1>3, <1>4, <1>5, <1>6, <1>7, <1>8, <1>9 DEF Driver

LEMMA TypeStep == ASSUME TypeInv, [Next]_vars PROVE TypeInv'
<1>1. CASE Application  BY <1>1, TypeApplication
<1>2. CASE Driver  BY <1>2, TypeDriver
<1>3. CASE Chip  BY <1>3, TypeChip
<1>4. CASE UNCHANGED vars
  BY <1>4 DEF vars, driverVars, chipVars, history, TypeInv, TypeOK, InHand, This, ThisLen, NotFull
<1>. QED  BY <1>1, <1>2, <1>3, <1>4 DEF Next

LEMMA TypeAlways == Spec => []TypeInv
  BY TypeInit, TypeStep, PTL DEF Spec

(* Every state of the transmit path is well typed: no register or local    *)
(* leaves its range, whatever transactions fail and whatever CiFIFOUA      *)
(* reads back.  In particular no FIFO ever holds more than Depth elements, *)
(* although the check for a free slot and the UINC that fills it are two   *)
(* transactions apart.                                                     *)
THEOREM TypeCorrect == Spec => []TypeOK
<1>1. TypeInv => TypeOK  BY DEF TypeInv
<1>. QED  BY <1>1, TypeAlways, PTL

(* The RAM burst of transmit_raw stays inside the message RAM, even for    *)
(* frames longer than PLSIZE and for any value read back from CiFIFOUA.    *)
THEOREM WritesStayInRam == Spec => []WriteInRam
<1>1. TypeInv => WriteInRam  BY DEF TypeInv, InHand, WriteInRam
<1>. QED  BY <1>1, TypeAlways, PTL

-----------------------------------------------------------------------------
(* Two elements share no word: neither elements of one FIFO, because the   *)
(* ring indices differ, nor elements of two, because the FIFOs' parts of   *)
(* the RAM are disjoint.                                                   *)
LEMMA SlotDistinct ==
  ASSUME TypeOK, NEW f \in Fifo, NEW k \in Nat, NEW m \in Nat,
         k < Depth[f], m < Depth[f], k # m
  PROVE  Slot(f, k) # Slot(f, m)
<1>1. tail[f] \in Nat /\ tail[f] < Depth[f] /\ Depth[f] \in Nat  BY RegisterTypes
<1>. QED  BY <1>1, SMT DEF Slot

LEMMA WordsApart ==
  ASSUME NEW b \in Nat, NEW x \in Nat, NEW y \in Nat, NEW e \in Nat,
         x + e <= y \/ y + e <= x,
         NEW i \in Nat, NEW j \in Nat, i < e, j < e
  PROVE  b + x + i # b + y + j
  BY SMT

LEMMA ElemsDisjoint ==
  ASSUME TypeOK, NEW f \in Fifo, NEW g \in Fifo, NEW k \in Nat, NEW m \in Nat,
         k < Depth[f], m < Depth[g], f # g \/ k # m,
         NEW i \in Nat, NEW j \in Nat, i < Stride(f), j < Stride(g)
  PROVE  ElemAddr(f, k) + i # ElemAddr(g, m) + j
<1>1. Depth[f] \in Nat /\ Depth[g] \in Nat  BY RegisterTypes
<1>2. Stride(f) \in Nat /\ Stride(g) \in Nat /\ Base[f] \in Nat /\ Base[g] \in Nat
  BY StrideNat, LayoutAssumption
<1>3. CASE f = g
  <2>. DEFINE s == Slot(f, k)
              d == Slot(f, m)
              e == Stride(f)
  <2>1. s \in Nat /\ d \in Nat /\ s # d
    <3>1. k <= Depth[f] /\ m <= Depth[f]  BY <1>1, <1>3, SMT
    <3>. QED  BY <1>3, <3>1, SlotRange, SlotDistinct
  <2>2. ElemAddr(f, k) = Base[f] + s * e /\ ElemAddr(g, m) = Base[f] + d * e
    BY <1>3 DEF ElemAddr
  <2>3. e \in Nat /\ i < e /\ j < e  BY <1>2, <1>3
  <2>. HIDE DEF s, d, e
  <2>4. s < d \/ d < s  BY <2>1, SMT
  <2>5. s * e \in Nat /\ d * e \in Nat /\ (s * e + e <= d * e \/ d * e + e <= s * e)
    BY <2>1, <2>3, <2>4, StrideMono
  <2>. QED  BY <1>2, <2>2, <2>3, <2>5, WordsApart
<1>4. CASE f # g
  <2>. DEFINE x == ElemAddr(f, k)
              y == ElemAddr(g, m)
              endf == Depth[f] * Stride(f)
              endg == Depth[g] * Stride(g)
  <2>1. k <= Depth[f] /\ m <= Depth[g]  BY <1>1, SMT
  <2>2. x \in Nat /\ Base[f] <= x /\ x + Stride(f) <= Base[f] + endf
    BY <2>1, ElemInRam
  <2>3. y \in Nat /\ Base[g] <= y /\ y + Stride(g) <= Base[g] + endg
    BY <2>1, ElemInRam
  <2>4. Base[f] + endf <= Base[g] \/ Base[g] + endg <= Base[f]
    BY <1>4, LayoutAssumption
  <2>5. endf \in Nat /\ endg \in Nat  BY <1>1, <1>2, SMT
  <2>. HIDE DEF x, y, endf, endg
  <2>6. x + i # y + j  BY <1>2, <2>2, <2>3, <2>4, <2>5, SMT
  <2>. QED  BY <2>6 DEF x, y
<1>. QED  BY <1>3, <1>4

-----------------------------------------------------------------------------
(* The frames still to be written fit their FIFO, and so do those started. *)
RestFits == \A i \in 1 .. Len(op.rest) : op.rest[i] <= PlSize[op.fifo]
CallsFit == \A n \in DOMAIN calls : calls[n].words <= PlSize[calls[n].fifo]

SlotInv == TypeInv /\ RestFits /\ CallsFit /\ SlotStillMine

LEMMA NoOpFits == NoOp.rest = <<>>
  BY SMT DEF NoOp

LEMMA ReturnFits ==
  ASSUME NEW res, NEW acc, Return(res, acc)
  PROVE  pc' = "idle" /\ RestFits' /\ SlotStillMine'
<1>1. pc' = "idle" /\ op' = NoOp  BY DEF Return
<1>2. op'.rest = <<>>  BY <1>1, NoOpFits
<1>3. Len(op'.rest) = 0  BY <1>2, SMT
<1>4. RestFits'  BY <1>3, SMT DEF RestFits
<1>. QED  BY <1>1, <1>4 DEF SlotStillMine

LEMMA SlotInit == Init => SlotInv
<1>. SUFFICES ASSUME Init PROVE SlotInv  OBVIOUS
<1>1. Len(op.rest) = 0  BY NoOpFits, SMT DEF Init
<1>2. RestFits  BY <1>1, SMT DEF RestFits
<1>3. CallsFit  BY SMT DEF Init, CallsFit
<1>. QED  BY <1>2, <1>3, TypeInit DEF SlotInv, SlotStillMine, Init

LEMMA NewOpRest ==
  ASSUME NEW f \in Fifo, NEW r \in Seq(Nat), NEW n \in Nat
  PROVE  /\ [NoOp EXCEPT !.fifo = f, !.rest = r, !.first = n].rest = r
         /\ [NoOp EXCEPT !.fifo = f, !.rest = r, !.first = n].fifo = f
         /\ [NoOp EXCEPT !.fifo = f, !.batch = TRUE, !.first = n, !.rest = r].rest = r
         /\ [NoOp EXCEPT !.fifo = f, !.batch = TRUE, !.first = n, !.rest = r].fifo = f
  BY NoOpType, SMT DEF OpType

LEMMA SlotApplication ==
  ASSUME FramesFit, SlotInv, Application
  PROVE  RestFits' /\ CallsFit' /\ SlotStillMine'
<1>. USE DEF SlotInv, TypeInv
<1>1. ASSUME NEW f \in Fifo, NEW w \in Sizes[f], Transmit(f, w)
      PROVE  RestFits' /\ CallsFit' /\ SlotStillMine'
  <2>1. w \in Nat /\ w <= PlSize[f]  BY BoundsAssumption DEF FramesFit
  <2>2. <<w>> \in Seq(Nat) /\ Len(<<w>>) = 1 /\ <<w>>[1] = w  BY <2>1, SMT
  <2>3. op' = [NoOp EXCEPT !.fifo = f, !.rest = <<w>>, !.first = Len(calls)]
    BY <1>1 DEF Transmit
  <2>4. op'.fifo = f /\ op'.rest = <<w>>  BY <2>2, <2>3, CallTypes, NewOpRest
  <2>5. RestFits'
    <3>1. ASSUME NEW i \in 1 .. 1 PROVE <<w>>[i] <= PlSize[f]
      <4>1. i = 1  BY SMT
      <4>. QED  BY <2>1, <2>2, <4>1
    <3>. QED  BY <2>2, <2>4, <3>1 DEF RestFits
  <2>. QED  BY <1>1, <2>5 DEF Transmit, CallsFit, SlotStillMine, history
<1>2. ASSUME NEW f \in Fifo, NEW ws \in Batches(f), TransmitBatch(f, ws)
      PROVE  RestFits' /\ CallsFit' /\ SlotStillMine'
  <2>1. PICK n \in 0 .. MaxBatch : ws \in [1 .. n -> Sizes[f]]  BY <1>2 DEF Batches
  <2>2. n \in Nat  BY <2>1, BoundsAssumption, SMT
  <2>3. Sizes[f] \subseteq Nat /\ \A w \in Sizes[f] : w <= PlSize[f]
    BY BoundsAssumption DEF FramesFit
  <2>4. ws \in Seq(Nat) /\ Len(ws) = n  BY <2>1, <2>2, <2>3, SMT
  <2>. DEFINE m == IF Len(ws) < BatchCap THEN Len(ws) ELSE BatchCap
              r == SubSeq(ws, 1, m)
  <2>5. m \in Nat /\ m <= Len(ws)  BY <2>4, BoundsAssumption, SMT
  <2>6. op' = [NoOp EXCEPT !.fifo = f, !.batch = TRUE, !.first = Len(calls), !.rest = r]
    BY <1>2 DEF TransmitBatch
  <2>. HIDE DEF m
  <2>7. r \in Seq(Nat) /\ Len(r) = m /\ \A i \in 1 .. m : r[i] = ws[i]
    BY <2>4, <2>5, SMT
  <2>. HIDE DEF r
  <2>8. op'.fifo = f /\ op'.rest = r  BY <2>6, <2>7, CallTypes, NewOpRest
  <2>9. \A i \in 1 .. m : ws[i] \in Sizes[f]  BY <2>1, <2>2, <2>4, <2>5, SMT
  <2>10. RestFits'  BY <2>3, <2>7, <2>8, <2>9 DEF RestFits
  <2>. QED  BY <1>2, <2>10 DEF TransmitBatch, CallsFit, SlotStillMine, history
<1>3. ASSUME NEW f \in Fifo, ResetFifo(f)
      PROVE  RestFits' /\ CallsFit' /\ SlotStillMine'
  BY <1>3 DEF ResetFifo, RestFits, CallsFit, SlotStillMine, driverVars
<1>. QED  BY <1>1, <1>2, <1>3 DEF Application

(* When the chip sends the oldest element, every other one, and the free   *)
(* head slot, keeps its place and is one step nearer to the tail.          *)
LEMMA SendShifts ==
  ASSUME TypeOK, NEW f \in Fifo, ChipSend(f), NEW k \in Nat, k < Depth[f]
  PROVE  ElemAddr(f, k)' = ElemAddr(f, k + 1)
<1>1. /\ tail[f] \in Nat /\ tail[f] < Depth[f] /\ Depth[f] \in Nat
      /\ tail'[f] = Slot(f, 1)
  BY RegisterTypes DEF ChipSend
<1>2. Slot(f, k)' = Slot(f, k + 1)  BY <1>1, SMT DEF Slot
<1>. QED  BY <1>2 DEF ElemAddr

LEMMA SendLeaves ==
  ASSUME TypeOK, NEW f \in Fifo, ChipSend(f), NEW g \in Fifo, g # f, NEW k \in Nat
  PROVE  ElemAddr(g, k)' = ElemAddr(g, k) /\ count'[g] = count[g]
  BY RegisterTypes DEF ChipSend, ElemAddr, Slot

LEMMA SlotChip ==
  ASSUME SlotInv, Chip
  PROVE  RestFits' /\ CallsFit' /\ SlotStillMine'
<1>. USE DEF SlotInv, TypeInv
<1>1. CASE ChipMode
  BY <1>1 DEF ChipMode, RestFits, CallsFit, SlotStillMine, driverVars, history,
              NotFull, ElemAddr, Slot
<1>2. ASSUME NEW f \in Fifo, ChipSend(f)
      PROVE  RestFits' /\ CallsFit' /\ SlotStillMine'
  <2>1. RestFits' /\ CallsFit' /\ UNCHANGED <<pc, op>>
    BY <1>2 DEF ChipSend, RestFits, CallsFit, driverVars
  <2>2. ASSUME pc \in {"ram", "uinc"}
        PROVE  NotFull(op.fifo)' /\ op.at = ElemAddr(op.fifo, count[op.fifo])'
    <3>1. /\ op.fifo \in Fifo /\ NotFull(op.fifo)
          /\ op.at = ElemAddr(op.fifo, count[op.fifo])
      BY <2>2, OpFacts DEF SlotStillMine
    <3>2. CASE op.fifo = f
      <4>1. /\ count[f] \in Nat /\ count[f] > 0 /\ count[f] < Depth[f] /\ Depth[f] \in Nat
            /\ count'[f] = count[f] - 1
        BY <1>2, <3>1, <3>2, RegisterTypes DEF ChipSend, NotFull
      <4>2. PICK k \in Nat : k < Depth[f] /\ k = count[f] - 1
        BY <4>1, SMT
      <4>3. k + 1 = count[f]  BY <4>1, <4>2, SMT
      <4>4. ElemAddr(f, k)' = ElemAddr(f, k + 1)
        BY <1>2, <4>2, SendShifts
      <4>5. ElemAddr(f, k)' = op.at  BY <3>1, <3>2, <4>3, <4>4
      <4>6. op'.fifo = f /\ count'[f] = k  BY <2>1, <3>2, <4>1, <4>2
      <4>7. ElemAddr(op.fifo, count[op.fifo])' = ElemAddr(f, k)'
        BY <4>6 DEF ElemAddr, Slot
      <4>. QED  BY <2>1, <4>2, <4>5, <4>6, <4>7 DEF NotFull
    <3>3. CASE op.fifo # f
      <4>1. count[op.fifo] \in Nat  BY <3>1, RegisterTypes
      <4>2. ElemAddr(op.fifo, count[op.fifo])' = ElemAddr(op.fifo, count[op.fifo])
            /\ count'[op.fifo] = count[op.fifo]
        BY <1>2, <2>1, <3>1, <3>3, <4>1, SendLeaves
      <4>. QED  BY <2>1, <3>1, <4>2 DEF NotFull
    <3>. QED  BY <3>2, <3>3
  <2>. QED  BY <2>1, <2>2 DEF SlotStillMine
<1>. QED  BY <1>1, <1>2 DEF Chip

(* With CorruptShows, an address that passes the checks is the head slot's *)
(* own.                                                                    *)
LEMMA PlausibleIsHead ==
  ASSUME CorruptShows, TypeOK, StatusOk
  PROVE  op'.at = ElemAddr(op.fifo, count[op.fifo])
<1>. DEFINE h == ElemAddr(op.fifo, count[op.fifo])
<1>1. PICK ua \in {UserAddress(op.fifo)} \cup CorruptUA :
        Plausible(ua, 2 + Head(op.rest)) /\ op' = [op EXCEPT !.at = ua \div 4]
  BY DEF StatusOk
<1>2. op.fifo \in Fifo /\ op \in OpType  BY OpFacts DEF TypeOK
<1>3. count[op.fifo] \in Nat /\ count[op.fifo] <= Depth[op.fifo]
  BY <1>2, RegisterTypes
<1>4. h \in Nat  BY <1>2, <1>3, ElemInRam
<1>5. ua \notin CorruptUA
  <2>1. ua % 4 = 0 /\ ua + 4 * (2 + Head(op.rest)) <= 4 * RamWords
    BY <1>1 DEF Plausible
  <2>2. SUFFICES ASSUME ua \in CorruptUA PROVE FALSE  OBVIOUS
  <2>3. ua \in Nat /\ RamWords \in Nat /\ Head(op.rest) \in Nat
    BY <2>2, BoundsAssumption, LayoutAssumption, StatusOkFacts
  <2>4. ua % 4 # 0 \/ ua + 8 > 4 * RamWords  BY <2>2 DEF CorruptShows
  <2>. QED  BY <2>1, <2>3, <2>4, SMT
<1>6. ua = 4 * h  BY <1>1, <1>5 DEF UserAddress
<1>. HIDE DEF h
<1>7. ua \div 4 = h  BY <1>4, <1>6, TimesFour
<1>8. op'.at = ua \div 4  BY <1>1, <1>2, SMT DEF OpType
<1>. QED  BY <1>7, <1>8 DEF h

LEMMA SlotStatusOk ==
  ASSUME CorruptShows, SlotInv, StatusOk
  PROVE  RestFits' /\ CallsFit' /\ SlotStillMine'
<1>. USE DEF SlotInv, TypeInv
<1>1. /\ op.rest # <<>> /\ op'.rest = op.rest /\ op'.fifo = op.fifo
      /\ op.rest \in Seq(Nat) /\ Head(op.rest) \in Nat
  BY StatusOkFacts, OpFacts
<1>2. RestFits'  BY <1>1 DEF RestFits
<1>3. Head(op.rest) <= PlSize[op.fifo]
  <2>1. 1 \in 1 .. Len(op.rest) /\ Head(op.rest) = op.rest[1]  BY <1>1, SMT
  <2>. QED  BY <2>1 DEF RestFits
<1>4. CallsFit'
  <2>. DEFINE c == [fifo |-> op.fifo, words |-> Head(op.rest), seq |-> seq % SeqMod, ok |-> FALSE]
  <2>1. c.fifo = op.fifo /\ c.words = Head(op.rest)  OBVIOUS
  <2>2. calls' = Append(calls, c)  BY DEF StatusOk
  <2>. HIDE DEF c
  <2>3. ASSUME NEW n \in DOMAIN calls' 
                PROVE (n \in DOMAIN calls /\ calls'[n] = calls[n]) \/ calls'[n] = c
    BY <2>2, <2>3, CallTypes, SMT
  <2>. QED  BY <1>3, <2>1, <2>3 DEF CallsFit
<1>5. NotFull(op.fifo)' /\ ElemAddr(op.fifo, count[op.fifo])' = ElemAddr(op.fifo, count[op.fifo])
  BY <1>1 DEF StatusOk, NotFull, ElemAddr, Slot, chipVars
<1>6. op'.at = ElemAddr(op.fifo, count[op.fifo])'  BY <1>5, PlausibleIsHead
<1>. QED  BY <1>2, <1>4, <1>5, <1>6 DEF SlotStillMine

LEMMA SlotNextFrame ==
  ASSUME SlotInv, pc = "uinc", NextFrame
  PROVE  RestFits' /\ CallsFit' /\ SlotStillMine'
<1>. USE DEF SlotInv, TypeInv
<1>1. calls # <<>> /\ op.rest # <<>>  BY DEF InHand
<1>2. This \in DOMAIN calls /\ calls[This] \in CallType  BY <1>1, CallTypes, SMT DEF This
<1>3. CallsFit'
  <2>. DEFINE c == [calls[This] EXCEPT !.ok = TRUE]
  <2>1. c.fifo = calls[This].fifo /\ c.words = calls[This].words  BY <1>2, CallDone
  <2>2. calls' = [calls EXCEPT ![This] = c]  BY DEF NextFrame
  <2>. HIDE DEF c
  <2>3. DOMAIN calls' = DOMAIN calls
        /\ \A n \in DOMAIN calls : calls'[n] = IF n = This THEN c ELSE calls[n]
    BY <1>2, <2>2
  <2>. QED  BY <2>1, <2>3 DEF CallsFit
<1>4. CASE op.batch
  <2>1. op.rest \in Seq(Nat) /\ op \in OpType  BY OpFacts DEF TypeOK
  <2>. DEFINE r == Tail(op.rest)
              o1 == [op EXCEPT !.rest = r]
              a == op.acc + 1
  <2>2. op' = [o1 EXCEPT !.acc = a] /\ pc' = "status"  BY <1>4 DEF NextFrame
  <2>3. r \in Seq(Nat)  BY <1>1, <2>1, SMT
  <2>4. o1 \in OpType  BY <2>1, <2>3, OpUpdate
  <2>5. o1.rest = r /\ o1.fifo = op.fifo
    <3>. HIDE DEF r
    <3>. QED  BY <2>1, SMT DEF OpType
  <2>6. op'.rest = o1.rest /\ op'.fifo = o1.fifo
    <3>. HIDE DEF o1, a
    <3>. QED  BY <2>2, <2>4, SMT DEF OpType
  <2>7. Len(r) = Len(op.rest) - 1 /\ \A i \in 1 .. Len(r) : r[i] = op.rest[i + 1]
    BY <1>1, <2>1, SMT
  <2>8. \A i \in 1 .. Len(r) : i + 1 \in 1 .. Len(op.rest)
    <3>1. Len(op.rest) \in Nat  BY <2>1, SMT
    <3>. QED  BY <2>7, <3>1, SMT
  <2>9. RestFits'  BY <2>5, <2>6, <2>7, <2>8 DEF RestFits
  <2>. QED  BY <1>3, <2>2, <2>9 DEF SlotStillMine
<1>5. CASE ~op.batch
  <2>1. Return("ok", 1)  BY <1>5 DEF NextFrame
  <2>. QED  BY <1>3, <2>1, ReturnFits
<1>. QED  BY <1>4, <1>5

LEMMA SlotDriver ==
  ASSUME CorruptShows, SlotInv, Driver
  PROVE  RestFits' /\ CallsFit' /\ SlotStillMine'
<1>. USE DEF SlotInv, TypeInv
<1>1. ASSUME NEW res, NEW acc, Return(res, acc), UNCHANGED calls
      PROVE  RestFits' /\ CallsFit' /\ SlotStillMine'
  BY <1>1, ReturnFits DEF CallsFit
<1>2. CASE BatchDone \/ StatusFails \/ StatusFull \/ StatusRefused
           \/ WriteRamFails \/ UincLost \/ UincLate
  BY <1>1, <1>2 DEF BatchDone, StatusFails, StatusFull, StatusRefused, WriteRamFails,
                    UincLost, UincLate
<1>3. CASE StatusOk  BY <1>3, SlotStatusOk
<1>4. CASE WriteRam
  BY <1>4 DEF WriteRam, RestFits, CallsFit, SlotStillMine, NotFull, ElemAddr, Slot, history
<1>5. CASE WriteUinc  BY <1>5, SlotNextFrame DEF WriteUinc
<1>. QED  BY <1>2, <1>3, <1>4, <1>5 DEF Driver

LEMMA SlotStep == ASSUME CorruptShows, FramesFit, SlotInv, [Next]_vars PROVE SlotInv'
<1>1. TypeInv'  BY TypeStep DEF SlotInv
<1>2. CASE Application  BY <1>1, <1>2, SlotApplication DEF SlotInv
<1>3. CASE Driver  BY <1>1, <1>3, SlotDriver DEF SlotInv
<1>4. CASE Chip  BY <1>1, <1>4, SlotChip DEF SlotInv
<1>5. CASE UNCHANGED vars
  BY <1>1, <1>5 DEF vars, driverVars, chipVars, history, SlotInv, RestFits, CallsFit,
                    SlotStillMine, NotFull, ElemAddr, Slot
<1>. QED  BY <1>2, <1>3, <1>4, <1>5 DEF Next

(* The slot that transmit_raw was given by its first transaction is still  *)
(* free, and still the head slot, in its second and third, however many    *)
(* elements the chip sends meanwhile.                                      *)
THEOREM SlotStaysMine ==
  ASSUME CorruptShows, FramesFit
  PROVE  Spec => []SlotStillMine
<1>1. SlotInv => SlotStillMine  BY DEF SlotInv
<1>2. SlotInv /\ [Next]_vars => SlotInv'  BY SlotStep
<1>. QED  BY <1>1, <1>2, SlotInit, PTL DEF Spec

-----------------------------------------------------------------------------
(* RAM changes by a burst only, and a burst stays in the head element.     *)
LEMMA RamSteps ==
  ASSUME SlotInv, [Next]_vars
  PROVE  \/ ram' = ram
         \/ /\ pc = "ram" /\ ThisLen \in Nat /\ ThisLen <= Stride(op.fifo)
            /\ \E j \in 0 .. ThisLen : ram' = Written(j)
<1>. USE DEF SlotInv, TypeInv
<1>1. CASE WriteRam \/ WriteRamFails
  <2>1. pc = "ram"  BY <1>1 DEF WriteRam, WriteRamFails
  <2>2. calls # <<>> /\ calls[This].fifo = op.fifo  BY <2>1 DEF InHand
  <2>3. This \in DOMAIN calls  BY <2>2, CallTypes, SMT DEF This
  <2>4. calls[This].words \in Nat /\ calls[This].words <= PlSize[op.fifo]
    BY <2>2, <2>3, CallTypes DEF CallsFit
  <2>5. PlSize[op.fifo] \in Nat  BY OpFacts, LayoutAssumption
  <2>6. ThisLen \in Nat /\ ThisLen <= Stride(op.fifo)
    BY <2>4, <2>5, SMT DEF ThisLen, Stride
  <2>7. ThisLen \in 0 .. ThisLen /\ 0 \in 0 .. ThisLen  BY <2>6, SMT
  <2>8. \E j \in 0 .. ThisLen : ram' = Written(j)
    BY <1>1, <2>7 DEF WriteRam, WriteRamFails
  <2>. QED  BY <2>1, <2>6, <2>8
<1>2. CASE Application
  BY <1>2 DEF Application, Transmit, TransmitBatch, ResetFifo, chipVars
<1>3. CASE Chip
  BY <1>3 DEF Chip, ChipMode, ChipSend
<1>4. CASE BatchDone \/ StatusFails \/ StatusFull \/ StatusRefused \/ StatusOk
           \/ WriteUinc \/ UincLost \/ UincLate
  BY <1>4 DEF BatchDone, StatusFails, StatusFull, StatusRefused, StatusOk,
              WriteUinc, UincLost, UincLate, chipVars
<1>5. CASE UNCHANGED vars  BY <1>5 DEF vars, chipVars
<1>. QED  BY <1>1, <1>2, <1>3, <1>4, <1>5 DEF Next, Driver

LEMMA QueuedStays ==
  ASSUME SlotInv, [Next]_vars, NEW f \in Fifo, NEW k \in 0 .. count[f] - 1,
         NEW i \in 0 .. Stride(f) - 1
  PROVE  ram'[ElemAddr(f, k) + i] = ram[ElemAddr(f, k) + i]
<1>. USE DEF SlotInv, TypeInv
<1>1. SUFFICES ASSUME pc = "ram", ThisLen \in Nat, ThisLen <= Stride(op.fifo),
                      NEW j \in 0 .. ThisLen, ram' = Written(j)
               PROVE  ram'[ElemAddr(f, k) + i] = ram[ElemAddr(f, k) + i]
  BY RamSteps
<1>. DEFINE x == ElemAddr(f, k) + i
<1>2. /\ count[f] \in Nat /\ count[f] <= Depth[f] /\ Depth[f] \in Nat
      /\ Stride(f) \in Nat
  BY RegisterTypes, StrideNat
<1>3. k \in Nat /\ k < Depth[f] /\ k <= Depth[f] /\ i \in Nat /\ i < Stride(f) /\ k < count[f]
  BY <1>2, SMT
<1>4. ElemAddr(f, k) \in Nat /\ ElemAddr(f, k) + Stride(f) <= RamWords
  BY <1>3, ElemInRam
<1>5. x \in 0 .. RamWords - 1
  BY <1>2, <1>3, <1>4, LayoutAssumption, SMT
<1>. DEFINE g == op.fifo
            m == count[g]
<1>6. /\ g \in Fifo /\ m \in Nat /\ m < Depth[g] /\ op.at = ElemAddr(g, m) /\ op.at \in Nat
      /\ Stride(g) \in Nat
  BY <1>1, OpFacts, RegisterTypes, StrideNat DEF SlotStillMine, NotFull
<1>7. f # g \/ k # m  BY <1>2, <1>3, SMT
<1>8. x \notin op.at .. op.at + j - 1
  <2>. SUFFICES ASSUME x \in op.at .. op.at + j - 1 PROVE FALSE  OBVIOUS
  <2>1. PICK d \in Nat : x = op.at + d /\ d < j
    <3>. HIDE DEF x
    <3>1. x - op.at \in Nat /\ x = op.at + (x - op.at) /\ x - op.at < j
      BY <1>1, <1>5, <1>6, SMT
    <3>. QED  BY <3>1
  <2>2. d < Stride(g)  BY <1>1, <1>6, <2>1, SMT
  <2>3. ElemAddr(f, k) + i # ElemAddr(g, m) + d
    BY <1>3, <1>6, <1>7, <2>1, <2>2, ElemsDisjoint
  <2>. QED  BY <1>6, <2>1, <2>3
<1>9. DOMAIN ram = 0 .. RamWords - 1  BY DEF TypeOK
<1>. QED  BY <1>1, <1>5, <1>8, <1>9 DEF Written

(* No step changes a word of an element that is queued, not even a burst   *)
(* that breaks off: what transmit_raw writes lies outside every element    *)
(* that waits to be sent.                                                  *)
THEOREM QueueStaysUntouched ==
  ASSUME CorruptShows, FramesFit
  PROVE  Spec => QueuedUntouched
<1>1. SlotInv /\ [Next]_vars => SlotInv'  BY SlotStep
<1>2. SlotInv /\ [Next]_vars =>
        [\A f \in Fifo : \A k \in 0 .. count[f] - 1 : \A i \in 0 .. Stride(f) - 1 :
           ram'[ElemAddr(f, k) + i] = ram[ElemAddr(f, k) + i]]_vars
  BY QueuedStays
<1>. QED  BY <1>1, <1>2, SlotInit, PTL DEF Spec, QueuedUntouched

-----------------------------------------------------------------------------
LEMMA HeadFits == ASSUME SlotInv PROVE LastSlotUsable
<1>. USE DEF SlotInv, TypeInv
<1>. SUFFICES ASSUME AtStatus, NotFull(op.fifo)
              PROVE  Plausible(UserAddress(op.fifo), 2 + Head(op.rest))
  BY DEF LastSlotUsable
<1>. DEFINE h == ElemAddr(op.fifo, count[op.fifo])
            w == Head(op.rest)
            p == PlSize[op.fifo]
<1>1. op.fifo \in Fifo /\ op.rest \in Seq(Nat) /\ op.rest # <<>>
  BY OpFacts DEF AtStatus
<1>2. w \in Nat /\ w <= p
  <2>1. 1 \in 1 .. Len(op.rest) /\ w = op.rest[1] /\ w \in Nat  BY <1>1, SMT
  <2>. QED  BY <2>1 DEF RestFits
<1>3. p \in Nat /\ RamWords \in Nat /\ Stride(op.fifo) = 2 + p
  BY <1>1, LayoutAssumption DEF Stride
<1>4. h \in Nat /\ h + (2 + p) <= RamWords
  <2>1. count[op.fifo] \in Nat /\ count[op.fifo] <= Depth[op.fifo]  BY <1>1, RegisterTypes
  <2>. QED  BY <1>1, <1>3, <2>1, ElemInRam
<1>5. UserAddress(op.fifo) = 4 * h  BY DEF UserAddress
<1>. HIDE DEF h, w, p
<1>6. (4 * h) % 4 = 0  BY <1>4, TimesFour
<1>7. 4 * h < 4 * RamWords /\ 4 * h + 4 * (2 + w) <= 4 * RamWords
  BY <1>2, <1>3, <1>4, SMT
<1>. QED  BY <1>5, <1>6, <1>7 DEF Plausible, w

(* The bounds checks of transmit_raw never refuse a frame that fits: the   *)
(* FIFOs may fill the message RAM to its last word.                        *)
THEOREM LastSlotIsUsable ==
  ASSUME CorruptShows, FramesFit
  PROVE  Spec => []LastSlotUsable
<1>1. SlotInv => LastSlotUsable  BY HeadFits
<1>2. SlotInv /\ [Next]_vars => SlotInv'  BY SlotStep
<1>. QED  BY <1>1, <1>2, SlotInit, PTL DEF Spec

-----------------------------------------------------------------------------
(* The object of call n is in the RAM from word x on; the element of f     *)
(* that is k steps from the tail holds the object of a call for f.         *)
Holds(x, n) == \A i \in 1 .. 2 + calls[n].words : ram[x + i - 1] = <<n, i>>

Owner(f, k) == ram[ElemAddr(f, k)][1]
ElemOk(f, k) ==
  /\ Owner(f, k) \in DOMAIN calls /\ calls[Owner(f, k)].fifo = f
  /\ Holds(ElemAddr(f, k), Owner(f, k))

SentOk(f, o) == Intact(o) /\ calls[o[1][1]].fifo = f

QueueOk == \A f \in Fifo : \A k \in 0 .. count[f] - 1 : ElemOk(f, k)
HandOk  == pc = "uinc" => Holds(op.at, This)
WireOk  == \A f \in Fifo : \A k \in DOMAIN wire[f] : SentOk(f, wire[f][k])

ObjInv == SlotInv /\ QueueOk /\ HandOk /\ WireOk

-----------------------------------------------------------------------------
(* A call keeps its FIFO and its length; new ones are added at the end.    *)
LEMMA CallsKeep ==
  ASSUME TypeInv, [Next]_vars, NEW n \in DOMAIN calls
  PROVE  n \in DOMAIN calls' /\ calls'[n].fifo = calls[n].fifo /\ calls'[n].words = calls[n].words
<1>. USE DEF TypeInv
<1>1. CASE StatusOk
  <2>1. PICK c : calls' = Append(calls, c)  BY <1>1 DEF StatusOk
  <2>2. n \in DOMAIN calls' /\ calls'[n] = calls[n]  BY <2>1, CallTypes, SMT
  <2>. QED  BY <2>2
<1>2. CASE WriteUinc
  <2>1. calls # <<>> /\ This \in DOMAIN calls /\ calls[This] \in CallType
    <3>1. calls # <<>>  BY <1>2 DEF WriteUinc, InHand
    <3>. QED  BY <3>1, CallTypes, SMT DEF This
  <2>. DEFINE c == [calls[This] EXCEPT !.ok = TRUE]
  <2>2. c.fifo = calls[This].fifo /\ c.words = calls[This].words  BY <2>1, CallDone
  <2>3. calls' = [calls EXCEPT ![This] = c]  BY <1>2 DEF WriteUinc, NextFrame
  <2>. HIDE DEF c
  <2>4. n \in DOMAIN calls' /\ calls'[n] = IF n = This THEN c ELSE calls[n]  BY <2>3
  <2>. QED  BY <2>2, <2>4
<1>3. CASE Application
  BY <1>3 DEF Application, Transmit, TransmitBatch, ResetFifo, history
<1>4. CASE Chip  BY <1>4 DEF Chip, ChipMode, ChipSend, history
<1>5. CASE BatchDone \/ StatusFails \/ StatusFull \/ StatusRefused
           \/ WriteRam \/ WriteRamFails \/ UincLost \/ UincLate
  BY <1>5 DEF BatchDone, StatusFails, StatusFull, StatusRefused,
              WriteRam, WriteRamFails, UincLost, UincLate, history
<1>6. CASE UNCHANGED vars  BY <1>6 DEF vars, history
<1>. QED  BY <1>1, <1>2, <1>3, <1>4, <1>5, <1>6 DEF Next, Driver

(* So an object that is intact remains the object of the same call.        *)
LEMMA SentKeeps ==
  ASSUME TypeInv, [Next]_vars, NEW f, NEW o, SentOk(f, o)
  PROVE  SentOk(f, o)'
<1>1. o[1][1] \in DOMAIN calls  BY DEF SentOk, Intact
<1>2. /\ o[1][1] \in DOMAIN calls' /\ calls'[o[1][1]].fifo = calls[o[1][1]].fifo
      /\ calls'[o[1][1]].words = calls[o[1][1]].words
  BY <1>1, CallsKeep
<1>. QED  BY <1>2 DEF SentOk, Intact, Object

(* What the chip fetches from an element that holds an object is that      *)
(* object.                                                                 *)
LEMMA FetchedObject ==
  ASSUME SlotInv, NEW f \in Fifo, NEW k \in Nat, k < Depth[f], ElemOk(f, k)
  PROVE  /\ SentOk(f, Fetched(ElemAddr(f, k)))
         /\ Fetched(ElemAddr(f, k))[1][1] = Owner(f, k)
<1>. DEFINE n == Owner(f, k)
            x == ElemAddr(f, k)
            w == calls[n].words
<1>1. /\ n \in DOMAIN calls /\ calls[n].fifo = f /\ Holds(x, n)
      /\ w \in Nat /\ w <= PlSize[f]
  BY CallTypes DEF ElemOk, SlotInv, TypeInv, CallsFit
<1>2. x \in Nat /\ x + Stride(f) <= RamWords /\ Stride(f) \in Nat
  <2>1. k <= Depth[f]  BY RegisterTypes, SMT DEF SlotInv, TypeInv
  <2>. QED  BY <2>1, ElemInRam, StrideNat DEF SlotInv, TypeInv
<1>3. PlSize[f] \in Nat /\ RamWords \in Nat /\ Stride(f) = 2 + PlSize[f]
  BY LayoutAssumption DEF Stride
<1>. HIDE DEF x, w, n
<1>4. \A i \in 1 .. 2 + w : ram[x + i - 1] = <<n, i>>  BY <1>1 DEF Holds, w
<1>5. 1 \in 1 .. 2 + w /\ 2 \in 1 .. 2 + w /\ x + 2 - 1 = x + 1 /\ x + 1 - 1 = x
  BY <1>1, <1>2, SMT
<1>6. ram[x + 1] = <<n, 2>> /\ ram[x] = <<n, 1>>  BY <1>4, <1>5
<1>7. \A i \in 1 .. 2 + w : x + i - 1 < RamWords  BY <1>1, <1>2, <1>3, SMT
<1>8. Fetched(x) = [i \in 1 .. 2 + w |-> IF x + i - 1 < RamWords THEN ram[x + i - 1] ELSE <<0, 0>>]
  BY <1>1, <1>6 DEF Fetched, w
<1>9. Fetched(x) = Object(n, w)  BY <1>4, <1>7, <1>8 DEF Object
<1>10. Fetched(x)[1] = <<n, 1>>  BY <1>5, <1>9 DEF Object
<1>11. Fetched(x)[1][1] = n  BY <1>10
<1>12. SentOk(f, Fetched(x))  BY <1>1, <1>9, <1>11 DEF SentOk, Intact, w
<1>. QED  BY <1>11, <1>12 DEF x, n

-----------------------------------------------------------------------------
LEMMA ObjInit == Init => ObjInv
<1>. SUFFICES ASSUME Init PROVE ObjInv  OBVIOUS
<1>1. \A f \in Fifo : count[f] = 0 /\ wire[f] = <<>>  BY DEF Init
<1>2. QueueOk
  <2>. SUFFICES ASSUME NEW f \in Fifo, NEW k \in 0 .. count[f] - 1 PROVE FALSE
    BY DEF QueueOk
  <2>. QED  BY <1>1, SMT
<1>3. WireOk  BY <1>1, SMT DEF WireOk
<1>4. HandOk  BY DEF Init, HandOk
<1>. QED  BY <1>2, <1>3, <1>4, SlotInit DEF ObjInv

(* An element that is not sent keeps its object, wherever in the queue it  *)
(* is after the step.                                                      *)
LEMMA ElemKeeps ==
  ASSUME SlotInv, [Next]_vars, NEW f \in Fifo, NEW k \in 0 .. count[f] - 1, ElemOk(f, k),
         NEW q \in Nat, ElemAddr(f, q)' = ElemAddr(f, k)
  PROVE  ElemOk(f, q)' /\ Owner(f, q)' = Owner(f, k)
<1>. DEFINE n == Owner(f, k)
            x == ElemAddr(f, k)
            w == calls[n].words
<1>1. /\ n \in DOMAIN calls /\ calls[n].fifo = f /\ Holds(x, n)
      /\ w \in Nat /\ w <= PlSize[f]
  BY CallTypes DEF ElemOk, SlotInv, TypeInv, CallsFit
<1>2. n \in DOMAIN calls' /\ calls'[n].fifo = f /\ calls'[n].words = w
  BY <1>1, CallsKeep DEF SlotInv
<1>3. x \in Nat
  <2>1. k \in Nat /\ k <= Depth[f]  BY RegisterTypes, SMT DEF SlotInv, TypeInv
  <2>. QED  BY <2>1, ElemInRam DEF SlotInv, TypeInv
<1>4. PlSize[f] \in Nat /\ Stride(f) = 2 + PlSize[f]  BY LayoutAssumption DEF Stride
<1>5. \A i \in 0 .. Stride(f) - 1 : ram'[x + i] = ram[x + i]  BY QueuedStays
<1>6. ram[x] = <<n, 1>>
  <2>. HIDE DEF x, w, n
  <2>1. 1 \in 1 .. 2 + w /\ x + 1 - 1 = x  BY <1>1, <1>3, SMT
  <2>. QED  BY <1>1, <2>1 DEF Holds, w
<1>7. ASSUME NEW i \in 1 .. 2 + w PROVE ram'[x + i - 1] = <<n, i>>
  <2>1. ram[x + i - 1] = <<n, i>>  BY <1>1 DEF Holds
  <2>. HIDE DEF x, w, n
  <2>2. i - 1 \in 0 .. Stride(f) - 1 /\ x + (i - 1) = x + i - 1
    BY <1>1, <1>3, <1>4, SMT
  <2>. QED  BY <1>5, <2>1, <2>2
<1>8. Owner(f, q)' = n
  <2>1. Owner(f, q)' = ram'[x][1]  BY DEF Owner
  <2>2. 0 \in 0 .. Stride(f) - 1 /\ x + 0 = x
    <3>. HIDE DEF x
    <3>. QED  BY <1>3, <1>4, SMT
  <2>3. ram'[x] = <<n, 1>>
    <3>. HIDE DEF x, n
    <3>. QED  BY <1>5, <1>6, <2>2
  <2>. QED  BY <2>1, <2>3
<1>. HIDE DEF x, w, n
<1>9. ElemAddr(f, q)' = x /\ n = Owner(f, k)  BY DEF x, n
<1>. QED  BY <1>2, <1>7, <1>8, <1>9 DEF ElemOk, Holds

(* The element handed over holds the object just written.                  *)
LEMMA HandedOver ==
  ASSUME ObjInv, [Next]_vars, pc = "uinc", HandOver(op.fifo), UNCHANGED <<ram, tail>>
  PROVE  QueueOk'
<1>. SUFFICES ASSUME NEW f \in Fifo, NEW q \in 0 .. count'[f] - 1 PROVE ElemOk(f, q)'
  BY DEF QueueOk
<1>. USE DEF ObjInv, SlotInv, TypeInv
<1>1. /\ count[f] \in Nat /\ op.fifo \in Fifo
      /\ count'[f] = IF f = op.fifo THEN count[f] + 1 ELSE count[f]
  BY RegisterTypes, OpFacts DEF HandOver
<1>2. q \in Nat /\ (q \in 0 .. count[f] - 1 \/ (f = op.fifo /\ q = count[f]))
  BY <1>1, SMT
<1>3. ElemAddr(f, q)' = ElemAddr(f, q)  BY DEF ElemAddr, Slot
<1>4. CASE q \in 0 .. count[f] - 1
  BY <1>2, <1>3, <1>4, ElemKeeps DEF QueueOk
<1>5. CASE f = op.fifo /\ q = count[f]
  <2>1. ElemAddr(f, q) = op.at  BY <1>5 DEF SlotStillMine
  <2>2. Holds(op.at, This) /\ calls[This].fifo = f /\ calls # <<>>
    BY <1>5 DEF HandOk, InHand
  <2>3. This \in DOMAIN calls /\ calls[This].words \in Nat
    BY <2>2, CallTypes, SMT DEF This
  <2>4. This \in DOMAIN calls' /\ calls'[This].fifo = f /\ calls'[This].words = calls[This].words
    BY <2>2, <2>3, CallsKeep
  <2>. DEFINE n == This
              w == calls[This].words
              x == op.at
  <2>5. \A i \in 1 .. 2 + w : ram[x + i - 1] = <<n, i>>  BY <2>2 DEF Holds
  <2>6. x \in Nat  BY OpFacts
  <2>. HIDE DEF n, w, x
  <2>7. 1 \in 1 .. 2 + w /\ x + 1 - 1 = x  BY <2>3, <2>6, SMT DEF w
  <2>8. ram[x][1] = n  BY <2>5, <2>7
  <2>9. Owner(f, q)' = n  BY <1>3, <2>1, <2>8 DEF Owner, x
  <2>10. n \in DOMAIN calls' /\ calls'[n].fifo = f /\ calls'[n].words = w
    BY <2>4 DEF n, w
  <2>11. ElemAddr(f, q)' = x /\ ram' = ram  BY <1>3, <2>1 DEF x
  <2>. QED  BY <2>5, <2>9, <2>10, <2>11 DEF ElemOk, Holds
<1>. QED  BY <1>2, <1>4, <1>5

LEMMA QueueStep == ASSUME ObjInv, [Next]_vars PROVE QueueOk'
<1>. USE DEF ObjInv, SlotInv, TypeInv
<1>1. CASE UNCHANGED <<tail, count>>
  <2>. SUFFICES ASSUME NEW f \in Fifo, NEW q \in 0 .. count[f] - 1 PROVE ElemOk(f, q)'
    BY <1>1 DEF QueueOk
  <2>1. q \in Nat  BY RegisterTypes, SMT
  <2>2. ElemAddr(f, q)' = ElemAddr(f, q)  BY <1>1 DEF ElemAddr, Slot
  <2>. QED  BY <2>1, <2>2, ElemKeeps DEF QueueOk
<1>2. ASSUME NEW g \in Fifo, ResetFifo(g) PROVE QueueOk'
  <2>. SUFFICES ASSUME NEW f \in Fifo, NEW q \in 0 .. count'[f] - 1 PROVE ElemOk(f, q)'
    BY DEF QueueOk
  <2>1. f # g
    <3>. SUFFICES ASSUME f = g PROVE FALSE  OBVIOUS
    <3>1. count'[f] = 0  BY <1>2, RegisterTypes DEF ResetFifo
    <3>. QED  BY <3>1, SMT
  <2>2. count'[f] = count[f] /\ tail'[f] = tail[f]
    BY <1>2, <2>1, RegisterTypes DEF ResetFifo
  <2>3. q \in Nat /\ q \in 0 .. count[f] - 1  BY <2>2, RegisterTypes, SMT
  <2>4. ElemAddr(f, q)' = ElemAddr(f, q)  BY <2>2 DEF ElemAddr, Slot
  <2>. QED  BY <2>3, <2>4, ElemKeeps DEF QueueOk
<1>3. ASSUME NEW g \in Fifo, ChipSend(g) PROVE QueueOk'
  <2>. SUFFICES ASSUME NEW f \in Fifo, NEW q \in 0 .. count'[f] - 1 PROVE ElemOk(f, q)'
    BY DEF QueueOk
  <2>1. CASE f = g
    <3>1. /\ count[f] \in Nat /\ count'[f] = count[f] - 1 /\ count[f] <= Depth[f]
          /\ count[f] > 0 /\ Depth[f] \in Nat
      BY <1>3, <2>1, RegisterTypes DEF ChipSend
    <3>2. q \in Nat /\ q + 1 \in 0 .. count[f] - 1 /\ q < Depth[f]  BY <3>1, SMT
    <3>3. ElemAddr(f, q)' = ElemAddr(f, q + 1)  BY <1>3, <2>1, <3>2, SendShifts
    <3>. QED  BY <3>2, <3>3, ElemKeeps DEF QueueOk
  <2>2. CASE f # g
    <3>1. count'[f] = count[f] /\ count[f] \in Nat
      BY <1>3, <2>2, RegisterTypes DEF ChipSend
    <3>2. q \in Nat /\ q \in 0 .. count[f] - 1  BY <3>1, SMT
    <3>3. ElemAddr(f, q)' = ElemAddr(f, q)  BY <1>3, <2>2, <3>2, SendLeaves
    <3>. QED  BY <3>2, <3>3, ElemKeeps DEF QueueOk
  <2>. QED  BY <2>1, <2>2
<1>4. CASE WriteUinc \/ UincLate
  BY <1>4, HandedOver DEF WriteUinc, UincLate
<1>5. CASE ChipMode  BY <1>1, <1>5 DEF ChipMode
<1>6. CASE \E f \in Fifo : \/ \E w \in Sizes[f] : Transmit(f, w)
                          \/ \E ws \in Batches(f) : TransmitBatch(f, ws)
  BY <1>1, <1>6 DEF Transmit, TransmitBatch, chipVars
<1>7. CASE BatchDone \/ StatusFails \/ StatusFull \/ StatusRefused \/ StatusOk
           \/ WriteRam \/ WriteRamFails \/ UincLost
  BY <1>1, <1>7 DEF BatchDone, StatusFails, StatusFull, StatusRefused, StatusOk,
                    WriteRam, WriteRamFails, UincLost, chipVars
<1>8. CASE UNCHANGED vars  BY <1>1, <1>8 DEF vars, chipVars
<1>. QED  BY <1>2, <1>3, <1>4, <1>5, <1>6, <1>7, <1>8 DEF Next, Application, Driver, Chip

(* A burst that went through has left the whole object in the head slot.   *)
LEMMA WrittenHolds ==
  ASSUME ObjInv, WriteRam
  PROVE  HandOk'
<1>. USE DEF ObjInv, SlotInv, TypeInv
<1>1. pc = "ram" /\ ram' = Written(ThisLen) /\ UNCHANGED <<op, calls>>
  BY DEF WriteRam, history
<1>2. calls # <<>> /\ op.at + ThisLen <= RamWords  BY <1>1 DEF InHand
<1>3. This \in DOMAIN calls  BY <1>2, CallTypes, SMT DEF This
<1>4. calls[This].words \in Nat /\ op.at \in Nat /\ RamWords \in Nat
  BY <1>3, CallTypes, OpFacts, LayoutAssumption
<1>. DEFINE n == This
            w == calls[This].words
            x == op.at
<1>5. ASSUME NEW i \in 1 .. 2 + w PROVE ram'[x + i - 1] = <<n, i>>
  <2>1. DOMAIN ram = 0 .. RamWords - 1  BY DEF TypeOK
  <2>2. ram' = [a \in DOMAIN ram |-> IF a \in x .. x + (2 + w) - 1 THEN <<n, a - x + 1>> ELSE ram[a]]
    BY <1>1 DEF Written, ThisLen
  <2>3. x + (2 + w) <= RamWords  BY <1>2 DEF ThisLen
  <2>4. w \in Nat /\ x \in Nat  BY <1>4
  <2>. HIDE DEF n, w, x
  <2>5. PICK y : y = x + i - 1  OBVIOUS
  <2>6. y \in 0 .. RamWords - 1 /\ y \in x .. x + (2 + w) - 1 /\ y - x + 1 = i
    BY <1>4, <2>3, <2>4, <2>5, SMT
  <2>7. y \in DOMAIN ram  BY <2>1, <2>6
  <2>8. ram'[y] = <<n, y - x + 1>>  BY <2>2, <2>6, <2>7
  <2>. QED  BY <2>5, <2>6, <2>8
<1>6. Holds(op.at, This)'
  <2>. HIDE DEF n, w, x
  <2>1. op'.at = x /\ This' = n /\ calls'[n].words = w  BY <1>1 DEF x, n, w, This
  <2>. QED  BY <1>5, <2>1 DEF Holds
<1>. QED  BY <1>6 DEF HandOk

LEMMA HandStep == ASSUME ObjInv, [Next]_vars PROVE HandOk'
<1>. USE DEF ObjInv
<1>1. CASE UNCHANGED <<pc, op, ram, calls>>  BY <1>1 DEF HandOk, Holds, This
<1>2. CASE pc' # "uinc"  BY <1>2 DEF HandOk
<1>3. CASE WriteRam  BY <1>3, WrittenHolds
<1>4. CASE Application
  BY <1>2, <1>4 DEF Application, Transmit, TransmitBatch, ResetFifo, driverVars, HandOk, Holds, This
<1>5. CASE Chip
  BY <1>1, <1>5 DEF Chip, ChipMode, ChipSend, driverVars, history
<1>6. CASE BatchDone \/ StatusFails \/ StatusFull \/ StatusRefused \/ StatusOk
           \/ WriteRamFails \/ WriteUinc \/ UincLost \/ UincLate
  <2>1. pc' # "uinc"
    BY <1>6 DEF BatchDone, StatusFails, StatusFull, StatusRefused, StatusOk,
                WriteRamFails, WriteUinc, NextFrame, UincLost, UincLate, Return
  <2>. QED  BY <1>2, <2>1
<1>7. CASE UNCHANGED vars  BY <1>1, <1>7 DEF vars, driverVars, chipVars, history
<1>. QED  BY <1>3, <1>4, <1>5, <1>6, <1>7 DEF Next, Driver

LEMMA WireStep == ASSUME ObjInv, [Next]_vars PROVE WireOk'
<1>. USE DEF ObjInv, SlotInv, TypeInv
<1>1. CASE UNCHANGED wire
  <2>1. ASSUME NEW f \in Fifo, NEW k \in DOMAIN wire[f] PROVE SentOk(f, wire[f][k])'
    <3>. DEFINE o == wire[f][k]
    <3>1. SentOk(f, o)  BY DEF WireOk
    <3>2. PICK r : r = o  OBVIOUS
    <3>3. SentOk(f, r)'  BY <3>1, <3>2, SentKeeps
    <3>4. o' = r  BY <1>1, <3>2
    <3>. QED  BY <3>3, <3>4 DEF SentOk, Intact, Object
  <2>. QED  BY <1>1, <2>1 DEF WireOk
<1>2. ASSUME NEW g \in Fifo, ChipSend(g) PROVE WireOk'
  <2>1. PICK r : r = Fetched(ElemAddr(g, 0))  OBVIOUS
  <2>2. wire' = [wire EXCEPT ![g] = Append(wire[g], r)]  BY <1>2, <2>1 DEF ChipSend
  <2>3. SentOk(g, r)
    <3>1. count[g] > 0 /\ count[g] \in Nat /\ count[g] <= Depth[g] /\ Depth[g] \in Nat
      BY <1>2, RegisterTypes DEF ChipSend
    <3>2. 0 \in 0 .. count[g] - 1 /\ 0 \in Nat /\ 0 < Depth[g]  BY <3>1, SMT
    <3>3. ElemOk(g, 0)  BY <3>2 DEF QueueOk
    <3>. QED  BY <2>1, <3>2, <3>3, FetchedObject
  <2>. SUFFICES ASSUME NEW f \in Fifo, NEW k \in DOMAIN wire'[f]
                PROVE  \E o : o = wire'[f][k] /\ SentOk(f, o)'
    <3>1. ASSUME NEW f \in Fifo, NEW k \in DOMAIN wire'[f], NEW o, o = wire'[f][k], SentOk(f, o)'
          PROVE  SentOk(f, wire[f][k])'
      BY <3>1 DEF SentOk, Intact, Object
    <3>. QED  BY <3>1 DEF WireOk
  <2>4. wire \in [Fifo -> Seq(Seq(Word))]  BY DEF TypeOK
  <2>5. \/ k \in DOMAIN wire[f] /\ wire'[f][k] = wire[f][k]
        \/ f = g /\ wire'[f][k] = r
    <3>1. CASE f = g
      <4>1. wire'[f] = Append(wire[f], r) /\ wire[f] \in Seq(Seq(Word))  BY <2>2, <2>4, <3>1
      <4>2. k \in DOMAIN Append(wire[f], r)  BY <4>1
      <4>3. \/ k \in DOMAIN wire[f] /\ Append(wire[f], r)[k] = wire[f][k]
            \/ Append(wire[f], r)[k] = r
        BY <4>1, <4>2, SMT
      <4>. QED  BY <3>1, <4>1, <4>3
    <3>2. CASE f # g  BY <2>2, <2>4, <3>2
    <3>. QED  BY <3>1, <3>2
  <2>6. CASE k \in DOMAIN wire[f] /\ wire'[f][k] = wire[f][k]
    <3>1. PICK o : o = wire[f][k]  OBVIOUS
    <3>2. SentOk(f, o)  BY <2>6, <3>1 DEF WireOk
    <3>3. SentOk(f, o)'  BY <3>2, SentKeeps
    <3>. QED  BY <2>6, <3>1, <3>3
  <2>7. CASE f = g /\ wire'[f][k] = r
    <3>1. SentOk(f, r)'  BY <2>3, <2>7, SentKeeps
    <3>. QED  BY <2>7, <3>1
  <2>. QED  BY <2>5, <2>6, <2>7
<1>3. CASE ChipMode  BY <1>1, <1>3 DEF ChipMode, history
<1>4. CASE Application
  BY <1>1, <1>4 DEF Application, Transmit, TransmitBatch, ResetFifo, history
<1>5. CASE Driver
  BY <1>1, <1>5 DEF Driver, BatchDone, StatusFails, StatusFull, StatusRefused, StatusOk,
                    WriteRam, WriteRamFails, WriteUinc, UincLost, UincLate, history
<1>6. CASE UNCHANGED vars  BY <1>1, <1>6 DEF vars, history
<1>. QED  BY <1>2, <1>3, <1>4, <1>5, <1>6 DEF Next, Chip

LEMMA ObjStep == ASSUME CorruptShows, FramesFit, ObjInv, [Next]_vars PROVE ObjInv'
  BY SlotStep, QueueStep, HandStep, WireStep DEF ObjInv

(* The wire and the queue together are made of what the chip was handed.   *)
LEMMA ObjImplies == ASSUME ObjInv PROVE ObjectsIntact
<1>. USE DEF ObjInv, SlotInv, TypeInv
<1>. SUFFICES ASSUME NEW f \in Fifo, NEW k \in DOMAIN History(f)
              PROVE  SentOk(f, History(f)[k])
  BY DEF ObjectsIntact, SentOk
<1>. DEFINE q == Queue(f)
            s == wire[f]
            c == count[f]
<1>1. c \in Nat /\ c <= Depth[f] /\ Depth[f] \in Nat  BY RegisterTypes
<1>2. \A m \in 1 .. c : SentOk(f, q[m])
  <2>. TAKE m \in 1 .. c
  <2>1. m - 1 \in 0 .. c - 1 /\ m - 1 \in Nat /\ m - 1 < Depth[f]
    <3>. HIDE DEF c
    <3>. QED  BY <1>1, SMT
  <2>2. q[m] = Fetched(ElemAddr(f, m - 1))  BY DEF Queue
  <2>3. ElemOk(f, m - 1)  BY <2>1 DEF QueueOk
  <2>. QED  BY <2>1, <2>2, <2>3, FetchedObject
<1>3. DOMAIN q = 1 .. c  BY DEF Queue
<1>4. \A m \in DOMAIN s : SentOk(f, s[m])  BY DEF WireOk
<1>5. s \in Seq(Seq(Word))  BY DEF TypeOK
<1>6. Len(q) = c
  <2>. HIDE DEF q, c
  <2>. QED  BY <1>1, <1>3
<1>7. History(f) = s \o q  BY DEF History
<1>8. \/ k \in DOMAIN s /\ (s \o q)[k] = s[k]
      \/ \E m \in 1 .. c : (s \o q)[k] = q[m]
  <2>1. k \in DOMAIN (s \o q)  BY <1>7
  <2>2. DOMAIN s = 1 .. Len(s) /\ Len(s) \in Nat  BY <1>5
  <2>. HIDE DEF q, s, c
  <2>3. k \in 1 .. Len(s) + c /\ (s \o q)[k] = IF k <= Len(s) THEN s[k] ELSE q[k - Len(s)]
    BY <1>1, <1>6, <2>1, <2>2
  <2>4. CASE k <= Len(s)  BY <2>2, <2>3, <2>4, SMT
  <2>5. CASE ~(k <= Len(s))
    <3>1. k - Len(s) \in 1 .. c  BY <1>1, <2>2, <2>3, <2>5, SMT
    <3>. QED  BY <2>3, <2>5, <3>1
  <2>. QED  BY <2>4, <2>5
<1>. QED  BY <1>2, <1>4, <1>7, <1>8

(* No frame that was handed over is ever changed before the chip has sent  *)
(* it: the queue and the bus carry whole objects of frames for that FIFO,  *)
(* whatever call is half-way through and whichever transactions failed.    *)
THEOREM ObjectsStayIntact ==
  ASSUME CorruptShows, FramesFit
  PROVE  Spec => []ObjectsIntact
<1>1. ObjInv => ObjectsIntact  BY ObjImplies
<1>2. ObjInv /\ [Next]_vars => ObjInv'  BY ObjStep
<1>. QED  BY <1>1, <1>2, ObjInit, PTL DEF Spec

-----------------------------------------------------------------------------
(* Sequences of objects, and the calls they name.                          *)
Objects == Seq(Seq(Word))

LEMMA IdsConcat ==
  ASSUME NEW s \in Objects, NEW t \in Objects
  PROVE  Ids(s \o t) = Ids(s) \cup Ids(t)
<1>1. /\ Len(s) \in Nat /\ Len(t) \in Nat
      /\ DOMAIN s = 1 .. Len(s) /\ DOMAIN t = 1 .. Len(t)
      /\ DOMAIN (s \o t) = 1 .. Len(s) + Len(t)
      /\ \A k \in 1 .. Len(s) + Len(t) : (s \o t)[k] = IF k <= Len(s) THEN s[k] ELSE t[k - Len(s)]
  BY SMT DEF Objects
<1>2. ASSUME NEW n \in Ids(s \o t) PROVE n \in Ids(s) \cup Ids(t)
  <2>1. PICK k \in 1 .. Len(s) + Len(t) : n = (s \o t)[k][1][1]  BY <1>1 DEF Ids
  <2>2. CASE k <= Len(s)
    <3>1. k \in DOMAIN s /\ (s \o t)[k] = s[k]  BY <1>1, <2>2, SMT
    <3>. QED  BY <2>1, <3>1 DEF Ids
  <2>3. CASE ~(k <= Len(s))
    <3>1. k - Len(s) \in DOMAIN t /\ (s \o t)[k] = t[k - Len(s)]  BY <1>1, <2>3, SMT
    <3>. QED  BY <2>1, <3>1 DEF Ids
  <2>. QED  BY <2>2, <2>3
<1>3. ASSUME NEW n \in Ids(s) PROVE n \in Ids(s \o t)
  <2>1. PICK k \in 1 .. Len(s) : n = s[k][1][1]  BY <1>1 DEF Ids
  <2>2. k \in DOMAIN (s \o t) /\ (s \o t)[k] = s[k]  BY <1>1, SMT
  <2>. QED  BY <2>1, <2>2 DEF Ids
<1>4. ASSUME NEW n \in Ids(t) PROVE n \in Ids(s \o t)
  <2>1. PICK k \in 1 .. Len(t) : n = t[k][1][1]  BY <1>1 DEF Ids
  <2>2. PICK m : m = Len(s) + k  OBVIOUS
  <2>3. m \in 1 .. Len(s) + Len(t) /\ ~(m <= Len(s)) /\ m - Len(s) = k  BY <1>1, <2>2, SMT
  <2>4. m \in DOMAIN (s \o t) /\ (s \o t)[m] = t[k]  BY <1>1, <2>3
  <2>. QED  BY <2>1, <2>4 DEF Ids
<1>. QED  BY <1>2, <1>3, <1>4

LEMMA IdsEmpty == Ids(<<>>) = {}
<1>1. DOMAIN <<>> = {}  BY SMT
<1>. QED  BY <1>1 DEF Ids

LEMMA IdsAppend ==
  ASSUME NEW s \in Objects, NEW o \in Seq(Word)
  PROVE  Ids(Append(s, o)) = Ids(s) \cup {o[1][1]}
<1>1. /\ Len(s) \in Nat /\ DOMAIN s = 1 .. Len(s)
      /\ DOMAIN Append(s, o) = 1 .. Len(s) + 1
      /\ \A k \in 1 .. Len(s) : Append(s, o)[k] = s[k]
      /\ Append(s, o)[Len(s) + 1] = o
  BY SMT DEF Objects
<1>. PICK e : e = Append(s, o)  OBVIOUS
<1>2. 1 .. Len(s) + 1 = (1 .. Len(s)) \cup {Len(s) + 1}  BY <1>1, SMT
<1>. QED  BY <1>1, <1>2 DEF Ids

LEMMA IdsPop ==
  ASSUME NEW s \in Objects, s # <<>>
  PROVE  Head(s) \in Seq(Word) /\ Tail(s) \in Objects /\ Ids(s) = {Head(s)[1][1]} \cup Ids(Tail(s))
<1>1. /\ Len(s) \in Nat /\ DOMAIN s = 1 .. Len(s) /\ Len(s) >= 1
      /\ Head(s) \in Seq(Word) /\ Head(s) = s[1]
      /\ Tail(s) \in Objects /\ DOMAIN Tail(s) = 1 .. Len(s) - 1
      /\ \A k \in 1 .. Len(s) - 1 : Tail(s)[k] = s[k + 1]
  BY SMT DEF Objects
<1>2. ASSUME NEW n \in Ids(s) PROVE n = Head(s)[1][1] \/ n \in Ids(Tail(s))
  <2>1. PICK k \in 1 .. Len(s) : n = s[k][1][1]  BY <1>1 DEF Ids
  <2>2. CASE k = 1  BY <1>1, <2>1, <2>2
  <2>3. CASE k # 1
    <3>1. k - 1 \in 1 .. Len(s) - 1 /\ (k - 1) + 1 = k  BY <1>1, <2>3, SMT
    <3>2. k - 1 \in DOMAIN Tail(s) /\ Tail(s)[k - 1] = s[k]  BY <1>1, <3>1
    <3>. QED  BY <2>1, <3>2 DEF Ids
  <2>. QED  BY <2>2, <2>3
<1>3. Head(s)[1][1] \in Ids(s)
  <2>1. 1 \in DOMAIN s  BY <1>1, SMT
  <2>. QED  BY <1>1, <2>1 DEF Ids
<1>4. ASSUME NEW n \in Ids(Tail(s)) PROVE n \in Ids(s)
  <2>1. PICK k \in 1 .. Len(s) - 1 : n = Tail(s)[k][1][1]  BY <1>1 DEF Ids
  <2>2. k + 1 \in DOMAIN s  BY <1>1, SMT
  <2>3. Tail(s)[k] = s[k + 1]  BY <1>1
  <2>. QED  BY <2>1, <2>2, <2>3 DEF Ids
<1>. QED  BY <1>1, <1>2, <1>3, <1>4

-----------------------------------------------------------------------------
(* The queue of f, element by element: the objects of the owning calls.    *)
QueueShape == \A f \in Fifo :
  /\ Queue(f) \in Objects /\ Len(Queue(f)) = count[f]
  /\ \A k \in 1 .. count[f] :
       /\ Owner(f, k - 1) \in DOMAIN calls
       /\ Queue(f)[k] = Object(Owner(f, k - 1), calls[Owner(f, k - 1)].words)

LEMMA ObjectType ==
  ASSUME NEW n \in Nat, NEW w \in Nat
  PROVE  Object(n, w) \in Seq(Word) /\ Object(n, w)[1][1] = n
<1>1. \A i \in 1 .. 2 + w : <<n, i>> \in Word  BY SMT DEF Word
<1>2. Object(n, w) \in Seq(Word)  BY <1>1, SMT DEF Object
<1>3. 1 \in 1 .. 2 + w  BY SMT
<1>. QED  BY <1>2, <1>3 DEF Object

LEMMA ShapeHolds == ObjInv => QueueShape
<1>. SUFFICES ASSUME ObjInv, NEW f \in Fifo
              PROVE  /\ Queue(f) \in Objects /\ Len(Queue(f)) = count[f]
                     /\ \A k \in 1 .. count[f] :
                          /\ Owner(f, k - 1) \in DOMAIN calls
                          /\ Queue(f)[k] = Object(Owner(f, k - 1), calls[Owner(f, k - 1)].words)
  BY DEF QueueShape
<1>1. count[f] \in Nat /\ count[f] <= Depth[f] /\ Depth[f] \in Nat
  BY RegisterTypes DEF ObjInv, SlotInv, TypeInv
<1>2. ASSUME NEW k \in 1 .. count[f]
      PROVE  /\ Owner(f, k - 1) \in DOMAIN calls
             /\ Fetched(ElemAddr(f, k - 1)) = Object(Owner(f, k - 1), calls[Owner(f, k - 1)].words)
             /\ Fetched(ElemAddr(f, k - 1)) \in Seq(Word)
  <2>1. k - 1 \in 0 .. count[f] - 1 /\ k - 1 \in Nat /\ k - 1 < Depth[f]  BY <1>1, SMT
  <2>2. ElemOk(f, k - 1)  BY <2>1 DEF ObjInv, QueueOk
  <2>3. /\ SentOk(f, Fetched(ElemAddr(f, k - 1)))
        /\ Fetched(ElemAddr(f, k - 1))[1][1] = Owner(f, k - 1)
    BY <2>1, <2>2, FetchedObject DEF ObjInv
  <2>4. Owner(f, k - 1) \in Nat /\ calls[Owner(f, k - 1)].words \in Nat
    BY <2>2, CallTypes DEF ElemOk, ObjInv, SlotInv, TypeInv
  <2>5. Fetched(ElemAddr(f, k - 1)) = Object(Owner(f, k - 1), calls[Owner(f, k - 1)].words)
    <3>. DEFINE o == Fetched(ElemAddr(f, k - 1))
                n == Owner(f, k - 1)
    <3>1. SentOk(f, o) /\ o[1][1] = n  BY <2>3
    <3>. HIDE DEF o, n
    <3>2. o = Object(n, calls[n].words)  BY <3>1 DEF SentOk, Intact
    <3>. QED  BY <3>2 DEF o, n
  <2>6. Owner(f, k - 1) \in DOMAIN calls  BY <2>2 DEF ElemOk
  <2>7. Object(Owner(f, k - 1), calls[Owner(f, k - 1)].words) \in Seq(Word)  BY <2>4, ObjectType
  <2>. QED  BY <2>5, <2>6, <2>7
<1>3. Queue(f) \in [1 .. count[f] -> Seq(Word)]  BY <1>2 DEF Queue
<1>. DEFINE q == Queue(f)
<1>4. \A k \in 1 .. count[f] : q[k] = Fetched(ElemAddr(f, k - 1))  BY DEF Queue
<1>. HIDE DEF q
<1>5. q \in Objects /\ Len(q) = count[f]
  <2>1. PICK S : S = Seq(Word)  OBVIOUS
  <2>2. q \in [1 .. count[f] -> S]  BY <1>3, <2>1 DEF q
  <2>3. q \in Seq(S) /\ Len(q) = count[f]  BY <1>1, <2>2, SMT
  <2>. QED  BY <2>1, <2>3 DEF Objects
<1>. QED  BY <1>2, <1>4, <1>5 DEF q

LEMMA ShapeNext == ObjInv' => QueueShape'
  BY ShapeHolds, PTL

(* What the steps do to the queue of one FIFO.                             *)
LEMMA QueueSame ==
  ASSUME ObjInv, ObjInv', [Next]_vars, NEW f \in Fifo, tail'[f] = tail[f], count'[f] = count[f]
  PROVE  Queue(f)' = Queue(f)
<1>1. QueueShape /\ QueueShape'  BY ShapeHolds, ShapeNext
<1>2. count[f] \in Nat  BY RegisterTypes DEF ObjInv, SlotInv, TypeInv
<1>3. ASSUME NEW k \in 1 .. count[f] PROVE Queue(f)'[k] = Queue(f)[k]
  <2>1. k - 1 \in 0 .. count[f] - 1 /\ k - 1 \in Nat  BY <1>2, SMT
  <2>2. ElemAddr(f, k - 1)' = ElemAddr(f, k - 1)  BY DEF ElemAddr, Slot
  <2>3. ElemOk(f, k - 1)  BY <2>1 DEF ObjInv, QueueOk
  <2>. DEFINE n == Owner(f, k - 1)
  <2>4. Owner(f, k - 1)' = n  BY <2>1, <2>2, <2>3, ElemKeeps DEF ObjInv
  <2>5. n \in DOMAIN calls /\ Queue(f)[k] = Object(n, calls[n].words)  BY <1>1 DEF QueueShape
  <2>6. calls'[n].words = calls[n].words  BY <2>5, CallsKeep DEF ObjInv, SlotInv
  <2>7. Queue(f)'[k] = Object(Owner(f, k - 1)', calls'[Owner(f, k - 1)'].words)
    BY <1>1 DEF QueueShape, Object
  <2>. HIDE DEF n
  <2>. QED  BY <2>4, <2>5, <2>6, <2>7
<1>. DEFINE q == Queue(f)
            r == Queue(f)'
<1>4. q \in Objects /\ r \in Objects /\ Len(q) = count[f] /\ Len(r) = count[f]
  BY <1>1 DEF QueueShape, Objects, Word
<1>5. \A k \in 1 .. count[f] : r[k] = q[k]  BY <1>3
<1>. HIDE DEF q, r
<1>6. q = r  BY <1>4, <1>5, SameSequence DEF Objects
<1>. QED  BY <1>6 DEF q, r

LEMMA QueuePush ==
  ASSUME ObjInv, ObjInv', [Next]_vars, pc = "uinc", HandOver(op.fifo), UNCHANGED <<ram, tail>>,
         NEW f \in Fifo, f = op.fifo
  PROVE  /\ This \in DOMAIN calls /\ calls[This].fifo = f
         /\ Object(This, calls[This].words) \in Seq(Word)
         /\ Object(This, calls[This].words)[1][1] = This
         /\ Queue(f)' = Append(Queue(f), Object(This, calls[This].words))
         /\ \A g \in Fifo \ {f} : Queue(g)' = Queue(g)
<1>. USE DEF ObjInv, SlotInv, TypeInv
<1>1. QueueShape /\ QueueShape'  BY ShapeHolds, ShapeNext
<1>. PICK n, w, c : n = This /\ w = calls[This].words /\ c = count[f]  OBVIOUS
<1>2. /\ c \in Nat /\ count'[f] = c + 1
      /\ \A g \in Fifo \ {f} : count'[g] = count[g] /\ tail'[g] = tail[g]
  BY RegisterTypes, OpFacts DEF HandOver
<1>3. n \in DOMAIN calls /\ calls[n].fifo = f /\ w \in Nat /\ n \in Nat
  <2>1. calls # <<>> /\ calls[This].fifo = op.fifo  BY DEF InHand
  <2>2. This \in DOMAIN calls  BY <2>1, CallTypes, SMT DEF This
  <2>. QED  BY <2>1, <2>2, CallTypes
<1>4. Object(n, w) \in Seq(Word) /\ Object(n, w)[1][1] = n  BY <1>3, ObjectType
<1>5. Owner(f, c)' = n
  <2>1. ElemAddr(f, c)' = op.at  BY DEF ElemAddr, Slot, SlotStillMine
  <2>2. Holds(op.at, This) /\ op.at \in Nat  BY OpFacts DEF HandOk
  <2>3. 1 \in 1 .. 2 + w /\ op.at + 1 - 1 = op.at  BY <1>3, <2>2, SMT
  <2>4. ram[op.at] = <<n, 1>>  BY <2>2, <2>3 DEF Holds
  <2>. QED  BY <2>1, <2>4 DEF Owner
<1>6. calls'[n].words = w /\ n \in DOMAIN calls'  BY <1>3, CallsKeep
<1>7. \A k \in 1 .. c + 1 : Queue(f)'[k] = Object(Owner(f, k - 1)', calls'[Owner(f, k - 1)'].words)
  BY <1>1, <1>2 DEF QueueShape, Object
<1>8. ASSUME NEW k \in 1 .. c PROVE Queue(f)'[k] = Queue(f)[k]
  <2>1. k - 1 \in 0 .. c - 1 /\ k - 1 \in Nat /\ k \in 1 .. c + 1  BY <1>2, SMT
  <2>2. ElemAddr(f, k - 1)' = ElemAddr(f, k - 1)  BY DEF ElemAddr, Slot
  <2>3. ElemOk(f, k - 1)  BY <1>2, <2>1 DEF QueueOk
  <2>. PICK m : m = Owner(f, k - 1)  OBVIOUS
  <2>4. Owner(f, k - 1)' = m  BY <1>2, <2>1, <2>2, <2>3, ElemKeeps
  <2>5. m \in DOMAIN calls /\ Queue(f)[k] = Object(m, calls[m].words)
    BY <1>1, <1>2 DEF QueueShape
  <2>6. calls'[m].words = calls[m].words  BY <2>5, CallsKeep
  <2>7. Queue(f)'[k] = Object(Owner(f, k - 1)', calls'[Owner(f, k - 1)'].words)
    BY <1>7, <2>1
  <2>. QED  BY <2>4, <2>5, <2>6, <2>7
<1>9. Queue(f)'[c + 1] = Object(n, w)
  <2>1. c + 1 \in 1 .. c + 1 /\ (c + 1) - 1 = c  BY <1>2, SMT
  <2>2. Queue(f)'[c + 1] = Object(Owner(f, (c + 1) - 1)', calls'[Owner(f, (c + 1) - 1)'].words)
    BY <1>7, <2>1
  <2>3. Owner(f, (c + 1) - 1)' = n  BY <1>5, <2>1
  <2>. QED  BY <1>6, <2>2, <2>3
<1>10. Queue(f)' = Append(Queue(f), Object(n, w))
  <2>. DEFINE q == Queue(f)
              r == Queue(f)'
              o == Object(n, w)
  <2>1. q \in Objects /\ r \in Objects /\ Len(q) = c /\ Len(r) = c + 1
    BY <1>1, <1>2 DEF QueueShape, Objects, Word
  <2>2. (\A k \in 1 .. c : r[k] = q[k]) /\ r[c + 1] = o /\ o \in Seq(Word)
    BY <1>4, <1>8, <1>9
  <2>. HIDE DEF q, r, o
  <2>3. r = Append(q, o)  BY <2>1, <2>2, AppendIs DEF Objects
  <2>. QED  BY <2>3 DEF q, r, o
<1>11. \A g \in Fifo \ {f} : Queue(g)' = Queue(g)  BY <1>2, QueueSame
<1>. QED  BY <1>3, <1>4, <1>10, <1>11

LEMMA QueuePop ==
  ASSUME ObjInv, ObjInv', [Next]_vars, NEW f \in Fifo, ChipSend(f)
  PROVE  /\ Queue(f) # <<>> /\ Queue(f) \in Objects
         /\ wire' = [wire EXCEPT ![f] = Append(@, Head(Queue(f)))]
         /\ Queue(f)' = Tail(Queue(f))
         /\ \A g \in Fifo \ {f} : Queue(g)' = Queue(g)
<1>. USE DEF ObjInv, SlotInv, TypeInv
<1>1. QueueShape /\ QueueShape'  BY ShapeHolds, ShapeNext
<1>. DEFINE c == count[f]
<1>2. /\ c \in Nat /\ c > 0 /\ c <= Depth[f] /\ Depth[f] \in Nat /\ count'[f] = c - 1
      /\ \A g \in Fifo \ {f} : count'[g] = count[g] /\ tail'[g] = tail[g]
  BY RegisterTypes DEF ChipSend
<1>3. ASSUME NEW k \in 1 .. c - 1 PROVE Queue(f)'[k] = Queue(f)[k + 1]
  <2>1. /\ k - 1 \in Nat /\ k - 1 < Depth[f] /\ k \in 0 .. c - 1 /\ (k - 1) + 1 = k
        /\ k + 1 \in 1 .. c /\ (k + 1) - 1 = k
    <3>. HIDE DEF c
    <3>. QED  BY <1>2, SMT
  <2>2. ElemAddr(f, k - 1)' = ElemAddr(f, k)  BY <2>1, SendShifts
  <2>3. ElemOk(f, k)  BY <2>1 DEF QueueOk
  <2>. DEFINE m == Owner(f, k)
  <2>4. Owner(f, k - 1)' = m  BY <2>1, <2>2, <2>3, ElemKeeps
  <2>5. m \in DOMAIN calls /\ Queue(f)[k + 1] = Object(m, calls[m].words)
    BY <1>1, <2>1 DEF QueueShape
  <2>6. calls'[m].words = calls[m].words  BY <2>5, CallsKeep
  <2>7. Queue(f)'[k] = Object(Owner(f, k - 1)', calls'[Owner(f, k - 1)'].words)
    BY <1>1, <1>2 DEF QueueShape, Object
  <2>. HIDE DEF m
  <2>. QED  BY <2>4, <2>5, <2>6, <2>7
<1>4. Queue(f) # <<>> /\ Queue(f)' = Tail(Queue(f)) /\ Head(Queue(f)) = Queue(f)[1]
  <2>. DEFINE q == Queue(f)
              r == Queue(f)'
  <2>1. q \in Objects /\ r \in Objects /\ Len(q) = c /\ Len(r) = c - 1
    BY <1>1, <1>2 DEF QueueShape, Objects, Word
  <2>2. \A k \in 1 .. c - 1 : r[k] = q[k + 1]  BY <1>3
  <2>. HIDE DEF q, r, c
  <2>3. Len(q) = Len(r) + 1 /\ q # <<>> /\ Head(q) = q[1]  BY <1>2, <2>1, SMT DEF Objects
  <2>4. r = Tail(q)  BY <2>1, <2>2, <2>3, TailIs DEF Objects
  <2>. QED  BY <2>3, <2>4 DEF q, r
<1>5. Queue(f)[1] = Fetched(ElemAddr(f, 0))
  <2>1. 1 \in 1 .. c /\ 1 - 1 = 0
    <3>. HIDE DEF c
    <3>. QED  BY <1>2, SMT
  <2>. QED  BY <2>1 DEF Queue
<1>6. wire' = [wire EXCEPT ![f] = Append(@, Head(Queue(f)))]  BY <1>4, <1>5 DEF ChipSend
<1>7. \A g \in Fifo \ {f} : Queue(g)' = Queue(g)  BY <1>2, QueueSame
<1>. QED  BY <1>1, <1>4, <1>6, <1>7 DEF QueueShape

LEMMA QueueDrop ==
  ASSUME ObjInv, ObjInv', [Next]_vars, NEW f \in Fifo, ResetFifo(f)
  PROVE  Queue(f)' = <<>> /\ \A g \in Fifo \ {f} : Queue(g)' = Queue(g)
<1>. USE DEF ObjInv, SlotInv, TypeInv
<1>1. /\ count'[f] = 0
      /\ \A g \in Fifo \ {f} : count'[g] = count[g] /\ tail'[g] = tail[g]
  BY RegisterTypes DEF ResetFifo
<1>2. Queue(f)' \in Objects /\ Len(Queue(f)') = 0
  BY <1>1, ShapeNext DEF QueueShape, Objects, Word
<1>. DEFINE r == Queue(f)'
<1>3. r = <<>>
  <2>. HIDE DEF r
  <2>. QED  BY <1>2, SMT DEF Objects, r
<1>. QED  BY <1>1, <1>3, QueueSame

-----------------------------------------------------------------------------
(* The calls whose frame the chip has been handed, and still holds or has  *)
(* sent; those, and the ones a reset_fifo discarded.                       *)
Held(f) == Ids(wire[f]) \cup Ids(Queue(f))
Handed  == (UNION {Held(f) : f \in Fifo}) \cup gone

(* Frames are of sizes the application hands over, and there is room below *)
(* the bound for those of the call in progress.                            *)
OfferInv ==
  /\ \A n \in DOMAIN calls : calls[n].words \in Sizes[calls[n].fifo]
  /\ \A i \in 1 .. Len(op.rest) : op.rest[i] \in Sizes[op.fifo]
  /\ pc = "status" => Len(calls) + Len(op.rest) <= MaxCalls
  /\ pc \in {"ram", "uinc"} => Len(calls) + Len(op.rest) <= MaxCalls + 1

(* Of the frames of the call in progress exactly the op.acc first ones     *)
(* have been handed over; the one being written is still unknown to the    *)
(* chip; and the last result is about earlier frames only.                 *)
After(n) == {m \in Handed : m > n}
Mine     == {m \in Handed : m > ret.first /\ m <= ret.last}
BookInv ==
  /\ Handed \subseteq 1 .. Len(calls)
  /\ ~op.batch => op.acc = 0
  /\ pc # "idle" =>
       /\ Len(calls) = op.first + op.acc + (IF pc = "status" THEN 0 ELSE 1)
       /\ After(op.first) = op.first + 1 .. op.first + op.acc
       /\ ret.last <= op.first
  /\ ret.last <= Len(calls)
  /\ ret.res = "ok" => Mine = ret.first + 1 .. ret.first + ret.acc
  /\ ret.res = "full" => Mine = {}

OkInv == \A n \in DOMAIN calls : calls[n].ok => n \in Held(calls[n].fifo) \cup gone

(* The n-th object carries n - 1 modulo SeqMod.                            *)
SeqInv ==
  /\ seq % SeqMod = Len(calls) % SeqMod
  /\ \A n \in DOMAIN calls : calls[n].seq = (n - 1) % SeqMod

LEMMA HandedMember == \A m : m \in Handed <=> m \in gone \/ \E f \in Fifo : m \in Held(f)
<1>. TAKE m
<1>1. m \in Handed <=> m \in gone \/ m \in UNION {Held(f) : f \in Fifo}  BY Zenon DEF Handed
<1>2. m \in UNION {Held(f) : f \in Fifo} <=> \E s \in {Held(f) : f \in Fifo} : m \in s  BY Zenon
<1>. QED  BY <1>1, <1>2, Zenon

LEMMA HandedMemberNext ==
  (\A m : m \in Handed <=> m \in gone \/ \E f \in Fifo : m \in Held(f))'
  BY HandedMember, PTL

LEMMA HistoryIds ==
  ASSUME ObjInv, NEW f \in Fifo
  PROVE  Ids(History(f)) = Held(f)
<1>1. Queue(f) \in Objects  BY ShapeHolds DEF QueueShape
<1>2. wire[f] \in Objects  BY DEF ObjInv, SlotInv, TypeInv, TypeOK, Objects
<1>. QED  BY <1>1, <1>2, IdsConcat DEF History, Held

(* A UINC that reaches the chip hands it the object being written; no      *)
(* other step hands it one, and what was handed over is not forgotten.     *)
LEMMA HandedPush ==
  ASSUME ObjInv, ObjInv', [Next]_vars, WriteUinc \/ UincLate
  PROVE  /\ Handed' = Handed \cup {This} /\ gone' = gone
         /\ \A f \in Fifo : Held(f) \subseteq Held(f)' /\ (f = op.fifo => This \in Held(f)')
<1>1. pc = "uinc" /\ HandOver(op.fifo) /\ UNCHANGED <<ram, tail, wire, gone>>
  BY DEF WriteUinc, UincLate
<1>2. PICK h \in Fifo : h = op.fifo  BY OpFacts DEF ObjInv, SlotInv, TypeInv
<1>3. PICK n, o : n = This /\ o = Object(This, calls[This].words)  OBVIOUS
<1>4. /\ o \in Seq(Word) /\ o[1][1] = n /\ Queue(h)' = Append(Queue(h), o)
      /\ \A g \in Fifo \ {h} : Queue(g)' = Queue(g)
  BY <1>1, <1>2, <1>3, QueuePush
<1>5. Queue(h) \in Objects  BY ShapeHolds DEF QueueShape
<1>6. Ids(Queue(h))' = Ids(Queue(h)) \cup {n}
  <2>1. Ids(Append(Queue(h), o)) = Ids(Queue(h)) \cup {n}  BY <1>4, <1>5, IdsAppend
  <2>2. Ids(Queue(h))' = Ids(Queue(h)')  BY DEF Ids
  <2>. QED  BY <1>4, <2>1, <2>2
<1>7. Held(h)' = Held(h) \cup {n}  BY <1>1, <1>6 DEF Held
<1>8. \A g \in Fifo \ {h} : Held(g)' = Held(g)  BY <1>1, <1>4 DEF Held, Ids
<1>9. Handed' = Handed \cup {n}
  <2>1. ASSUME NEW m \in Handed' PROVE m \in Handed \cup {n}
    BY <1>1, <1>7, <1>8, <2>1 DEF Handed
  <2>2. ASSUME NEW m \in Handed PROVE m \in Handed'
    BY <1>1, <1>7, <1>8, <2>2 DEF Handed
  <2>3. n \in Handed'  BY <1>7 DEF Handed
  <2>. QED  BY <2>1, <2>2, <2>3
<1>. QED  BY <1>1, <1>2, <1>3, <1>7, <1>8, <1>9

Steady == Handed' = Handed /\ \A f \in Fifo : Held(f) \cup gone \subseteq (Held(f) \cup gone)'

LEMMA SameQueues ==
  ASSUME ObjInv, ObjInv', [Next]_vars, UNCHANGED <<tail, count, wire, gone>>
  PROVE  Steady
<1>1. \A f \in Fifo : Queue(f)' = Queue(f)  BY QueueSame
<1>2. \A f \in Fifo : Held(f)' = Held(f)  BY <1>1 DEF Held, Ids
<1>. QED  BY <1>2 DEF Steady, Handed

LEMMA HandedSteady ==
  ASSUME ObjInv, ObjInv', [Next]_vars,
         \/ Application \/ Chip \/ BatchDone \/ StatusFails \/ StatusFull \/ StatusRefused
         \/ StatusOk \/ WriteRam \/ WriteRamFails \/ UincLost \/ UNCHANGED vars
  PROVE  Steady
<1>1. ASSUME NEW f \in Fifo, ChipSend(f) PROVE Steady
  <2>1. /\ Queue(f) # <<>> /\ Queue(f) \in Objects /\ wire[f] \in Objects
        /\ wire' = [wire EXCEPT ![f] = Append(@, Head(Queue(f)))]
        /\ Queue(f)' = Tail(Queue(f)) /\ \A g \in Fifo \ {f} : Queue(g)' = Queue(g)
    BY <1>1, QueuePop DEF ObjInv, SlotInv, TypeInv, TypeOK, Objects
  <2>2. Head(Queue(f)) \in Seq(Word) /\ Ids(Queue(f)) = {Head(Queue(f))[1][1]} \cup Ids(Tail(Queue(f)))
    BY <2>1, IdsPop
  <2>3. Ids(Append(wire[f], Head(Queue(f)))) = Ids(wire[f]) \cup {Head(Queue(f))[1][1]}
    BY <2>1, <2>2, IdsAppend
  <2>4. wire'[f] = Append(wire[f], Head(Queue(f))) /\ \A g \in Fifo \ {f} : wire'[g] = wire[g]
    BY <2>1 DEF ObjInv, SlotInv, TypeInv, TypeOK
  <2>5. Held(f)' = Ids(wire'[f]) \cup Ids(Queue(f)')  BY DEF Held, Ids
  <2>6. Held(f)' = Held(f)  BY <2>1, <2>2, <2>3, <2>4, <2>5 DEF Held
  <2>7. \A g \in Fifo \ {f} : Held(g)' = Held(g)  BY <2>1, <2>4 DEF Held, Ids
  <2>8. gone' = gone  BY <1>1 DEF ChipSend
  <2>. QED  BY <2>6, <2>7, <2>8 DEF Steady, Handed
<1>2. ASSUME NEW f \in Fifo, ResetFifo(f) PROVE Steady
  <2>1. gone' = gone \cup Ids(Queue(f)) /\ wire' = wire  BY <1>2 DEF ResetFifo
  <2>2. Queue(f)' = <<>> /\ \A g \in Fifo \ {f} : Queue(g)' = Queue(g)  BY <1>2, QueueDrop
  <2>3. Held(f)' = Ids(wire'[f]) \cup Ids(Queue(f)')  BY DEF Held, Ids
  <2>4. Held(f)' = Ids(wire[f])  BY <2>1, <2>2, <2>3, IdsEmpty
  <2>5. Held(f) = Held(f)' \cup Ids(Queue(f))  BY <2>4 DEF Held
  <2>6. \A g \in Fifo \ {f} : Held(g)' = Held(g)  BY <2>1, <2>2 DEF Held, Ids
  <2>7. \A m : m \in Handed => m \in Handed'
    BY <2>1, <2>5, <2>6, HandedMember, HandedMemberNext
  <2>8. \A m : m \in Handed' => m \in Handed
    BY <2>1, <2>5, <2>6, HandedMember, HandedMemberNext
  <2>9. \A g \in Fifo : Held(g) \cup gone \subseteq (Held(g) \cup gone)'
    BY <2>1, <2>5, <2>6
  <2>. QED  BY <2>7, <2>8, <2>9 DEF Steady
<1>3. CASE ChipMode  BY <1>3, SameQueues DEF ChipMode, history
<1>4. CASE \E f \in Fifo : \/ \E w \in Sizes[f] : Transmit(f, w)
                          \/ \E ws \in Batches(f) : TransmitBatch(f, ws)
  BY <1>4, SameQueues DEF Transmit, TransmitBatch, chipVars, history
<1>5. CASE BatchDone \/ StatusFails \/ StatusFull \/ StatusRefused \/ StatusOk
           \/ WriteRam \/ WriteRamFails \/ UincLost
  BY <1>5, SameQueues DEF BatchDone, StatusFails, StatusFull, StatusRefused, StatusOk,
                          WriteRam, WriteRamFails, UincLost, chipVars, history
<1>6. CASE UNCHANGED vars  BY <1>6, SameQueues DEF vars, chipVars, history
<1>. QED  BY <1>1, <1>2, <1>3, <1>4, <1>5, <1>6 DEF Application, Chip

-----------------------------------------------------------------------------
(* The locals of a call, field by field: when it starts, when its next     *)
(* object is started, when a frame is done, when it returns.               *)
LEMMA NoOpFields == NoOp.rest = <<>> /\ NoOp.acc = 0 /\ NoOp.batch = FALSE
  BY SMT DEF NoOp

LEMMA NewOpFields ==
  ASSUME NEW f \in Fifo, NEW r \in Seq(Nat), NEW n \in Nat
  PROVE  /\ [NoOp EXCEPT !.fifo = f, !.rest = r, !.first = n].first = n
         /\ [NoOp EXCEPT !.fifo = f, !.rest = r, !.first = n].acc = 0
         /\ [NoOp EXCEPT !.fifo = f, !.batch = TRUE, !.first = n, !.rest = r].first = n
         /\ [NoOp EXCEPT !.fifo = f, !.batch = TRUE, !.first = n, !.rest = r].acc = 0
  BY NoOpType, NoOpFields, SMT DEF OpType

LEMMA CallStarts ==
  ASSUME TypeInv, NEW f \in Fifo,
         \/ \E w \in Sizes[f] : Transmit(f, w)
         \/ \E ws \in Batches(f) : TransmitBatch(f, ws)
  PROVE  /\ pc = "idle" /\ pc' = "status"
         /\ op'.fifo = f /\ op'.first = Len(calls) /\ op'.acc = 0
         /\ op'.rest \in Seq(Nat) /\ Len(calls) + Len(op'.rest) <= MaxCalls
         /\ \A i \in 1 .. Len(op'.rest) : op'.rest[i] \in Sizes[f]
         /\ UNCHANGED <<seq, tail, count, calls, ret, wire, gone>>
<1>1. Len(calls) \in Nat /\ MaxCalls \in Nat /\ Sizes[f] \subseteq Nat
  BY CallTypes, BoundsAssumption DEF TypeInv
<1>2. ASSUME NEW w \in Sizes[f], Transmit(f, w)
      PROVE  /\ op'.fifo = f /\ op'.first = Len(calls) /\ op'.acc = 0
             /\ op'.rest \in Seq(Nat) /\ Len(calls) + Len(op'.rest) <= MaxCalls
             /\ \A i \in 1 .. Len(op'.rest) : op'.rest[i] \in Sizes[f]
  <2>1. <<w>> \in Seq(Nat) /\ Len(<<w>>) = 1 /\ <<w>>[1] = w  BY <1>1, SMT
  <2>2. op' = [NoOp EXCEPT !.fifo = f, !.rest = <<w>>, !.first = Len(calls)]
    BY <1>2 DEF Transmit
  <2>3. op'.fifo = f /\ op'.rest = <<w>> /\ op'.first = Len(calls) /\ op'.acc = 0
    <3>1. PICK r \in Seq(Nat), n \in Nat : r = <<w>> /\ n = Len(calls)  BY <1>1, <2>1
    <3>2. op' = [NoOp EXCEPT !.fifo = f, !.rest = r, !.first = n]  BY <2>2, <3>1
    <3>3. op'.fifo = f /\ op'.rest = r /\ op'.first = n /\ op'.acc = 0
      BY <3>2, NewOpRest, NewOpFields
    <3>. QED  BY <3>1, <3>3
  <2>4. Len(calls) < MaxCalls  BY <1>2 DEF Transmit
  <2>5. ASSUME NEW i \in 1 .. 1 PROVE <<w>>[i] \in Sizes[f]
    <3>1. i = 1  BY SMT
    <3>. QED  BY <2>1, <3>1
  <2>6. Len(calls) + 1 <= MaxCalls  BY <1>1, <2>4, SMT
  <2>. QED  BY <2>1, <2>3, <2>5, <2>6
<1>3. ASSUME NEW ws \in Batches(f), TransmitBatch(f, ws)
      PROVE  /\ op'.fifo = f /\ op'.first = Len(calls) /\ op'.acc = 0
             /\ op'.rest \in Seq(Nat) /\ Len(calls) + Len(op'.rest) <= MaxCalls
             /\ \A i \in 1 .. Len(op'.rest) : op'.rest[i] \in Sizes[f]
  <2>1. PICK n \in 0 .. MaxBatch : ws \in [1 .. n -> Sizes[f]]  BY <1>3 DEF Batches
  <2>2. n \in Nat  BY <2>1, BoundsAssumption, SMT
  <2>3. ws \in Seq(Nat) /\ Len(ws) = n  BY <1>1, <2>1, <2>2, SMT
  <2>4. PICK m : m = IF Len(ws) < BatchCap THEN Len(ws) ELSE BatchCap  OBVIOUS
  <2>5. m \in Nat /\ m <= Len(ws)  BY <2>3, <2>4, BoundsAssumption, SMT
  <2>6. PICK r : r = SubSeq(ws, 1, m)  OBVIOUS
  <2>7. r \in Seq(Nat) /\ Len(r) = m /\ \A i \in 1 .. m : r[i] = ws[i]
    BY <2>3, <2>5, <2>6, SMT
  <2>8. op' = [NoOp EXCEPT !.fifo = f, !.batch = TRUE, !.first = Len(calls), !.rest = r]
    BY <1>3, <2>4, <2>6 DEF TransmitBatch
  <2>9. op'.fifo = f /\ op'.rest = r /\ op'.first = Len(calls) /\ op'.acc = 0
    BY <1>1, <2>7, <2>8, NewOpRest, NewOpFields
  <2>10. \A i \in 1 .. m : ws[i] \in Sizes[f]  BY <2>1, <2>2, <2>3, <2>5, SMT
  <2>11. Len(calls) + Len(ws) <= MaxCalls  BY <1>3 DEF TransmitBatch
  <2>12. Len(calls) + m <= MaxCalls  BY <1>1, <2>2, <2>3, <2>5, <2>11, SMT
  <2>. QED  BY <2>7, <2>9, <2>10, <2>12
<1>4. pc = "idle" /\ pc' = "status" /\ UNCHANGED <<seq, tail, count, calls, ret, wire, gone>>
  BY DEF Transmit, TransmitBatch, chipVars, history
<1>. QED  BY <1>2, <1>3, <1>4

LEMMA AtUpdate ==
  ASSUME NEW o \in OpType, NEW x \in Nat
  PROVE  /\ [o EXCEPT !.at = x].fifo = o.fifo /\ [o EXCEPT !.at = x].rest = o.rest
         /\ [o EXCEPT !.at = x].batch = o.batch /\ [o EXCEPT !.at = x].acc = o.acc
         /\ [o EXCEPT !.at = x].first = o.first
  BY SMT DEF OpType

LEMMA CallAdds ==
  ASSUME TypeInv, StatusOk
  PROVE  /\ pc = "status" /\ pc' = "ram" /\ UNCHANGED <<tail, count, ret, wire, gone>>
         /\ op'.fifo = op.fifo /\ op'.rest = op.rest /\ op'.batch = op.batch
         /\ op'.acc = op.acc /\ op'.first = op.first /\ op.rest # <<>>
         /\ Len(calls') = Len(calls) + 1 /\ DOMAIN calls' = 1 .. Len(calls) + 1
         /\ \A n \in 1 .. Len(calls) : calls'[n] = calls[n]
         /\ calls'[Len(calls) + 1].fifo = op.fifo /\ calls'[Len(calls) + 1].ok = FALSE
         /\ calls'[Len(calls) + 1].words = Head(op.rest)
         /\ calls'[Len(calls) + 1].seq = seq % SeqMod
         /\ seq' = NextSeq
<1>. USE DEF TypeInv
<1>1. op.rest # <<>> /\ \E x \in Nat : op' = [op EXCEPT !.at = x]  BY StatusOkFacts
<1>2. PICK c : c = [fifo |-> op.fifo, words |-> Head(op.rest), seq |-> seq % SeqMod, ok |-> FALSE]
  OBVIOUS
<1>3. calls' = Append(calls, c)  BY <1>2 DEF StatusOk
<1>4. /\ Len(calls') = Len(calls) + 1 /\ DOMAIN calls' = 1 .. Len(calls) + 1
      /\ \A n \in 1 .. Len(calls) : calls'[n] = calls[n]
      /\ calls'[Len(calls) + 1] = c
  BY <1>3, CallTypes, SMT
<1>5. c.fifo = op.fifo /\ c.words = Head(op.rest) /\ c.seq = seq % SeqMod /\ c.ok = FALSE
  BY <1>2
<1>6. /\ op'.fifo = op.fifo /\ op'.rest = op.rest /\ op'.batch = op.batch
      /\ op'.acc = op.acc /\ op'.first = op.first
  <2>1. op \in OpType  BY DEF TypeOK
  <2>2. PICK x \in Nat : op' = [op EXCEPT !.at = x]  BY <1>1
  <2>. QED  BY <2>1, <2>2, AtUpdate
<1>. QED  BY <1>1, <1>4, <1>5, <1>6 DEF StatusOk, AtStatus, chipVars

LEMMA TailAccUpdate ==
  ASSUME NEW o \in OpType, NEW r \in Seq(Nat), NEW x \in Nat
  PROVE  /\ [o EXCEPT !.rest = r, !.acc = x].fifo = o.fifo
         /\ [o EXCEPT !.rest = r, !.acc = x].rest = r
         /\ [o EXCEPT !.rest = r, !.acc = x].batch = o.batch
         /\ [o EXCEPT !.rest = r, !.acc = x].acc = x
         /\ [o EXCEPT !.rest = r, !.acc = x].first = o.first
  BY SMT DEF OpType

LEMMA CallDoneFields ==
  ASSUME NEW c \in CallType
  PROVE  LET d == [c EXCEPT !.ok = TRUE] IN
         d.fifo = c.fifo /\ d.words = c.words /\ d.seq = c.seq /\ d.ok = TRUE
  BY FlagUpdate, SMT DEF CallType

LEMMA FrameDone ==
  ASSUME TypeInv, pc = "uinc", NextFrame
  PROVE  /\ This \in DOMAIN calls /\ DOMAIN calls' = DOMAIN calls /\ Len(calls') = Len(calls)
         /\ \A n \in DOMAIN calls :
              /\ calls'[n].fifo = calls[n].fifo /\ calls'[n].words = calls[n].words
              /\ calls'[n].seq = calls[n].seq /\ (n # This => calls'[n].ok = calls[n].ok)
         /\ op.batch =>
              /\ pc' = "status" /\ ret' = ret /\ op'.rest = Tail(op.rest) /\ op'.acc = op.acc + 1
              /\ op'.fifo = op.fifo /\ op'.batch = op.batch /\ op'.first = op.first
         /\ ~op.batch => Return("ok", 1)
<1>. USE DEF TypeInv
<1>1. calls # <<>> /\ op.rest # <<>>  BY DEF InHand
<1>2. This \in DOMAIN calls /\ calls[This] \in CallType  BY <1>1, CallTypes, SMT DEF This
<1>3. PICK c : c = [calls[This] EXCEPT !.ok = TRUE]  OBVIOUS
<1>4. c \in CallType /\ c.fifo = calls[This].fifo /\ c.words = calls[This].words /\ c.seq = calls[This].seq
  BY <1>2, <1>3, CallDone, CallDoneFields
<1>5. calls' = [calls EXCEPT ![This] = c]  BY <1>3 DEF NextFrame
<1>6. DOMAIN calls' = DOMAIN calls /\ \A n \in DOMAIN calls : calls'[n] = IF n = This THEN c ELSE calls[n]
  BY <1>2, <1>5
<1>7. Len(calls') = Len(calls)  BY <1>2, <1>4, <1>5, CallTypes, SMT
<1>8. op.rest \in Seq(Nat) /\ op.acc \in Nat /\ op \in OpType  BY OpFacts DEF TypeOK
<1>9. Tail(op.rest) \in Seq(Nat) /\ op.acc + 1 \in Nat  BY <1>1, <1>8, SMT
<1>10. op.batch => op' = [op EXCEPT !.rest = Tail(op.rest), !.acc = op.acc + 1]
  BY DEF NextFrame
<1>11. ASSUME op.batch
       PROVE  /\ op'.rest = Tail(op.rest) /\ op'.acc = op.acc + 1
              /\ op'.fifo = op.fifo /\ op'.batch = op.batch /\ op'.first = op.first
  <2>. PICK r, x : r = Tail(op.rest) /\ x = op.acc + 1  OBVIOUS
  <2>1. r \in Seq(Nat) /\ x \in Nat /\ op' = [op EXCEPT !.rest = r, !.acc = x]
    BY <1>9, <1>10, <1>11
  <2>. QED  BY <1>8, <2>1, TailAccUpdate
<1>. QED  BY <1>2, <1>4, <1>6, <1>7, <1>11 DEF NextFrame

LEMMA CallReturns ==
  ASSUME TypeInv, NEW res, NEW acc, Return(res, acc)
  PROVE  /\ pc' = "idle" /\ op'.rest = <<>> /\ op'.acc = 0 /\ op'.batch = FALSE
         /\ ret'.res = res /\ ret'.acc = acc /\ ret'.first = op.first /\ ret'.last = Len(calls)
  BY NoOpFields DEF Return

-----------------------------------------------------------------------------
(* The kinds of steps that matter to the books.                            *)
Returns ==
  \/ BatchDone \/ StatusFails \/ StatusFull \/ StatusRefused \/ WriteRamFails
  \/ UincLost \/ UincLate

LEMMA StepKinds ==
  ASSUME [Next]_vars
  PROVE  \/ \E f \in Fifo : \/ \E w \in Sizes[f] : Transmit(f, w)
                          \/ \E ws \in Batches(f) : TransmitBatch(f, ws)
         \/ StatusOk \/ WriteUinc \/ Returns
         \/ WriteRam
         \/ UNCHANGED <<pc, op, seq, calls, ret>> /\ (Application \/ Chip \/ UNCHANGED vars)
<1>1. CASE Chip  BY <1>1 DEF Chip, ChipMode, ChipSend, driverVars, history
<1>2. CASE \E f \in Fifo : ResetFifo(f)  BY <1>2 DEF ResetFifo, driverVars, Application
<1>3. CASE UNCHANGED vars  BY <1>3 DEF vars, driverVars, history
<1>. QED  BY <1>1, <1>2, <1>3 DEF Next, Application, Driver, Returns

LEMMA ReturnKind ==
  ASSUME Returns
  PROVE  /\ UNCHANGED <<seq, calls>>
         /\ \E res, acc : /\ Return(res, acc)
                         /\ \/ res \in {"spi", "comm"}
                            \/ res = "ok" /\ acc = op.acc /\ pc = "status"
                            \/ res = "full" /\ pc = "status" /\ ~op.batch
<1>1. UNCHANGED <<seq, calls>>
  BY DEF Returns, BatchDone, StatusFails, StatusFull, StatusRefused, WriteRamFails, UincLost, UincLate
<1>2. CASE BatchDone  BY <1>1, <1>2 DEF BatchDone
<1>3. CASE StatusFull
  <2>1. pc = "status" /\ Return(IF op.batch THEN "ok" ELSE "full", op.acc)
    BY <1>3 DEF StatusFull, AtStatus
  <2>2. CASE op.batch  BY <1>1, <2>1, <2>2
  <2>3. CASE ~op.batch  BY <1>1, <2>1, <2>3
  <2>. QED  BY <2>2, <2>3
<1>4. CASE StatusFails \/ StatusRefused \/ WriteRamFails \/ UincLost \/ UincLate
  <2>1. Return("spi", op.acc) \/ Return("comm", op.acc)
    BY <1>4 DEF StatusFails, StatusRefused, WriteRamFails, UincLost, UincLate
  <2>. QED  BY <1>1, <2>1
<1>. QED  BY <1>2, <1>3, <1>4 DEF Returns

LEMMA SizeFacts ==
  ASSUME TypeInv
  PROVE  /\ Len(calls) \in Nat /\ DOMAIN calls = 1 .. Len(calls) /\ MaxCalls \in Nat
         /\ op.rest \in Seq(Nat) /\ Len(op.rest) \in Nat /\ op.fifo \in Fifo
         /\ op.first \in Nat /\ op.acc \in Nat /\ op.batch \in BOOLEAN
         /\ ret.first \in Nat /\ ret.last \in Nat /\ ret.acc \in Nat
<1>1. op.rest \in Seq(Nat) /\ op.fifo \in Fifo /\ op.first \in Nat /\ op.acc \in Nat /\ op.batch \in BOOLEAN
  BY OpFacts DEF TypeInv
<1>2. Len(op.rest) \in Nat  BY <1>1, SMT
<1>3. ret.first \in Nat /\ ret.last \in Nat /\ ret.acc \in Nat  BY DEF TypeInv, TypeOK
<1>. QED  BY <1>1, <1>2, <1>3, CallTypes, BoundsAssumption DEF TypeInv

LEMMA OfferStep == ASSUME TypeInv, OfferInv, [Next]_vars PROVE OfferInv'
<1>. USE DEF OfferInv
<1>0. /\ Len(calls) \in Nat /\ DOMAIN calls = 1 .. Len(calls) /\ MaxCalls \in Nat
      /\ op.rest \in Seq(Nat) /\ Len(op.rest) \in Nat
  BY SizeFacts
<1>1. ASSUME NEW f \in Fifo, \/ \E w \in Sizes[f] : Transmit(f, w)
                             \/ \E ws \in Batches(f) : TransmitBatch(f, ws)
      PROVE  OfferInv'
  BY <1>1, CallStarts
<1>2. CASE StatusOk
  <2>1. /\ Len(calls') = Len(calls) + 1 /\ DOMAIN calls' = 1 .. Len(calls) + 1
        /\ pc = "status" /\ pc' = "ram" /\ op'.rest = op.rest /\ op'.fifo = op.fifo /\ op.rest # <<>>
        /\ \A n \in 1 .. Len(calls) : calls'[n] = calls[n]
        /\ calls'[Len(calls) + 1].fifo = op.fifo
        /\ calls'[Len(calls) + 1].words = Head(op.rest)
    BY <1>2, CallAdds
  <2>2. Head(op.rest) = op.rest[1] /\ 1 \in 1 .. Len(op.rest)  BY <1>0, <2>1, SMT
  <2>3. Head(op.rest) \in Sizes[op.fifo]  BY <2>2
  <2>4. Len(calls) + Len(op.rest) <= MaxCalls  BY <2>1
  <2>5. Len(calls') + Len(op'.rest) <= MaxCalls + 1
    <3>1. PICK x \in Nat, y \in Nat : x = Len(calls) /\ y = Len(op.rest)  BY <1>0
    <3>2. Len(calls') = x + 1 /\ Len(op'.rest) = y /\ x + y <= MaxCalls  BY <2>1, <2>4, <3>1
    <3>3. (x + 1) + y <= MaxCalls + 1  BY <1>0, <3>2, SMT
    <3>. QED  BY <3>2, <3>3
  <2>6. ASSUME NEW n \in DOMAIN calls' PROVE calls'[n].words \in Sizes[calls'[n].fifo]
    <3>1. n \in 1 .. Len(calls) \/ n = Len(calls) + 1  BY <1>0, <2>1, SMT
    <3>. QED  BY <1>0, <2>1, <2>3, <3>1
  <2>. QED  BY <2>1, <2>5, <2>6
<1>3. CASE WriteUinc
  <2>1. pc = "uinc" /\ NextFrame  BY <1>3 DEF WriteUinc
  <2>2. \A n \in DOMAIN calls' : calls'[n].words \in Sizes[calls'[n].fifo]
    BY <2>1, FrameDone
  <2>3. CASE op.batch
    <3>1. /\ pc' = "status" /\ op'.rest = Tail(op.rest) /\ op'.fifo = op.fifo
          /\ Len(calls') = Len(calls)
      BY <2>1, <2>3, FrameDone
    <3>2. op.rest # <<>>  BY <2>1 DEF TypeInv, InHand
    <3>3. /\ Len(Tail(op.rest)) = Len(op.rest) - 1
          /\ \A i \in 1 .. Len(op.rest) - 1 : Tail(op.rest)[i] = op.rest[i + 1]
      BY <1>0, <3>2, SMT
    <3>4. \A i \in 1 .. Len(op.rest) - 1 : i + 1 \in 1 .. Len(op.rest)  BY <1>0, SMT
    <3>5. Len(calls) + Len(op.rest) <= MaxCalls + 1  BY <2>1
    <3>6. Len(calls') + Len(op'.rest) <= MaxCalls  BY <1>0, <3>1, <3>3, <3>5, SMT
    <3>. QED  BY <2>2, <3>1, <3>3, <3>4, <3>6
  <2>4. CASE ~op.batch
    <3>1. pc' = "idle" /\ op'.rest = <<>>  BY <2>1, <2>4, FrameDone, CallReturns
    <3>2. Len(op'.rest) = 0  BY <3>1, SMT
    <3>3. 1 .. Len(op'.rest) = {}  BY <3>2, SMT
    <3>. QED  BY <2>2, <3>1, <3>3
  <2>. QED  BY <2>3, <2>4
<1>4. CASE Returns
  <2>1. pc' = "idle" /\ op'.rest = <<>> /\ calls' = calls  BY <1>4, ReturnKind, CallReturns
  <2>2. Len(op'.rest) = 0  BY <2>1, SMT
  <2>3. 1 .. Len(op'.rest) = {}  BY <2>2, SMT
  <2>. QED  BY <2>1, <2>3
<1>5. CASE WriteRam  BY <1>5 DEF WriteRam, history
<1>6. CASE UNCHANGED <<pc, op, seq, calls, ret>>  BY <1>6
<1>. QED  BY <1>1, <1>2, <1>3, <1>4, <1>5, <1>6, StepKinds

-----------------------------------------------------------------------------
(* The counter wraps without disturbing the numbers: SeqMod divides the    *)
(* range of the counter.                                                   *)
LEMMA NextSeqMod ==
  ASSUME TypeOK
  PROVE  NextSeq % SeqMod = (seq + 1) % SeqMod
<1>1. seq \in 0 .. SeqWrap - 1 /\ SeqWrap \in Nat \ {0} /\ SeqMod \in Nat \ {0}
  BY BoundsAssumption DEF TypeOK
<1>2. CASE seq + 1 = SeqWrap
  <2>1. 0 \in 0 .. SeqWrap - 1 /\ 1 \in Int /\ SeqWrap \in Nat /\ SeqWrap = SeqWrap * 1 + 0
    BY <1>1, SMT
  <2>2. SeqWrap % SeqWrap = 0  BY <1>1, <2>1, ModUnique
  <2>3. 0 \in 0 .. SeqMod - 1 /\ 0 \in Int /\ 0 \in Nat /\ 0 = SeqMod * 0 + 0  BY <1>1, SMT
  <2>4. 0 % SeqMod = 0  BY <1>1, <2>3, ModUnique
  <2>. QED  BY <1>2, <2>2, <2>4, BoundsAssumption DEF NextSeq
<1>3. CASE seq + 1 # SeqWrap
  <2>1. /\ seq + 1 \in 0 .. SeqWrap - 1 /\ 0 \in Int /\ seq + 1 \in Nat
        /\ seq + 1 = SeqWrap * 0 + (seq + 1)
    BY <1>1, <1>3, SMT
  <2>2. (seq + 1) % SeqWrap = seq + 1  BY <1>1, <2>1, ModUnique
  <2>. QED  BY <2>2 DEF NextSeq
<1>. QED  BY <1>2, <1>3

LEMMA SeqStep == ASSUME TypeInv, SeqInv, [Next]_vars PROVE SeqInv'
<1>. USE DEF SeqInv
<1>0. Len(calls) \in Nat /\ DOMAIN calls = 1 .. Len(calls)  BY SizeFacts
<1>1. CASE StatusOk
  <2>. PICK L \in Nat : L = Len(calls)  BY <1>0
  <2>1. /\ Len(calls') = L + 1 /\ DOMAIN calls' = 1 .. L + 1
        /\ \A n \in 1 .. L : calls'[n] = calls[n]
        /\ calls'[L + 1].seq = seq % SeqMod /\ seq' = NextSeq
    BY <1>1, CallAdds
  <2>2. SeqMod \in Nat \ {0} /\ seq \in Nat  BY BoundsAssumption, SMT DEF TypeInv, TypeOK
  <2>3. (seq + 1) % SeqMod = (L + 1) % SeqMod  BY <2>2, ModSuccessor
  <2>4. seq' % SeqMod = Len(calls') % SeqMod  BY <2>1, <2>3, NextSeqMod DEF TypeInv
  <2>5. ASSUME NEW n \in 1 .. L + 1 PROVE calls'[n].seq = (n - 1) % SeqMod
    <3>1. CASE n = L + 1
      <4>1. n - 1 = L  BY <3>1, SMT
      <4>. QED  BY <2>1, <3>1, <4>1
    <3>2. CASE n # L + 1
      <4>1. n \in 1 .. L  BY <3>2, SMT
      <4>. QED  BY <1>0, <2>1, <4>1
    <3>. QED  BY <3>1, <3>2
  <2>. QED  BY <2>1, <2>4, <2>5
<1>2. CASE WriteUinc  BY <1>2, FrameDone DEF WriteUinc
<1>3. CASE Returns  BY <1>3, ReturnKind
<1>4. CASE WriteRam  BY <1>4 DEF WriteRam, history
<1>5. CASE \E f \in Fifo : \/ \E w \in Sizes[f] : Transmit(f, w)
                          \/ \E ws \in Batches(f) : TransmitBatch(f, ws)
  BY <1>5, CallStarts
<1>6. CASE UNCHANGED <<pc, op, seq, calls, ret>>  BY <1>6
<1>. QED  BY <1>1, <1>2, <1>3, <1>4, <1>5, <1>6, StepKinds

LEMMA SeqInit == Init => SeqInv
<1>. SUFFICES ASSUME Init PROVE SeqInv  OBVIOUS
<1>1. Len(calls) = 0 /\ DOMAIN calls = {} /\ seq = 0  BY SMT DEF Init
<1>. QED  BY <1>1 DEF SeqInv

(* No two objects out of SeqMod consecutive ones carry the same number,    *)
(* whatever calls failed in between and wherever the u32 counter wrapped.  *)
THEOREM NumbersAreDistinct == Spec => []SeqDistinct
<1>1. TypeInv /\ SeqInv => SeqDistinct
  <2>. SUFFICES ASSUME TypeInv, SeqInv, NEW m \in DOMAIN calls, NEW n \in DOMAIN calls,
                       m < n, n - m < SeqMod
                PROVE  calls[m].seq # calls[n].seq
    BY DEF SeqDistinct
  <2>1. calls[m].seq = (m - 1) % SeqMod /\ calls[n].seq = (n - 1) % SeqMod  BY DEF SeqInv
  <2>2. m \in 1 .. Len(calls) /\ n \in 1 .. Len(calls) /\ SeqMod \in Nat \ {0}
    BY SizeFacts, BoundsAssumption
  <2>3. m - 1 \in Nat /\ n - 1 \in Nat /\ m - 1 < n - 1 /\ (n - 1) - (m - 1) < SeqMod
    BY <2>2, SMT
  <2>. QED  BY <2>1, <2>2, <2>3, ModDistinct
<1>2. TypeInv /\ SeqInv /\ [Next]_vars => (TypeInv /\ SeqInv)'  BY TypeStep, SeqStep
<1>. QED  BY <1>1, <1>2, TypeInit, SeqInit, PTL DEF Spec

-----------------------------------------------------------------------------
LEMMA OkStep == ASSUME ObjInv, ObjInv', OkInv, [Next]_vars PROVE OkInv'
<1>0. TypeInv /\ DOMAIN calls = 1 .. Len(calls) /\ Len(calls) \in Nat
  BY SizeFacts DEF ObjInv, SlotInv
<1>1. ASSUME Steady,
             \A n \in DOMAIN calls' : calls'[n].ok =>
               n \in DOMAIN calls /\ calls[n].ok /\ calls'[n].fifo = calls[n].fifo
      PROVE  OkInv'
  <2>1. \A n \in DOMAIN calls : calls[n].fifo \in Fifo  BY <1>0, CallTypes DEF TypeInv
  <2>. QED  BY <1>1, <2>1 DEF OkInv, Steady
<1>2. CASE UNCHANGED calls /\ Steady  BY <1>1, <1>2
<1>3. CASE StatusOk
  <2>1. /\ DOMAIN calls' = 1 .. Len(calls) + 1 /\ calls'[Len(calls) + 1].ok = FALSE
        /\ \A n \in 1 .. Len(calls) : calls'[n] = calls[n]
    BY <1>0, <1>3, CallAdds
  <2>2. \A n \in DOMAIN calls' : n \in 1 .. Len(calls) \/ n = Len(calls) + 1
    BY <1>0, <2>1, SMT
  <2>3. Steady  BY <1>3, HandedSteady
  <2>. QED  BY <1>0, <1>1, <2>1, <2>2, <2>3
<1>4. CASE WriteUinc
  <2>1. pc = "uinc" /\ NextFrame  BY <1>4 DEF WriteUinc
  <2>2. /\ This \in DOMAIN calls /\ DOMAIN calls' = DOMAIN calls
        /\ \A n \in DOMAIN calls :
             calls'[n].fifo = calls[n].fifo /\ (n # This => calls'[n].ok = calls[n].ok)
    BY <1>0, <2>1, FrameDone
  <2>3. calls[This].fifo = op.fifo  BY <1>0, <2>1 DEF TypeInv, InHand
  <2>4. /\ gone' = gone
        /\ \A f \in Fifo : Held(f) \subseteq Held(f)' /\ (f = op.fifo => This \in Held(f)')
    BY <1>4, HandedPush
  <2>5. \A n \in DOMAIN calls : calls[n].fifo \in Fifo  BY <1>0, CallTypes DEF TypeInv
  <2>6. ASSUME NEW n \in DOMAIN calls', calls'[n].ok
        PROVE  \E f \in Fifo : f = calls'[n].fifo /\ n \in Held(f)' \cup gone'
    <3>. PICK f \in Fifo : f = calls[n].fifo  BY <2>2, <2>5
    <3>1. f = calls'[n].fifo  BY <2>2
    <3>2. CASE n = This  BY <2>3, <2>4, <3>1, <3>2
    <3>3. CASE n # This
      <4>1. n \in Held(f) \cup gone  BY <2>2, <2>6, <3>3 DEF OkInv
      <4>. QED  BY <2>4, <3>1, <4>1
    <3>. QED  BY <3>2, <3>3
  <2>. QED  BY <2>6 DEF OkInv
<1>5. CASE UincLate
  <2>1. calls' = calls  BY <1>5 DEF UincLate
  <2>2. gone' = gone /\ \A f \in Fifo : Held(f) \subseteq Held(f)'  BY <1>5, HandedPush
  <2>3. \A n \in DOMAIN calls : calls[n].fifo \in Fifo  BY <1>0, CallTypes DEF TypeInv
  <2>. QED  BY <2>1, <2>2, <2>3 DEF OkInv
<1>6. CASE BatchDone \/ StatusFails \/ StatusFull \/ StatusRefused \/ WriteRamFails
           \/ UincLost \/ WriteRam
  <2>1. calls' = calls
    BY <1>6 DEF BatchDone, StatusFails, StatusFull, StatusRefused, WriteRamFails,
                UincLost, WriteRam, history
  <2>. QED  BY <1>2, <1>6, <2>1, HandedSteady
<1>7. CASE Application \/ Chip \/ UNCHANGED vars
  <2>1. calls' = calls
    BY <1>7 DEF Application, Transmit, TransmitBatch, ResetFifo, Chip, ChipMode, ChipSend, vars, history
  <2>. QED  BY <1>2, <1>7, <2>1, HandedSteady
<1>. QED  BY <1>3, <1>4, <1>5, <1>6, <1>7 DEF Next, Driver

(* The last result keeps its meaning as long as only later frames are      *)
(* handed over.                                                            *)
LEMMA ResultKeeps ==
  ASSUME BookInv, ret' = ret,
         Handed' = Handed \/ \E m : Handed' = Handed \cup {m} /\ ~(m <= ret.last)
  PROVE  /\ ret'.res = "ok" => Mine' = ret'.first + 1 .. ret'.first + ret'.acc
         /\ ret'.res = "full" => Mine' = {}
<1>1. Mine' = Mine  BY DEF Mine
<1>. QED  BY <1>1 DEF BookInv

LEMMA BookReturns ==
  ASSUME TypeInv, BookInv, Handed' = Handed, Returns
  PROVE  BookInv'
<1>1. UNCHANGED calls  BY ReturnKind
<1>2. PICK res, acc : /\ Return(res, acc)
                      /\ \/ res \in {"spi", "comm"}
                         \/ res = "ok" /\ acc = op.acc /\ pc = "status"
                         \/ res = "full" /\ pc = "status" /\ ~op.batch
  BY ReturnKind
<1>3. /\ pc' = "idle" /\ op'.acc = 0 /\ ret'.res = res /\ ret'.acc = acc
      /\ ret'.first = op.first /\ ret'.last = Len(calls)
  BY <1>2, CallReturns
<1>4. Len(calls) \in Nat /\ op.first \in Nat /\ op.acc \in Nat  BY SizeFacts
<1>5. pc = "status" => Mine' = op.first + 1 .. op.first + op.acc
  <2>. SUFFICES ASSUME pc = "status" PROVE Mine' = op.first + 1 .. op.first + op.acc
    OBVIOUS
  <2>1. After(op.first) = op.first + 1 .. op.first + op.acc  BY DEF BookInv
  <2>2. \A m \in Handed : m <= Len(calls)  BY <1>4, SMT DEF BookInv
  <2>3. Mine' = {m \in Handed : m > op.first /\ m <= Len(calls)}  BY <1>3 DEF Mine
  <2>4. Mine' = After(op.first)  BY <2>2, <2>3 DEF After
  <2>. QED  BY <2>1, <2>4
<1>6. op.acc = 0 => op.first + 1 .. op.first + op.acc = {}  BY <1>4, SMT
<1>7. Len(calls') = Len(calls) /\ ret'.last <= Len(calls')  BY <1>1, <1>3, <1>4, SMT
<1>. QED  BY <1>1, <1>2, <1>3, <1>5, <1>6, <1>7 DEF BookInv

LEMMA BookPush ==
  ASSUME TypeInv, BookInv, Handed' = Handed \cup {This}, WriteUinc \/ UincLate
  PROVE  BookInv'
<1>0. pc = "uinc"  BY DEF WriteUinc, UincLate
<1>1. /\ Len(calls) \in Nat /\ op.first \in Nat /\ op.acc \in Nat /\ op.batch \in BOOLEAN
      /\ ret.last \in Nat
  BY SizeFacts
<1>. PICK L, a, b, l : L = Len(calls) /\ a = op.first /\ b = op.acc /\ l = ret.last  OBVIOUS
<1>2. /\ L = a + b + 1 /\ After(a) = a + 1 .. a + b /\ l <= a /\ Handed \subseteq 1 .. L
      /\ This = L
  BY <1>0, SMT DEF BookInv, This
<1>3. Handed' \subseteq 1 .. L
  <2>1. L \in 1 .. L  BY <1>1, <1>2, SMT
  <2>. QED  BY <1>2, <2>1
<1>4. {m \in Handed' : m > a} = a + 1 .. a + b + 1
  <2>1. \A m : m \in a + 1 .. a + b + 1 <=> m \in a + 1 .. a + b \/ m = L  BY <1>1, <1>2, SMT
  <2>2. L > a  BY <1>1, <1>2, SMT
  <2>3. \A m : m \in Handed' /\ m > a <=> m \in After(a) \/ m = L  BY <1>2, <2>2 DEF After
  <2>. QED  BY <1>2, <2>1, <2>3
<1>5. ~(This <= ret.last)  BY <1>1, <1>2, SMT
<1>6. CASE UincLate
  <2>1. Return("spi", op.acc) /\ calls' = calls  BY <1>6 DEF UincLate
  <2>2. pc' = "idle" /\ op'.acc = 0 /\ ret'.res = "spi" /\ ret'.last = L
    BY <2>1, CallReturns
  <2>3. Len(calls') = L /\ L <= L  BY <1>1, <2>1, SMT
  <2>. QED  BY <1>3, <2>2, <2>3 DEF BookInv
<1>7. CASE WriteUinc /\ op.batch
  <2>1. /\ pc' = "status" /\ op'.first = a /\ op'.acc = b + 1 /\ op'.batch /\ ret' = ret
        /\ Len(calls') = L
    BY <1>0, <1>7, FrameDone DEF WriteUinc
  <2>2. a + (b + 1) = L /\ a + b + 1 = L /\ l <= L  BY <1>1, <1>2, SMT
  <2>3. /\ ret'.res = "ok" => Mine' = ret'.first + 1 .. ret'.first + ret'.acc
        /\ ret'.res = "full" => Mine' = {}
    BY <1>5, <2>1, ResultKeeps
  <2>4. After(op.first)' = op'.first + 1 .. op'.first + op'.acc
    BY <1>4, <2>1, <2>2 DEF After
  <2>5. Len(calls') = op'.first + op'.acc + 0  BY <1>1, <2>1, <2>2, SMT
  <2>6. ret'.last <= op'.first /\ ret'.last <= Len(calls')  BY <1>2, <2>1, <2>2
  <2>. QED  BY <1>3, <2>1, <2>3, <2>4, <2>5, <2>6 DEF BookInv
<1>8. CASE WriteUinc /\ ~op.batch
  <2>1. Return("ok", 1) /\ Len(calls') = L  BY <1>0, <1>8, FrameDone DEF WriteUinc
  <2>2. /\ pc' = "idle" /\ op'.acc = 0 /\ ret'.res = "ok" /\ ret'.acc = 1
        /\ ret'.first = a /\ ret'.last = L
    BY <2>1, CallReturns
  <2>3. b = 0  BY <1>8 DEF BookInv
  <2>4. a + b + 1 = a + 1 /\ L <= L  BY <1>1, <2>3, SMT
  <2>5. \A m \in Handed' : m <= L  BY <1>1, <1>3, SMT
  <2>6. Mine' = {m \in Handed' : m > a}  BY <2>2, <2>5 DEF Mine
  <2>. QED  BY <1>3, <1>4, <2>1, <2>2, <2>4, <2>6 DEF BookInv
<1>. QED  BY <1>6, <1>7, <1>8

LEMMA BookStep == ASSUME ObjInv, ObjInv', BookInv, [Next]_vars PROVE BookInv'
<1>0. TypeInv  BY DEF ObjInv, SlotInv
<1>1. /\ Len(calls) \in Nat /\ op.first \in Nat /\ op.acc \in Nat /\ ret.last \in Nat
  BY <1>0, SizeFacts
<1>2. ASSUME NEW f \in Fifo, \/ \E w \in Sizes[f] : Transmit(f, w)
                             \/ \E ws \in Batches(f) : TransmitBatch(f, ws)
      PROVE  BookInv'
  <2>1. /\ pc' = "status" /\ op'.first = Len(calls) /\ op'.acc = 0 /\ UNCHANGED <<calls, ret>>
    BY <1>0, <1>2, CallStarts
  <2>2. Handed' = Handed  BY <1>2, HandedSteady DEF Steady, Application
  <2>3. \A m \in Handed : ~(m > Len(calls))  BY <1>1, SMT DEF BookInv
  <2>4. After(op.first)' = {}  BY <2>1, <2>2, <2>3 DEF After
  <2>5. /\ Len(calls) + 1 .. Len(calls) + 0 = {} /\ Len(calls) = Len(calls) + 0 + 0
    BY <1>1, SMT
  <2>6. /\ ret'.res = "ok" => Mine' = ret'.first + 1 .. ret'.first + ret'.acc
        /\ ret'.res = "full" => Mine' = {}
    BY <2>1, <2>2, ResultKeeps
  <2>. QED  BY <2>1, <2>2, <2>4, <2>5, <2>6 DEF BookInv
<1>3. CASE StatusOk
  <2>1. /\ pc = "status" /\ pc' = "ram" /\ op'.first = op.first /\ op'.acc = op.acc
        /\ op'.batch = op.batch /\ ret' = ret /\ Len(calls') = Len(calls) + 1
    BY <1>0, <1>3, CallAdds
  <2>2. Handed' = Handed  BY <1>3, HandedSteady DEF Steady
  <2>3. After(op.first)' = After(op.first)  BY <2>1, <2>2 DEF After
  <2>4. 1 .. Len(calls) \subseteq 1 .. Len(calls) + 1  BY <1>1, SMT
  <2>5. /\ Len(calls) + 1 = op.first + op.acc + 1 /\ ret.last <= Len(calls) + 1
    BY <1>1, <2>1, SMT DEF BookInv
  <2>6. /\ ret'.res = "ok" => Mine' = ret'.first + 1 .. ret'.first + ret'.acc
        /\ ret'.res = "full" => Mine' = {}
    BY <2>1, <2>2, ResultKeeps
  <2>. QED  BY <2>1, <2>2, <2>3, <2>4, <2>5, <2>6 DEF BookInv
<1>4. CASE WriteUinc \/ UincLate
  BY <1>0, <1>4, HandedPush, BookPush
<1>5. CASE BatchDone \/ StatusFails \/ StatusFull \/ StatusRefused \/ WriteRamFails \/ UincLost
  BY <1>0, <1>5, HandedSteady, BookReturns DEF Steady, Returns
<1>6. CASE WriteRam
  <2>1. pc = "ram" /\ pc' = "uinc" /\ UNCHANGED <<op, calls, ret>>  BY <1>6 DEF WriteRam, history
  <2>2. Handed' = Handed  BY <1>6, HandedSteady DEF Steady
  <2>. QED  BY <2>1, <2>2 DEF BookInv, After, Mine
<1>7. CASE UNCHANGED <<pc, op, seq, calls, ret>> /\ (Application \/ Chip \/ UNCHANGED vars)
  <2>1. Handed' = Handed  BY <1>7, HandedSteady DEF Steady
  <2>. QED  BY <1>7, <2>1 DEF BookInv, After, Mine
<1>. QED  BY <1>2, <1>3, <1>4, <1>5, <1>6, <1>7, StepKinds DEF Returns

-----------------------------------------------------------------------------
QueueInv == ObjInv /\ OfferInv /\ BookInv /\ OkInv

LEMMA QueueInit == Init => QueueInv
<1>. SUFFICES ASSUME Init PROVE QueueInv  OBVIOUS
<1>1. /\ calls = <<>> /\ op = NoOp /\ gone = {} /\ pc = "idle"
      /\ ret.res = "none" /\ ret.last = 0
      /\ \A f \in Fifo : wire[f] = <<>> /\ count[f] = 0
  BY DEF Init
<1>2. Len(calls) = 0 /\ DOMAIN calls = {} /\ Len(op.rest) = 0  BY <1>1, NoOpFields, SMT
<1>3. OfferInv
  <2>1. 1 .. Len(op.rest) = {}  BY <1>2, SMT
  <2>. QED  BY <1>1, <1>2, <2>1 DEF OfferInv
<1>4. Handed = {}
  <2>1. ASSUME NEW f \in Fifo PROVE Held(f) = {}
    <3>1. Queue(f) = <<>>
      <4>1. 1 .. count[f] = {}  BY <1>1, SMT
      <4>. QED  BY <4>1, SMT DEF Queue
    <3>. QED  BY <1>1, <3>1, IdsEmpty DEF Held
  <2>. QED  BY <1>1, <2>1, HandedMember
<1>5. BookInv
  <2>1. ret.last <= Len(calls)  BY <1>1, <1>2, SMT
  <2>. QED  BY <1>1, <1>4, <2>1, NoOpFields DEF BookInv
<1>6. OkInv  BY <1>2 DEF OkInv
<1>. QED  BY <1>3, <1>5, <1>6, ObjInit DEF QueueInv

LEMMA QueueInvStep ==
  ASSUME CorruptShows, FramesFit, QueueInv, [Next]_vars
  PROVE  QueueInv'
<1>1. ObjInv'  BY ObjStep DEF QueueInv
<1>. QED  BY <1>1, OfferStep, BookStep, OkStep DEF QueueInv, ObjInv, SlotInv

(* A frame the driver reported Ok for is on the bus, still queued, or was  *)
(* discarded by a reset_fifo.                                              *)
THEOREM OkIsNotLost ==
  ASSUME CorruptShows, FramesFit
  PROVE  Spec => []OkNotLost
<1>1. QueueInv => OkNotLost
  <2>. SUFFICES ASSUME QueueInv PROVE OkNotLost  OBVIOUS
  <2>1. \A n \in DOMAIN calls : calls[n].fifo \in Fifo
    BY CallTypes DEF QueueInv, ObjInv, SlotInv, TypeInv
  <2>. QED  BY <2>1, HistoryIds DEF QueueInv, OkInv, OkNotLost
<1>2. QueueInv /\ [Next]_vars => QueueInv'  BY QueueInvStep
<1>. QED  BY <1>1, <1>2, QueueInit, PTL DEF Spec

(* The accepted count of transmit_batch is exact: Ok(n) means that the     *)
(* first n frames of the call, and no others, were handed over, TxFifoFull *)
(* that none was, whatever failed before.                                  *)
THEOREM BatchIsPrefix ==
  ASSUME CorruptShows, FramesFit
  PROVE  Spec => []BatchPrefix
<1>1. QueueInv => BatchPrefix
  <2>. SUFFICES ASSUME QueueInv PROVE BatchPrefix  OBVIOUS
  <2>1. \A f \in Fifo : Ids(History(f)) = Held(f)  BY HistoryIds DEF QueueInv
  <2>2. (UNION {Ids(History(f)) : f \in Fifo}) \cup gone = Handed
    <3>1. {Ids(History(f)) : f \in Fifo} = {Held(f) : f \in Fifo}  BY <2>1
    <3>. QED  BY <3>1 DEF Handed
  <2>. QED  BY <2>2 DEF QueueInv, BookInv, Mine, BatchPrefix
<1>2. QueueInv /\ [Next]_vars => QueueInv'  BY QueueInvStep
<1>. QED  BY <1>1, <1>2, QueueInit, PTL DEF Spec

-----------------------------------------------------------------------------
(* The refinement: every step is one of the abstract queue, or a stutter.  *)
LEMMA ChannelInit == Init => Channel!Init
<1>. SUFFICES ASSUME Init PROVE Channel!Init  OBVIOUS
<1>1. Len(calls) = 0  BY SMT DEF Init
<1>2. ASSUME NEW f \in Fifo PROVE Queue(f) = <<>>
  <2>1. 1 .. count[f] = {}  BY SMT DEF Init
  <2>. QED  BY <2>1, SMT DEF Queue
<1>3. [f \in Fifo |-> Queue(f)] = [f \in Fifo |-> <<>>]  BY <1>2
<1>. QED  BY <1>1, <1>3 DEF Channel!Init, Init

LEMMA ChannelOffer == ASSUME QueueInv, QueueInv', [Next]_vars, StatusOk PROVE Channel!Offer
<1>0. TypeInv  BY DEF QueueInv, ObjInv, SlotInv
<1>1. /\ pc = "status" /\ op.rest # <<>> /\ Len(calls') = Len(calls) + 1
      /\ UNCHANGED <<tail, count, wire>>
  BY <1>0, CallAdds
<1>2. Len(calls) < MaxCalls
  <2>1. Len(calls) + Len(op.rest) <= MaxCalls  BY <1>1 DEF QueueInv, OfferInv
  <2>2. op.rest \in Seq(Nat) /\ Len(calls) \in Nat /\ MaxCalls \in Nat  BY <1>0, SizeFacts
  <2>3. Len(op.rest) \in Nat /\ Len(op.rest) >= 1  BY <1>1, <2>2, SMT
  <2>. QED  BY <2>1, <2>2, <2>3, SMT
<1>3. \A f \in Fifo : Queue(f)' = Queue(f)  BY <1>1, QueueSame DEF QueueInv
<1>4. [f \in Fifo |-> Queue(f)]' = [f \in Fifo |-> Queue(f)]  BY <1>3
<1>. QED  BY <1>1, <1>2, <1>4 DEF Channel!Offer

(* The object handed over is the one offered last, and none that the chip  *)
(* holds or has sent.                                                      *)
LEMMA ChannelEnqueue ==
  ASSUME QueueInv, QueueInv', [Next]_vars, WriteUinc \/ UincLate, NEW f \in Fifo, f = op.fifo
  PROVE  Channel!Enqueue(f)
<1>0. TypeInv /\ ObjInv /\ ObjInv' /\ QueueShape
  BY ShapeHolds DEF QueueInv, ObjInv, SlotInv
<1>1. pc = "uinc" /\ HandOver(op.fifo) /\ UNCHANGED <<ram, tail, wire>>
  BY DEF WriteUinc, UincLate
<1>2. PICK n, w : n = Len(calls) /\ w = calls[This].words  OBVIOUS
<1>3. /\ n \in DOMAIN calls /\ calls[n].fifo = f
      /\ Queue(f)' = Append(Queue(f), Object(n, w))
      /\ \A g \in Fifo \ {f} : Queue(g)' = Queue(g)
  BY <1>0, <1>1, <1>2, QueuePush DEF This
<1>4. n \in Nat /\ n > 0 /\ w \in Sizes[f]
  <2>1. n \in 1 .. Len(calls)  BY <1>0, <1>3, SizeFacts
  <2>. QED  BY <1>2, <1>3, <2>1, SMT DEF QueueInv, OfferInv, This
<1>5. Len(calls') = n
  <2>1. CASE WriteUinc  BY <1>0, <1>1, <1>2, <2>1, FrameDone DEF WriteUinc
  <2>2. CASE UincLate  BY <1>2, <2>2 DEF UincLate
  <2>. QED  BY <2>1, <2>2
<1>6. Len(Queue(f)) < Depth[f]
  <2>1. NotFull(f)  BY <1>0, <1>1 DEF TypeInv, InHand
  <2>. QED  BY <1>0, <2>1 DEF NotFull, QueueShape
<1>7. n \notin Handed
  <2>1. /\ Len(calls) = op.first + op.acc + 1
        /\ After(op.first) = op.first + 1 .. op.first + op.acc
    BY <1>1 DEF QueueInv, BookInv
  <2>2. op.first \in Nat /\ op.acc \in Nat  BY <1>0, SizeFacts
  <2>3. n > op.first /\ n \notin op.first + 1 .. op.first + op.acc  BY <1>2, <2>1, <2>2, SMT
  <2>. QED  BY <2>1, <2>3 DEF After
<1>8. ASSUME NEW g \in Fifo, NEW k \in DOMAIN (wire[g] \o Queue(g)), NEW v \in Sizes[g]
      PROVE  (wire[g] \o Queue(g))[k] # Object(n, v)
  <2>1. (wire[g] \o Queue(g))[k][1][1] \in Ids(History(g))  BY DEF Ids, History
  <2>2. Ids(History(g)) = Held(g)  BY <1>0, HistoryIds
  <2>3. (wire[g] \o Queue(g))[k][1][1] # n  BY <1>7, <2>1, <2>2, HandedMember
  <2>4. v \in Nat  BY BoundsAssumption
  <2>5. Object(n, v)[1][1] = n  BY <1>4, <2>4, ObjectType
  <2>. QED  BY <2>3, <2>5
<1>9. [g \in Fifo |-> Queue(g)]' = [[g \in Fifo |-> Queue(g)] EXCEPT ![f] = Append(@, Object(n, w))]
  BY <1>3
<1>10. \E v \in Sizes[f] :
         [g \in Fifo |-> Queue(g)]' = [[g \in Fifo |-> Queue(g)] EXCEPT ![f] = Append(@, Object(Len(calls), v))]
  BY <1>2, <1>4, <1>9
<1>11. Len(calls)' = Len(calls)  BY <1>2, <1>5
<1>12. Len([g \in Fifo |-> Queue(g)][f]) < Depth[f]  BY <1>6
<1>13. \A g \in Fifo : \A k \in DOMAIN (wire[g] \o [h \in Fifo |-> Queue(h)][g]) :
         \A v \in Sizes[g] : (wire[g] \o [h \in Fifo |-> Queue(h)][g])[k] # Object(Len(calls), v)
  BY <1>2, <1>8
<1>. QED  BY <1>1, <1>2, <1>4, <1>10, <1>11, <1>12, <1>13 DEF Channel!Enqueue

LEMMA ChannelSend ==
  ASSUME QueueInv, QueueInv', [Next]_vars, NEW f \in Fifo, ChipSend(f)
  PROVE  Channel!Send(f)
<1>1. /\ Queue(f) # <<>>
      /\ wire' = [wire EXCEPT ![f] = Append(@, Head(Queue(f)))]
      /\ Queue(f)' = Tail(Queue(f))
      /\ \A g \in Fifo \ {f} : Queue(g)' = Queue(g)
  BY QueuePop DEF QueueInv
<1>2. [g \in Fifo |-> Queue(g)]' = [[g \in Fifo |-> Queue(g)] EXCEPT ![f] = Tail(@)]
  BY <1>1
<1>3. Len(calls)' = Len(calls)  BY DEF ChipSend
<1>. QED  BY <1>1, <1>2, <1>3 DEF Channel!Send

LEMMA ChannelDiscard ==
  ASSUME QueueInv, QueueInv', [Next]_vars, NEW f \in Fifo, ResetFifo(f)
  PROVE  Channel!Discard(f)
<1>1. Queue(f)' = <<>> /\ \A g \in Fifo \ {f} : Queue(g)' = Queue(g)
  BY QueueDrop DEF QueueInv
<1>2. [g \in Fifo |-> Queue(g)]' = [[g \in Fifo |-> Queue(g)] EXCEPT ![f] = <<>>]
  BY <1>1
<1>3. Len(calls)' = Len(calls) /\ wire' = wire  BY DEF ResetFifo
<1>. QED  BY <1>2, <1>3 DEF Channel!Discard

LEMMA ChannelStutter ==
  ASSUME QueueInv, QueueInv', [Next]_vars, UNCHANGED <<tail, count, calls, wire>>
  PROVE  UNCHANGED Channel!vars
<1>1. \A f \in Fifo : Queue(f)' = Queue(f)  BY QueueSame DEF QueueInv
<1>2. [f \in Fifo |-> Queue(f)]' = [f \in Fifo |-> Queue(f)]  BY <1>1
<1>. QED  BY <1>2 DEF Channel!vars

LEMMA ChannelStep ==
  ASSUME QueueInv, QueueInv', [Next]_vars
  PROVE  [Channel!Next]_(Channel!vars)
<1>1. CASE StatusOk  BY <1>1, ChannelOffer DEF Channel!Next
<1>2. CASE WriteUinc \/ UincLate
  <2>. PICK f \in Fifo : f = op.fifo  BY SizeFacts DEF QueueInv, ObjInv, SlotInv
  <2>. QED  BY <1>2, ChannelEnqueue DEF Channel!Next
<1>3. ASSUME NEW f \in Fifo, ChipSend(f) PROVE Channel!Next
  BY <1>3, ChannelSend DEF Channel!Next
<1>4. ASSUME NEW f \in Fifo, ResetFifo(f) PROVE Channel!Next
  BY <1>4, ChannelDiscard DEF Channel!Next
<1>5. CASE BatchDone \/ StatusFails \/ StatusFull \/ StatusRefused \/ WriteRam
           \/ WriteRamFails \/ UincLost \/ ChipMode
  BY <1>5, ChannelStutter
     DEF BatchDone, StatusFails, StatusFull, StatusRefused, WriteRam, WriteRamFails,
         UincLost, ChipMode, chipVars, history
<1>6. CASE \E f \in Fifo : \/ \E w \in Sizes[f] : Transmit(f, w)
                          \/ \E ws \in Batches(f) : TransmitBatch(f, ws)
  BY <1>6, ChannelStutter DEF Transmit, TransmitBatch, chipVars, history
<1>7. CASE UNCHANGED vars  BY <1>7, ChannelStutter DEF vars, chipVars, history
<1>. QED  BY <1>1, <1>2, <1>3, <1>4, <1>5, <1>6, <1>7 DEF Next, Application, Driver, Chip

(* The transmit path implements the abstract queue: each UINC that reaches *)
(* the chip enqueues the frame offered last, whole and once; no other step *)
(* of the driver, failed or not, changes what the chip holds.              *)
THEOREM ChannelIsImplemented ==
  ASSUME CorruptShows, FramesFit
  PROVE  Spec => ImplementsChannel
<1>1. QueueInv /\ [Next]_vars => QueueInv'  BY QueueInvStep
<1>2. QueueInv /\ QueueInv' /\ [Next]_vars => [Channel!Next]_(Channel!vars)  BY ChannelStep
<1>. QED  BY <1>1, <1>2, QueueInit, ChannelInit, PTL DEF Spec, ImplementsChannel, Channel!Spec

=============================================================================
