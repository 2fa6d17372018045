--------------------------- MODULE TestBenchProofs ---------------------------
(***************************************************************************)
(* No test program but soak.rs takes an earlier frame for the one it has   *)
(* just sent, whatever the bug, however many calls fail, and for every     *)
(* number of rounds whose script is sound (ScriptsAreSound).               *)
(***************************************************************************)
EXTENDS TestBench, SequenceTheorems, TLAPS

Kinds == {"classic", "fd", "remote", "stale"}
U == [id : IdType, data : [kind : Kinds, n : Nat], new : BOOLEAN]

(* A frame as a chip may hold it after it was read over another's data.    *)
Staled(x) == [x EXCEPT !.data.kind = "stale"]
Stales(F) == F \cup {Staled(x) : x \in F}
AgedOf(F) == {Marked(x, FALSE) : x \in F}

IsFifo(r) == \E q, d, o, t, u : r = [q |-> q, depth |-> d, over |-> o, tail |-> t, used |-> u]
FifoOk(r) == IsFifo(r) /\ r.q \in Seq(U)

RxOk(x) == DOMAIN x = 1 .. 6 /\ \A f \in 1 .. 6 : FifoOk(x[f])

IsChip(r) == DOMAIN r = {"mode", "tx", "room", "rx", "flt"}
ChipOk(r) == IsChip(r) /\ r.tx \in Seq(U) /\ r.room \in Nat /\ RxOk(r.rx)

TxOf(r)    == ToSet(r.tx)
RxOf(r, f) == ToSet(r.rx[f].q)

BenchType ==
  /\ prog \in Programs \ {"soak"} /\ pc \in Nat
  /\ DOMAIN chip = 1 .. Code[prog].chips
  /\ \A c \in DOMAIN chip : ChipOk(chip[c])

-----------------------------------------------------------------------------
(* Frames in sequences                                                      *)

(* What is in a sequence that grows, that shrinks, that is empty.          *)
LEMMA EmptySet == ToSet(<<>>) = {} /\ <<>> \in Seq(U)
  BY DEF ToSet

LEMMA FunctionSeq ==
  ASSUME NEW S, NEW n \in Nat, NEW f \in [1 .. n -> S]
  PROVE  f \in Seq(S)
  BY SeqDef, Zenon

LEMMA AppendSet ==
  ASSUME NEW q \in Seq(U), NEW x \in U
  PROVE  Append(q, x) \in Seq(U) /\ ToSet(Append(q, x)) = ToSet(q) \cup {x}
<1>1. Append(q, x) \in Seq(U) OBVIOUS
<1>2. DOMAIN q = 1 .. Len(q) /\ Len(q) \in Nat OBVIOUS
<1>3. DOMAIN Append(q, x) = 1 .. Len(q) + 1 OBVIOUS
<1>4. \A i \in 1 .. Len(q) : Append(q, x)[i] = q[i] OBVIOUS
<1>5. Append(q, x)[Len(q) + 1] = x OBVIOUS
<1>6. ToSet(Append(q, x)) \subseteq ToSet(q) \cup {x} BY <1>2, <1>3, <1>4, <1>5 DEF ToSet
<1>7. ToSet(q) \cup {x} \subseteq ToSet(Append(q, x)) BY <1>2, <1>3, <1>4, <1>5 DEF ToSet
<1> QED BY <1>1, <1>6, <1>7

LEMMA TailSet ==
  ASSUME NEW q \in Seq(U), q # <<>>
  PROVE  /\ Tail(q) \in Seq(U) /\ ToSet(Tail(q)) \subseteq ToSet(q)
         /\ Head(q) \in U /\ Head(q) \in ToSet(q)
  BY DEF ToSet

LEMMA MarkedType ==
  ASSUME NEW x \in U \cup FrameType, NEW b \in BOOLEAN
  PROVE  Marked(x, b) \in U /\ Marked(x, b).id = x.id /\ Marked(x, b).data = x.data /\ Marked(x, b).new = b
<1>1. x.id \in IdType /\ x.data \in [kind : Kinds, n : Nat]
  <2>1. CASE x \in U BY <2>1 DEF U
  <2>2. CASE x \in FrameType BY <2>2 DEF FrameType, Kinds
  <2> QED BY <2>1, <2>2
<1>2. PICK i, d : i = x.id /\ d = x.data OBVIOUS
<1>3. Marked(x, b) = [id |-> i, data |-> d, new |-> b] BY <1>2 DEF Marked
<1>4. i \in IdType /\ d \in [kind : Kinds, n : Nat] BY <1>1, <1>2
<1>5. [id |-> i, data |-> d, new |-> b] \in U BY <1>4 DEF U
<1> QED BY <1>2, <1>3, <1>5

LEMMA StaledType ==
  ASSUME NEW x \in U
  PROVE  Staled(x) \in U /\ Staled(x).id = x.id /\ Staled(x).new = x.new /\ Staled(x).data.kind = "stale"
<1>1. PICK i \in IdType, k \in Kinds, n \in Nat, b \in BOOLEAN :
        x = [id |-> i, data |-> [kind |-> k, n |-> n], new |-> b]
  BY DEF U
<1>2. Staled(x) = [id |-> i, data |-> [kind |-> "stale", n |-> n], new |-> b] BY <1>1 DEF Staled
<1>3. [kind |-> "stale", n |-> n] \in [kind : Kinds, n : Nat] BY DEF Kinds
<1>4. PICK y : y = [kind |-> "stale", n |-> n] OBVIOUS
<1>5. [id |-> i, data |-> y, new |-> b] \in U BY <1>3, <1>4 DEF U
<1>6. x.id = i /\ x.new = b BY <1>1
<1>7. y.kind = "stale" BY <1>4
<1> QED BY <1>2, <1>4, <1>5, <1>6, <1>7

LEMMA OldSet ==
  ASSUME NEW q \in Seq(U)
  PROVE  Old(q) \in Seq(U) /\ ToSet(Old(q)) = AgedOf(ToSet(q))
<1>1. DOMAIN q = 1 .. Len(q) /\ Len(q) \in Nat /\ \A i \in DOMAIN q : q[i] \in U OBVIOUS
<1>2. \A i \in DOMAIN q : Marked(q[i], FALSE) \in U BY <1>1, MarkedType
<1>3. Old(q) \in Seq(U)
  <2>1. PICK n \in Nat : n = Len(q) BY <1>1
  <2>2. [i \in 1 .. n |-> Marked(q[i], FALSE)] \in [1 .. n -> U] BY <1>1, <1>2, <2>1
  <2>3. [i \in 1 .. n |-> Marked(q[i], FALSE)] \in Seq(U) BY <2>2, FunctionSeq, Zenon
  <2> QED BY <1>1, <2>1, <2>3 DEF Old
<1>4. DOMAIN Old(q) = DOMAIN q /\ \A i \in DOMAIN q : Old(q)[i] = Marked(q[i], FALSE) BY DEF Old
<1> QED BY <1>3, <1>4 DEF ToSet, AgedOf

LEMMA QueuedSet ==
  ASSUME NEW q \in Seq(U), NEW g \in Seq(FrameType)
  PROVE  LET n == q \o [i \in DOMAIN g |-> Marked(g[i], TRUE)]
         IN  n \in Seq(U) /\ ToSet(n) \subseteq ToSet(q) \cup {Marked(x, TRUE) : x \in ToSet(g)}
<1> PICK h : h = [i \in DOMAIN g |-> Marked(g[i], TRUE)] OBVIOUS
<1>1. DOMAIN g = 1 .. Len(g) /\ Len(g) \in Nat /\ \A i \in DOMAIN g : g[i] \in FrameType OBVIOUS
<1>2. \A i \in DOMAIN g : Marked(g[i], TRUE) \in U BY <1>1, MarkedType
<1>3. h \in Seq(U)
  <2>1. PICK n \in Nat : n = Len(g) BY <1>1
  <2>2. [i \in 1 .. n |-> Marked(g[i], TRUE)] \in [1 .. n -> U] BY <1>1, <1>2, <2>1
  <2>3. [i \in 1 .. n |-> Marked(g[i], TRUE)] \in Seq(U) BY <2>2, FunctionSeq, Zenon
  <2> QED BY <1>1, <2>1, <2>3
<1>4. Len(h) = Len(g) /\ \A i \in 1 .. Len(g) : h[i] = Marked(g[i], TRUE) BY <1>1, <1>3
<1>5. q \o h \in Seq(U) BY <1>3
<1>6. DOMAIN (q \o h) = 1 .. Len(q) + Len(h) /\ Len(q) \in Nat BY <1>3
<1>7. ASSUME NEW i \in 1 .. Len(q) + Len(h)
      PROVE  (q \o h)[i] \in ToSet(q) \cup {Marked(x, TRUE) : x \in ToSet(g)}
  <2>1. CASE i <= Len(q)
    <3>1. (q \o h)[i] = q[i] /\ i \in DOMAIN q BY <1>3, <1>6, <2>1
    <3> QED BY <3>1 DEF ToSet
  <2>2. CASE i > Len(q)
    <3>1. (q \o h)[i] = IF i <= Len(q) THEN q[i] ELSE h[i - Len(q)]
      BY <1>3, ConcatProperties, Zenon
    <3>2. ~(i <= Len(q)) BY <1>6, <2>2
    <3>3. i - Len(q) \in 1 .. Len(g) BY <1>1, <1>4, <1>6, <2>2
    <3>4. g[i - Len(q)] \in ToSet(g) BY <1>1, <3>3 DEF ToSet
    <3>5. (q \o h)[i] = Marked(g[i - Len(q)], TRUE) BY <1>4, <3>1, <3>2, <3>3
    <3> QED BY <3>4, <3>5
  <2>3. i <= Len(q) \/ i > Len(q) BY <1>1, <1>4, <1>6
  <2> QED BY <2>1, <2>2, <2>3, Zenon
<1>8. ToSet(q \o h) \subseteq ToSet(q) \cup {Marked(x, TRUE) : x \in ToSet(g)} BY <1>6, <1>7 DEF ToSet
<1> QED BY <1>5, <1>8

-----------------------------------------------------------------------------
(* A FIFO, and what is stored in it and taken from it                       *)

LEMMA FifoRecord ==
  ASSUME NEW n, NEW q, NEW d, NEW o, NEW t, NEW u,
         n = [q |-> q, depth |-> d, over |-> o, tail |-> t, used |-> u]
  PROVE  IsFifo(n) /\ n.q = q
<1>1. IsFifo(n) BY Zenon DEF IsFifo
<1>2. n.q = q OBVIOUS
<1> QED BY <1>1, <1>2

LEMMA FifoDepth ==
  ASSUME NEW r, IsFifo(r), NEW d
  PROVE  IsFifo([r EXCEPT !.depth = d]) /\ [r EXCEPT !.depth = d].q = r.q
<1>1. PICK q, z, o, t, u : r = [q |-> q, depth |-> z, over |-> o, tail |-> t, used |-> u]
  BY DEF IsFifo
<1>2. [r EXCEPT !.depth = d] = [q |-> q, depth |-> d, over |-> o, tail |-> t, used |-> u] BY <1>1
<1>3. r.q = q BY <1>1
<1> QED BY <1>2, <1>3, FifoRecord, Zenon

LEMMA FifoEmpty ==
  ASSUME NEW d
  PROVE  FifoOk(Fifo(d)) /\ Fifo(d).q = <<>> /\ FifoOk(NoFifo) /\ NoFifo.q = <<>>
<1>1. IsFifo(NoFifo) /\ NoFifo.q = <<>>
  BY FifoRecord, Zenon DEF NoFifo
<1>2. IsFifo(Fifo(d)) /\ Fifo(d).q = <<>> BY <1>1, FifoDepth, Zenon DEF Fifo
<1> QED BY <1>1, <1>2, EmptySet DEF FifoOk

LEMMA FifoWith ==
  ASSUME NEW r, FifoOk(r), NEW p \in Seq(U), NEW n, n = [r EXCEPT !.q = p]
  PROVE  FifoOk(n) /\ n.q = p
<1>1. PICK q, d, o, t, u : r = [q |-> q, depth |-> d, over |-> o, tail |-> t, used |-> u]
  BY DEF FifoOk, IsFifo
<1>2. [r EXCEPT !.q = p] = [q |-> p, depth |-> d, over |-> o, tail |-> t, used |-> u] BY <1>1
<1>3. IsFifo(n) /\ n.q = p BY <1>2, FifoRecord, Zenon
<1> QED BY <1>3, Zenon DEF FifoOk

LEMMA FifoOver ==
  ASSUME NEW r, FifoOk(r), NEW b
  PROVE  FifoOk([r EXCEPT !.over = b]) /\ [r EXCEPT !.over = b].q = r.q
<1>1. PICK q, d, o, t, u : r = [q |-> q, depth |-> d, over |-> o, tail |-> t, used |-> u]
  BY DEF FifoOk, IsFifo
<1>2. [r EXCEPT !.over = b] = [q |-> q, depth |-> d, over |-> b, tail |-> t, used |-> u] BY <1>1
<1>3. IsFifo([r EXCEPT !.over = b]) /\ [r EXCEPT !.over = b].q = q BY <1>2, FifoRecord, Zenon
<1>4. r.q = q BY <1>1
<1> QED BY <1>3, <1>4, Zenon DEF FifoOk

(* A stored frame is the frame, or the frame read over stale data.         *)
LEMMA PutFrame ==
  ASSUME NEW r, FifoOk(r), NEW x \in U
  PROVE  FifoOk(Put(r, x)) /\ ToSet(Put(r, x).q) \subseteq ToSet(r.q) \cup {x, Staled(x)}
<1> PICK remote : remote = (x.data.kind = "remote") OBVIOUS
<1> PICK y : y = IF bug = "stale" /\ remote /\ r.tail \in r.used THEN Staled(x) ELSE x OBVIOUS
<1>1. y \in {x, Staled(x)} /\ y \in U BY StaledType
<1>2. r.q \in Seq(U) BY DEF FifoOk
<1>3. CASE r.depth = 0
  <2>1. Put(r, x) = r BY <1>3 DEF Put
  <2> QED BY <2>1
<1>4. CASE r.depth # 0 /\ Len(r.q) = r.depth
  <2>1. Put(r, x) = [r EXCEPT !.over = TRUE] BY <1>4 DEF Put
  <2> QED BY <2>1, FifoOver, Zenon
<1>5. CASE r.depth # 0 /\ Len(r.q) # r.depth /\ bug # "stale"
  <2>1. Put(r, x) = [r EXCEPT !.q = Append(r.q, x)] BY <1>5 DEF Put
  <2>2. Append(r.q, x) \in Seq(U) /\ ToSet(Append(r.q, x)) = ToSet(r.q) \cup {x} BY <1>2, AppendSet
  <2>3. FifoOk(Put(r, x)) /\ Put(r, x).q = Append(r.q, x) BY <2>1, <2>2, FifoWith, Zenon
  <2> QED BY <2>2, <2>3
<1>6. CASE r.depth # 0 /\ Len(r.q) # r.depth /\ bug = "stale"
  <2>1. PICK w, v : /\ w = (r.tail + 1) % r.depth
                    /\ v = IF remote THEN r.used ELSE r.used \cup {r.tail}
    OBVIOUS
  <2>2. Put(r, x) = [r EXCEPT !.q = Append(r.q, y), !.tail = w, !.used = v]
    BY <1>6, <2>1 DEF Put, Staled
  <2>3. PICK q, d, o, t, u : r = [q |-> q, depth |-> d, over |-> o, tail |-> t, used |-> u]
    BY DEF FifoOk, IsFifo
  <2>4. PICK a : a = Append(r.q, y) OBVIOUS
  <2>5. Put(r, x) = [q |-> a, depth |-> d, over |-> o, tail |-> w, used |-> v] BY <2>2, <2>3, <2>4
  <2>6. a \in Seq(U) /\ ToSet(a) = ToSet(r.q) \cup {y} BY <1>1, <1>2, <2>4, AppendSet
  <2>7. IsFifo(Put(r, x)) /\ Put(r, x).q = a BY <2>5, FifoRecord, Zenon
  <2> QED BY <1>1, <2>6, <2>7 DEF FifoOk
<1> QED BY <1>3, <1>4, <1>5, <1>6

LEMMA TakenFrame ==
  ASSUME NEW r, FifoOk(r), r.q # <<>>
  PROVE  FifoOk(Taken(r)) /\ ToSet(Taken(r).q) \subseteq ToSet(r.q)
<1>1. CASE bug = "repeat" BY <1>1 DEF Taken
<1>2. CASE bug # "repeat"
  <2>1. Tail(r.q) \in Seq(U) /\ ToSet(Tail(r.q)) \subseteq ToSet(r.q) BY TailSet DEF FifoOk
  <2>2. Taken(r) = [r EXCEPT !.q = Tail(r.q)] BY <1>2 DEF Taken
  <2>3. FifoOk(Taken(r)) /\ Taken(r).q = Tail(r.q) BY <2>1, <2>2, FifoWith, Zenon
  <2> QED BY <2>1, <2>3
<1> QED BY <1>1, <1>2

-----------------------------------------------------------------------------
(* A chip, and what a driver call makes of it                               *)

(* Nothing new has come into the chip.                                     *)
Loses(r, n) == /\ ChipOk(n) /\ TxOf(n) \subseteq TxOf(r)
               /\ \A f \in 1 .. 6 : RxOf(n, f) \subseteq RxOf(r, f)

LEMMA LosesTx ==
  ASSUME NEW r, ChipOk(r), NEW n, IsChip(n), n.room = r.room, n.rx = r.rx, n.tx \in {<<>>, r.tx}
  PROVE  Loses(r, n)
<1>1. ChipOk(n) BY EmptySet DEF ChipOk
<1>2. TxOf(n) \subseteq TxOf(r) BY EmptySet DEF TxOf
<1>3. \A f \in 1 .. 6 : RxOf(n, f) = RxOf(r, f) BY DEF RxOf
<1> QED BY <1>1, <1>2, <1>3 DEF Loses

LEMMA ModeChip ==
  ASSUME NEW r, ChipOk(r), NEW s, s.do = "mode"
  PROVE  Loses(r, Made(s, r))
<1> PICK y, z : y = (IF s.x = "Configuration" THEN <<>> ELSE r.tx) /\ z = s.x OBVIOUS
<1>1. Made(s, r) = [r EXCEPT !.mode = z, !.tx = y] BY DEF Made
<1>2. IsChip(r) BY DEF ChipOk
<1>3. y \in {<<>>, r.tx} OBVIOUS
<1> PICK n : n = Made(s, r) OBVIOUS
<1>4. n.tx = y /\ n.room = r.room /\ n.rx = r.rx /\ IsChip(n) BY <1>1, <1>2 DEF IsChip
<1> QED BY <1>3, <1>4, LosesTx

LEMMA FilterChip ==
  ASSUME NEW r, ChipOk(r), NEW s, s.do = "filter"
  PROVE  Loses(r, Made(s, r))
<1> PICK k, e : k = s.x.k /\ e = s.x.on OBVIOUS
<1>1. Made(s, r) = [r EXCEPT !.flt[k] = e] BY DEF Made
<1>2. IsChip(r) BY DEF ChipOk
<1> PICK n : n = Made(s, r) OBVIOUS
<1>4. n.tx = r.tx /\ n.room = r.room /\ n.rx = r.rx /\ IsChip(n) BY <1>1, <1>2 DEF IsChip
<1> QED BY <1>4, LosesTx

LEMMA BlankChip ==
  ChipOk(Blank) /\ TxOf(Blank) = {} /\ \A f \in 1 .. 6 : RxOf(Blank, f) = {}
<1> PICK x, l, b : x = [f \in 1 .. 6 |-> NoFifo] /\ l = [k \in 0 .. 5 |-> {}] /\ b = <<>> OBVIOUS
<1>1. RxOk(x) /\ \A f \in 1 .. 6 : x[f].q = <<>> BY FifoEmpty DEF RxOk
<1>2. Blank = [mode |-> "Configuration", tx |-> b, room |-> 0, rx |-> x, flt |-> l] BY DEF Blank
<1>3. IsChip(Blank) /\ Blank.tx = b /\ Blank.room = 0 /\ Blank.rx = x BY <1>2 DEF IsChip
<1> QED BY <1>1, <1>3, EmptySet DEF TxOf, RxOf, ChipOk

LEMMA InitChipLoses ==
  ASSUME NEW r, ChipOk(r), NEW s, s.do = "init"
  PROVE  Loses(r, Made(s, r))
<1>1. Made(s, r) = Initialised(r) BY DEF Made
<1>2. CASE r.mode = "Configuration"
  <2>1. Initialised(r) = Blank BY <1>2 DEF Initialised
  <2> QED BY <1>1, <2>1, BlankChip DEF Loses
<1>3. CASE r.mode # "Configuration"
  <2> PICK z, y : z = "Configuration" /\ y = <<>> OBVIOUS
  <2>1. Initialised(r) = [r EXCEPT !.mode = z, !.tx = y] BY <1>3 DEF Initialised
  <2>2. IsChip(r) BY DEF ChipOk
  <2> PICK n : n = Made(s, r) OBVIOUS
  <2>3. n.tx = y /\ n.room = r.room /\ n.rx = r.rx /\ IsChip(n) BY <1>1, <2>1, <2>2 DEF IsChip
  <2> QED BY <2>3, LosesTx
<1> QED BY <1>2, <1>3

(* A layout leaves nothing in the FIFOs that it names.                     *)
LEMMA LayoutChip ==
  ASSUME NEW r, ChipOk(r), NEW s, s.do = "layout", s.x \in [tx : Nat, rx : Seq(Nat)]
  PROVE  /\ Loses(r, Made(s, r)) /\ TxOf(Made(s, r)) = {}
         /\ \A f \in (1 .. 6) \cap DOMAIN s.x.rx : RxOf(Made(s, r), f) = {}
<1> PICK x, y, w, h :
      /\ x = r.rx /\ y = <<>> /\ w = s.x.tx
      /\ h = [f \in DOMAIN x |-> IF f \in DOMAIN s.x.rx THEN Fifo(s.x.rx[f]) ELSE x[f]]
  OBVIOUS
<1>2. Made(s, r) = [r EXCEPT !.tx = y, !.room = w, !.rx = h] BY DEF Made, LaidOut
<1>3. IsChip(r) /\ RxOk(x) BY DEF ChipOk
<1>4. y \in Seq(U) /\ ToSet(y) = {} /\ w \in Nat BY EmptySet
<1>5. DOMAIN h = 1 .. 6 /\ DOMAIN x = 1 .. 6 BY <1>3 DEF RxOk
<1>6. ASSUME NEW f \in 1 .. 6
      PROVE  /\ FifoOk(h[f]) /\ ToSet(h[f].q) \subseteq ToSet(x[f].q)
             /\ f \in DOMAIN s.x.rx => h[f].q = <<>>
  <2>1. CASE f \in DOMAIN s.x.rx
    <3>1. h[f] = Fifo(s.x.rx[f]) BY <1>5, <2>1
    <3>2. FifoOk(h[f]) /\ h[f].q = <<>> BY <3>1, FifoEmpty, Zenon
    <3> QED BY <3>2, EmptySet
  <2>2. CASE f \notin DOMAIN s.x.rx
    <3>1. h[f] = x[f] BY <1>5, <2>2
    <3> QED BY <1>3, <2>2, <3>1 DEF RxOk
  <2> QED BY <2>1, <2>2
<1>7. RxOk(h) BY <1>5, <1>6 DEF RxOk
<1>8. /\ IsChip(Made(s, r)) /\ Made(s, r).tx = y
      /\ Made(s, r).room = w /\ Made(s, r).rx = h
  BY <1>2, <1>3 DEF IsChip
<1>9. \A f \in 1 .. 6 : RxOf(Made(s, r), f) \subseteq RxOf(r, f) BY <1>6, <1>8 DEF RxOf
<1>10. \A f \in (1 .. 6) \cap DOMAIN s.x.rx : RxOf(Made(s, r), f) = {} BY <1>6, <1>8, EmptySet DEF RxOf
<1>11. TxOf(Made(s, r)) = {} BY <1>4, <1>8 DEF TxOf
<1>12. ChipOk(Made(s, r)) BY <1>4, <1>7, <1>8 DEF ChipOk
<1> QED BY <1>9, <1>10, <1>11, <1>12 DEF Loses

(* Frames that were sent before are not new in an aged chip.               *)
LEMMA AgedChip ==
  ASSUME NEW r, ChipOk(r)
  PROVE  /\ ChipOk(Aged(r)) /\ TxOf(Aged(r)) = AgedOf(TxOf(r))
         /\ \A f \in 1 .. 6 : RxOf(Aged(r), f) = AgedOf(RxOf(r, f))
<1> PICK x, y, h :
      /\ x = r.rx /\ y = Old(r.tx)
      /\ h = [f \in DOMAIN x |-> OldFifo(x[f])]
  OBVIOUS
<1>1. Aged(r) = [r EXCEPT !.tx = y, !.rx = h] BY DEF Aged
<1>2. IsChip(r) /\ RxOk(x) /\ r.tx \in Seq(U) /\ r.room \in Nat BY DEF ChipOk
<1>3. y \in Seq(U) /\ ToSet(y) = AgedOf(ToSet(r.tx)) BY <1>2, OldSet
<1>4. DOMAIN h = 1 .. 6 /\ DOMAIN x = 1 .. 6 BY <1>2 DEF RxOk
<1>5. ASSUME NEW f \in 1 .. 6
      PROVE  FifoOk(h[f]) /\ ToSet(h[f].q) = AgedOf(ToSet(x[f].q))
  <2> PICK u, p, n : u = x[f] /\ p = Old(u.q) /\ n = h[f] OBVIOUS
  <2>1. n = [u EXCEPT !.q = p] BY <1>4 DEF OldFifo
  <2>2. FifoOk(u) BY <1>2 DEF RxOk
  <2>3. p \in Seq(U) /\ ToSet(p) = AgedOf(ToSet(u.q)) BY <2>2, OldSet DEF FifoOk
  <2>4. FifoOk(n) /\ n.q = p BY <2>1, <2>2, <2>3, FifoWith
  <2> QED BY <2>3, <2>4
<1>6. IsChip(Aged(r)) /\ Aged(r).tx = y /\ Aged(r).room = r.room /\ Aged(r).rx = h
  BY <1>1, <1>2 DEF IsChip
<1>7. RxOk(h) BY <1>4, <1>5 DEF RxOk
<1> QED BY <1>2, <1>3, <1>5, <1>6, <1>7 DEF ChipOk, TxOf, RxOf

LEMMA QueuedChip ==
  ASSUME NEW r, ChipOk(r), NEW g \in Seq(FrameType)
  PROVE  /\ ChipOk(Queued(r, g)) /\ Queued(r, g).rx = r.rx
         /\ TxOf(Queued(r, g)) \subseteq TxOf(r) \cup {Marked(x, TRUE) : x \in ToSet(g)}
<1> PICK y : y = r.tx \o [i \in DOMAIN g |-> Marked(g[i], TRUE)] OBVIOUS
<1>1. Queued(r, g) = [r EXCEPT !.tx = y] BY DEF Queued
<1>2. IsChip(r) /\ RxOk(r.rx) /\ r.tx \in Seq(U) /\ r.room \in Nat BY DEF ChipOk
<1>3. y \in Seq(U) /\ ToSet(y) \subseteq ToSet(r.tx) \cup {Marked(x, TRUE) : x \in ToSet(g)}
  BY <1>2, QueuedSet
<1>4. IsChip(Queued(r, g)) /\ Queued(r, g).tx = y /\ Queued(r, g).room = r.room /\ Queued(r, g).rx = r.rx
  BY <1>1, <1>2 DEF IsChip
<1> QED BY <1>2, <1>3, <1>4 DEF ChipOk, TxOf

LEMMA SendChip ==
  ASSUME NEW r, ChipOk(r), NEW s, s.do = "send", s.x \in FrameType
  PROVE  /\ ChipOk(Made(s, r)) /\ Made(s, r).rx = r.rx
         /\ TxOf(Made(s, r)) \subseteq TxOf(r) \cup {Marked(s.x, TRUE)}
<1> PICK x, g : x = s.x /\ g = <<x>> OBVIOUS
<1>1. Made(s, r) = Queued(r, g) BY DEF Made, Own
<1>2. g \in Seq(FrameType) /\ ToSet(g) = {x} BY DEF ToSet
<1>3. /\ ChipOk(Queued(r, g)) /\ Queued(r, g).rx = r.rx
      /\ TxOf(Queued(r, g)) \subseteq TxOf(r) \cup {Marked(y, TRUE) : y \in ToSet(g)}
  BY <1>2, QueuedChip, Zenon
<1>4. {Marked(y, TRUE) : y \in ToSet(g)} = {Marked(x, TRUE)} BY <1>2
<1> QED BY <1>1, <1>3, <1>4, Zenon

LEMMA BatchChip ==
  ASSUME NEW r, ChipOk(r), NEW s, s.do = "batch", s.x \in Seq(FrameType)
  PROVE  ChipOk(Made(s, r)) /\ Made(s, r).rx = r.rx
<1> PICK x, a, b, n, g : /\ x = s.x /\ a = Len(x) /\ b = r.room - Len(r.tx)
                         /\ n = Min({a, b}) /\ g = SubSeq(x, 1, n)
  OBVIOUS
<1>1. Made(s, r) = Queued(r, g) BY DEF Made, Accepted
<1>2. a \in Nat /\ b \in Int BY DEF ChipOk
<1>3. n \in Int /\ n <= a BY <1>2 DEF Min
<1>4. \A i \in 1 .. n : x[i] \in FrameType BY <1>2, <1>3
<1>5. SubSeq(x, 1, n) \in Seq(FrameType)
  <2>1. 1 \in Int OBVIOUS
  <2> QED BY <1>3, <1>4, <2>1, SubSeqProperties, Zenon
<1>6. ChipOk(Queued(r, g)) /\ Queued(r, g).rx = r.rx
  <2>1. g \in Seq(FrameType) BY <1>5
  <2> QED BY <2>1, QueuedChip, Zenon
<1> QED BY <1>1, <1>6, Zenon

LEMMA TakenChip ==
  ASSUME NEW r, ChipOk(r), NEW f \in 1 .. 6, r.rx[f].q # <<>>,
         NEW n, n = [r EXCEPT !.rx[f] = Taken(r.rx[f])]
  PROVE  Loses(r, n)
<1> PICK x, z, h : x = r.rx /\ z = Taken(x[f]) /\ h = [x EXCEPT ![f] = z] OBVIOUS
<1>1. n = [r EXCEPT !.rx = h] OBVIOUS
<1>2. IsChip(r) /\ RxOk(x) /\ r.tx \in Seq(U) /\ r.room \in Nat BY DEF ChipOk
<1>3. FifoOk(z) /\ ToSet(z.q) \subseteq ToSet(x[f].q) BY <1>2, TakenFrame DEF RxOk
<1>4. DOMAIN h = 1 .. 6 /\ \A g \in 1 .. 6 : h[g] = IF g = f THEN z ELSE x[g] BY <1>2 DEF RxOk
<1>5. \A g \in 1 .. 6 : FifoOk(h[g]) /\ ToSet(h[g].q) \subseteq ToSet(x[g].q) BY <1>2, <1>3, <1>4 DEF RxOk
<1>6. IsChip(n) /\ n.tx = r.tx /\ n.room = r.room /\ n.rx = h BY <1>1, <1>2 DEF IsChip
<1>7. RxOk(h) BY <1>4, <1>5 DEF RxOk
<1> QED BY <1>2, <1>5, <1>6, <1>7 DEF ChipOk, Loses, TxOf, RxOf

LEMMA DrainedChip ==
  ASSUME NEW r, ChipOk(r), NEW f \in 1 .. 6, NEW n, n = [r EXCEPT !.rx[f].q = <<>>]
  PROVE  Loses(r, n)
<1> PICK x, u, e, z, h : /\ x = r.rx /\ u = x[f] /\ e = <<>>
                         /\ z = [u EXCEPT !.q = e] /\ h = [x EXCEPT ![f] = z]
  OBVIOUS
<1>1. n = [r EXCEPT !.rx = h] OBVIOUS
<1>2. IsChip(r) /\ RxOk(x) /\ r.tx \in Seq(U) /\ r.room \in Nat BY DEF ChipOk
<1>3. FifoOk(z) /\ z.q = e
  <2>1. FifoOk(u) /\ e \in Seq(U) BY <1>2 DEF RxOk
  <2> QED BY <2>1, FifoWith
<1>4. DOMAIN h = 1 .. 6 /\ \A g \in 1 .. 6 : h[g] = IF g = f THEN z ELSE x[g] BY <1>2 DEF RxOk
<1>5. \A g \in 1 .. 6 : FifoOk(h[g]) /\ ToSet(h[g].q) \subseteq ToSet(x[g].q)
  BY <1>2, <1>3, <1>4, EmptySet DEF RxOk
<1>6. IsChip(n) /\ n.tx = r.tx /\ n.room = r.room /\ n.rx = h BY <1>1, <1>2 DEF IsChip
<1>7. RxOk(h) BY <1>4, <1>5 DEF RxOk
<1> QED BY <1>2, <1>5, <1>6, <1>7 DEF ChipOk, Loses, TxOf, RxOf

(* Frame x, and nothing else, may have come into the receive FIFOs.        *)
Comes(x, r, n) == /\ ChipOk(n) /\ TxOf(n) \subseteq TxOf(r)
                  /\ \A f \in 1 .. 6 : RxOf(n, f) \subseteq RxOf(r, f) \cup {x, Staled(x)}

LEMMA HearingChip ==
  ASSUME NEW r, ChipOk(r), NEW x \in U, NEW to
  PROVE  Comes(x, r, Hears(r, to, x))
<1> PICK n : n = Hears(r, to, x) OBVIOUS
<1> PICK y, h : y = r.rx /\ h = [f \in DOMAIN y |-> IF f \in to THEN Put(y[f], x) ELSE y[f]] OBVIOUS
<1>1. n = [r EXCEPT !.rx = h] BY DEF Hears
<1>2. IsChip(r) /\ RxOk(y) /\ r.room \in Nat /\ r.tx \in Seq(U) BY DEF ChipOk
<1>3. DOMAIN y = 1 .. 6 /\ DOMAIN h = 1 .. 6 BY <1>2 DEF RxOk
<1>4. ASSUME NEW f \in 1 .. 6
      PROVE  FifoOk(h[f]) /\ ToSet(h[f].q) \subseteq ToSet(y[f].q) \cup {x, Staled(x)}
  <2>1. FifoOk(y[f]) BY <1>2 DEF RxOk
  <2>2. CASE f \in to
    <3>1. h[f] = Put(y[f], x) BY <1>3, <2>2
    <3> QED BY <2>1, <3>1, PutFrame
  <2>3. CASE f \notin to
    <3>1. h[f] = y[f] BY <1>3, <2>3
    <3> QED BY <2>1, <3>1
  <2> QED BY <2>2, <2>3
<1>5. RxOk(h) BY <1>3, <1>4 DEF RxOk
<1>6. IsChip(n) /\ n.tx = r.tx /\ n.room = r.room /\ n.rx = h BY <1>1, <1>2 DEF IsChip
<1>7. ChipOk(n) BY <1>2, <1>5, <1>6 DEF ChipOk
<1>8. TxOf(n) \subseteq TxOf(r) BY <1>6 DEF TxOf
<1>9. \A f \in 1 .. 6 : RxOf(n, f) \subseteq RxOf(r, f) \cup {x, Staled(x)} BY <1>4, <1>6 DEF RxOf
<1> QED BY <1>7, <1>8, <1>9 DEF Comes

-----------------------------------------------------------------------------
(* What a step of a program does to the chips and to the program counter    *)

(* The script of the program that runs is sound.                           *)
LEMMA Script ==
  ASSUME BenchType
  PROVE  /\ Len(Steps) \in Nat /\ DOMAIN Steps = 1 .. Len(Steps) /\ First \in Nat
         /\ WellFormed(Steps, Code[prog].chips) /\ Clean(Steps, First, Code[prog].chips)
<1>1. prog \in Programs \ {"soak"} BY DEF BenchType
<1>2. Sound(Code[prog]) BY <1>1, ScriptsAreSound
<1> QED BY <1>2 DEF Sound, Steps, First

Dos == {"mode", "init", "filter", "layout", "send", "batch", "settle", "recv", "drain",
        "collect", "expect", "stop"}

LEMMA StepType ==
  ASSUME BenchType, ~Over
  PROVE  /\ pc \in DOMAIN Steps /\ pc \in Nat /\ Step.do \in Dos /\ Step.c \in DOMAIN chip
         /\ Step.err.skip \in Nat
         /\ Step.do = "send" => Step.x \in FrameType
         /\ Step.do = "batch" => Step.x \in Seq(FrameType)
         /\ Step.do = "layout" => Step.x \in [tx : Nat, rx : Seq(Nat)]
         /\ Step.do = "recv" => Step.x.f \in 1 .. 6
         /\ Step.do = "drain" => Step.x \in 1 .. 6
<1>1. pc \in DOMAIN Steps BY DEF Over
<1>2. WellFormed(Steps, Code[prog].chips) BY Script
<1>3. pc \in Nat /\ DOMAIN chip = 1 .. Code[prog].chips BY DEF BenchType
<1>4. Step.do \in Dos /\ Step.c \in DOMAIN chip BY <1>1, <1>2, <1>3 DEF WellFormed, Step, Configures, Dos
<1>5. Step.err \in [fail : BOOLEAN, skip : Nat] BY <1>1, <1>2 DEF WellFormed, Step
<1>6. Step.err.skip \in Nat BY <1>5
<1>7. /\ Step.do = "send" => Step.x \in FrameType
      /\ Step.do = "batch" => Step.x \in Seq(FrameType)
      /\ Step.do = "layout" => Step.x \in [tx : Nat, rx : Seq(Nat)]
      /\ Step.do = "recv" => Step.x.f \in 1 .. 6
      /\ Step.do = "drain" => Step.x \in 1 .. 6
  BY <1>1, <1>2, Zenon DEF WellFormed, Step
<1> QED BY <1>1, <1>3, <1>4, <1>6, <1>7

SameChips == DOMAIN chip' = DOMAIN chip

(* Nothing new in any chip; a frame on its way came in; a frame was sent.  *)
Lost  == SameChips /\ \A c \in DOMAIN chip : Loses(chip[c], chip'[c])
Heard == SameChips /\ \E d \in DOMAIN chip : \E x \in TxOf(chip[d]) :
           \A c \in DOMAIN chip : Comes(x, chip[c], chip'[c])
Announced == SameChips /\ \A c \in DOMAIN chip :
  /\ ChipOk(chip'[c])
  /\ \A f \in 1 .. 6 : RxOf(chip'[c], f) = AgedOf(RxOf(chip[c], f))
  /\ Step.do = "send" => TxOf(chip'[c]) \subseteq AgedOf(TxOf(chip[c])) \cup {Marked(Step.x, TRUE)}

Flushed == /\ TxOf(chip'[Step.c]) = {}
           /\ \A f \in (1 .. 6) \cap DOMAIN Step.x.rx : RxOf(chip'[Step.c], f) = {}

(* Where the program goes on.                                              *)
Moves ==
  \/ pc' = pc \/ pc' = 0 \/ pc' > Len(Steps)
  \/ pc \notin DOMAIN Steps /\ pc' \in {1, First + 1}
  \/ pc \in DOMAIN Steps /\ pc' = pc + 1 /\ (Step.do \in {"send", "layout"} => Succeeds)
  \/ pc \in DOMAIN Steps /\ Step.err.skip # 0 /\ pc' = pc + Step.err.skip

Outcome ==
  /\ prog' = prog /\ pc' \in Nat /\ Moves
  /\ \/ Heard /\ UNCHANGED <<pc, sent>>
     \/ Lost /\ UNCHANGED sent
     \/ /\ ~Over /\ Step.do \in Sends /\ Announced /\ pc' # pc
        /\ Step.do = "send" => sent' = Step.x

LEMMA LosesNothing ==
  ASSUME NEW r, ChipOk(r) PROVE Loses(r, r)
  BY DEF Loses

LEMMA Unchanged ==
  ASSUME BenchType, UNCHANGED chip PROVE Lost
  BY LosesNothing DEF Lost, SameChips, BenchType

(* A step that only changes one chip.                                      *)
LEMMA OneChip ==
  ASSUME BenchType, NEW d \in DOMAIN chip, NEW n, Loses(chip[d], n), chip' = [chip EXCEPT ![d] = n]
  PROVE  Lost
  BY LosesNothing DEF Lost, SameChips, BenchType

LEMMA FollowOn ==
  ASSUME BenchType, ~Over, NEW p, p.skip = 1, Follow(p), Step.do \in {"send", "layout"} => Succeeds
  PROVE  pc' \in Nat /\ Moves /\ pc' # pc
<1>1. pc' = pc + 1 /\ pc \in Nat /\ pc \in DOMAIN Steps BY StepType DEF Follow
<1> QED BY <1>1 DEF Moves

LEMMA FollowErr ==
  ASSUME BenchType, ~Over, Follow(Step.err)
  PROVE  pc' \in Nat /\ Moves /\ pc' # pc
<1>1. pc' = IF Step.err.skip = 0 THEN 0 ELSE pc + Step.err.skip BY DEF Follow
<1>2. pc \in Nat /\ pc \in DOMAIN Steps /\ Step.err.skip \in Nat /\ pc # 0 BY StepType, Script
<1> QED BY <1>1, <1>2 DEF Moves

LEMMA Policies == Ignore.skip = 1 /\ Fail(1).skip = 1
  BY DEF Ignore, Fail

LEMMA DeliverOutcome ==
  ASSUME BenchType, NEW e \in Chips, Deliver(e)
  PROVE  Outcome
<1> PICK x : x = Head(chip[e].tx) OBVIOUS
<1>1. ChipOk(chip[e]) /\ chip[e].tx \in Seq(U) BY DEF BenchType, Chips, ChipOk
<1>2. chip[e].tx # <<>> BY DEF Deliver, CanDeliver
<1>3. /\ Tail(chip[e].tx) \in Seq(U) /\ ToSet(Tail(chip[e].tx)) \subseteq ToSet(chip[e].tx)
      /\ x \in U /\ x \in TxOf(chip[e])
  BY <1>1, <1>2, TailSet DEF TxOf
<1>4. chip' = [d \in Chips |->
         LET gone == IF d = e THEN [chip[d] EXCEPT !.tx = Tail(@)] ELSE chip[d]
             to   == IF d \in Hearers(e) THEN Targets(d, x.id) ELSE {}
         IN  Hears(gone, to, x)]
  BY DEF Deliver
<1>5. SameChips BY <1>4 DEF SameChips, Chips
<1>6. ASSUME NEW d \in DOMAIN chip
      PROVE  Comes(x, chip[d], chip'[d])
  <2> PICK r, n, to, p :
        /\ r = chip[d] /\ n = chip'[d]
        /\ to = IF d \in Hearers(e) THEN Targets(d, x.id) ELSE {}
        /\ p = IF d = e THEN Tail(r.tx) ELSE r.tx
    OBVIOUS
  <2>1. ChipOk(r) /\ IsChip(r) /\ r.tx \in Seq(U) BY DEF BenchType, ChipOk
  <2>2. p \in Seq(U) /\ ToSet(p) \subseteq ToSet(r.tx) BY <1>3, <2>1
  <2> PICK gone : gone = IF d = e THEN [r EXCEPT !.tx = p] ELSE r OBVIOUS
  <2>3. n = Hears(gone, to, x) BY <1>4 DEF Chips
  <2>4. Loses(r, gone) /\ gone.rx = r.rx
    <3>1. CASE d = e
      <4>1. gone = [r EXCEPT !.tx = p] BY <3>1
      <4>2. IsChip(gone) /\ gone.tx = p /\ gone.room = r.room /\ gone.rx = r.rx
        BY <2>1, <4>1 DEF IsChip
      <4>3. ChipOk(gone) BY <2>1, <2>2, <4>2 DEF ChipOk
      <4> QED BY <2>2, <4>2, <4>3 DEF Loses, TxOf, RxOf
    <3>2. CASE d # e BY <2>1, <3>2, LosesNothing
    <3> QED BY <3>1, <3>2
  <2>5. ChipOk(gone) BY <2>4 DEF Loses
  <2>6. Comes(x, gone, n) BY <1>3, <2>3, <2>5, HearingChip
  <2> QED BY <2>4, <2>6 DEF Loses, Comes
<1>7. Heard BY <1>3, <1>5, <1>6 DEF Heard, Chips
<1>8. prog' = prog /\ UNCHANGED <<pc, sent>> /\ pc \in Nat BY DEF Deliver, BenchType
<1> QED BY <1>7, <1>8 DEF Outcome, Moves

LEMMA CallOther ==
  ASSUME BenchType, ~Over, Step.do \in (Configures \cup {"layout"}), chip' \in {Before(Step), After(Step)}
  PROVE  Lost /\ (Step.do = "layout" /\ chip' = After(Step) => Flushed)
<1> PICK s, d : s = Step /\ d = s.c OBVIOUS
<1>1. s.do \in Dos /\ d \in DOMAIN chip /\ (s.do = "layout" => s.x \in [tx : Nat, rx : Seq(Nat)])
  BY StepType
<1>2. s.do \in {"mode", "init", "filter", "layout"} BY <1>1 DEF Dos, Configures
<1>3. Before(s) = chip BY <1>2 DEF Before, Sends
<1>4. ChipOk(chip[d]) BY <1>1 DEF BenchType
<1>5. Loses(chip[d], Made(s, chip[d]))
  <2>1. CASE s.do = "mode" BY <1>4, <2>1, ModeChip
  <2>2. CASE s.do = "init" BY <1>4, <2>2, InitChipLoses
  <2>3. CASE s.do = "filter" BY <1>4, <2>3, FilterChip
  <2>4. CASE s.do = "layout" BY <1>1, <1>4, <2>4, LayoutChip
  <2> QED BY <1>2, <2>1, <2>2, <2>3, <2>4
<1>6. CASE chip' = chip
  <2>1. Lost BY <1>6, Unchanged
  <2>2. ASSUME s.do = "layout", chip' = After(s) PROVE Flushed
    <3>1. chip' = [chip EXCEPT ![d] = Made(s, chip[d])] BY <1>3, <2>2 DEF After
    <3>2. chip'[d] = Made(s, chip[d]) BY <1>1, <3>1
    <3> QED BY <1>1, <1>4, <2>2, <3>2, LayoutChip DEF Flushed
  <2> QED BY <2>1, <2>2
<1>7. CASE chip' = After(s)
  <2>1. chip' = [chip EXCEPT ![d] = Made(s, chip[d])] BY <1>3, <1>7 DEF After
  <2>2. Lost BY <1>1, <1>5, <2>1, OneChip
  <2>3. chip'[d] = Made(s, chip[d]) BY <1>1, <2>1
  <2>4. s.do = "layout" => Flushed BY <1>1, <1>4, <2>3, LayoutChip DEF Flushed
  <2> QED BY <2>2, <2>4
<1> QED BY <1>3, <1>6, <1>7

LEMMA CallSend ==
  ASSUME BenchType, ~Over, Step.do \in Sends, chip' \in {Before(Step), After(Step)}
  PROVE  Announced
<1> PICK s, d : s = Step /\ d = s.c OBVIOUS
<1>1. /\ s.do \in Dos /\ d \in DOMAIN chip /\ (s.do = "send" => s.x \in FrameType)
      /\ s.do = "batch" => s.x \in Seq(FrameType)
  BY StepType
<1>2. s.do \in {"send", "batch"} BY <1>1 DEF Dos, Sends
<1>3. Before(s) = [c \in DOMAIN chip |-> Aged(chip[c])] BY <1>2 DEF Before, Sends, Chips
<1>4. \A c \in DOMAIN chip :
        /\ ChipOk(Aged(chip[c])) /\ TxOf(Aged(chip[c])) = AgedOf(TxOf(chip[c]))
        /\ \A f \in 1 .. 6 : RxOf(Aged(chip[c]), f) = AgedOf(RxOf(chip[c], f))
  BY AgedChip DEF BenchType
<1>5. CASE chip' = Before(s) BY <1>3, <1>4, <1>5 DEF Announced, SameChips
<1>6. CASE chip' = After(s)
  <2> PICK r : r = Aged(chip[d]) OBVIOUS
  <2>1. chip' = [[c \in DOMAIN chip |-> Aged(chip[c])] EXCEPT ![d] = Made(s, @)] BY <1>3, <1>6 DEF After
  <2>2. /\ DOMAIN chip' = DOMAIN chip /\ chip'[d] = Made(s, r)
        /\ \A c \in DOMAIN chip \ {d} : chip'[c] = Aged(chip[c])
    BY <1>1, <2>1
  <2>3. ChipOk(r) BY <1>1, <1>4
  <2>4. ChipOk(Made(s, r)) /\ Made(s, r).rx = r.rx
    BY <1>1, <1>2, <2>3, SendChip, BatchChip
  <2>5. s.do = "send" => TxOf(Made(s, r)) \subseteq TxOf(r) \cup {Marked(s.x, TRUE)}
    BY <1>1, <2>3, SendChip
  <2>6. \A f \in 1 .. 6 : RxOf(chip'[d], f) = RxOf(r, f) BY <2>2, <2>4 DEF RxOf
  <2> QED BY <1>1, <1>4, <2>2, <2>4, <2>5, <2>6 DEF Announced, SameChips
<1> QED BY <1>5, <1>6

LEMMA SucceedsOutcome ==
  ASSUME BenchType, Succeeds
  PROVE  Outcome /\ (Step.do = "layout" => Flushed) /\ (Step.do = "send" => sent' = Step.x)
<1>1. /\ ~Over /\ Step.do \in Configures \cup Sends \cup {"layout"}
      /\ chip' = After(Step) /\ Follow(Ignore) /\ Sent /\ prog' = prog
  BY DEF Succeeds, At, Keeps
<1>2. pc' \in Nat /\ Moves /\ pc' # pc BY <1>1, FollowOn, Policies
<1>3. Step.do = "send" => sent' = Step.x BY <1>1 DEF Sent, Sends, Own
<1>4. CASE Step.do \in Sends
  <2>1. Announced BY <1>1, <1>4, CallSend
  <2>2. Step.do # "layout" BY <1>4 DEF Sends
  <2> QED BY <1>1, <1>2, <1>3, <1>4, <2>1, <2>2 DEF Outcome
<1>5. CASE Step.do \notin Sends
  <2>1. Lost /\ (Step.do = "layout" => Flushed) BY <1>1, <1>5, CallOther
  <2>2. sent' = sent BY <1>1, <1>5 DEF Sent
  <2> QED BY <1>1, <1>2, <1>3, <2>1, <2>2 DEF Outcome
<1> QED BY <1>4, <1>5

LEMMA FailsOutcome ==
  ASSUME BenchType, Fails
  PROVE  Outcome
<1>1. /\ ~Over /\ Step.do \in Configures \cup Sends \cup {"layout", "status"}
      /\ chip' \in {Before(Step), After(Step)} /\ Follow(Step.err) /\ Sent /\ prog' = prog
  BY DEF Fails, At, Keeps
<1>2. Step.do # "status" BY <1>1, StepType DEF Dos
<1>3. pc' \in Nat /\ Moves /\ pc' # pc BY <1>1, FollowErr
<1>4. CASE Step.do \in Sends
  <2>1. Announced BY <1>1, <1>4, CallSend
  <2>2. Step.do = "send" => sent' = Step.x BY <1>1 DEF Sent, Sends, Own
  <2> QED BY <1>1, <1>3, <1>4, <2>1, <2>2 DEF Outcome
<1>5. CASE Step.do \notin Sends
  <2>1. Lost BY <1>1, <1>2, <1>5, CallOther
  <2>2. sent' = sent BY <1>1, <1>5 DEF Sent
  <2> QED BY <1>1, <1>3, <2>1, <2>2 DEF Outcome
<1> QED BY <1>4, <1>5

LEMMA IsRefusedOutcome ==
  ASSUME BenchType, IsRefused
  PROVE  Outcome
<1>1. ~Over /\ Step.do \in Sends \cup {"layout"} /\ UNCHANGED <<prog, chip, sent>>
  BY DEF IsRefused, At, Keeps
<1>2. Step.do \in Dos BY <1>1, StepType
<1>3. Follow(Step.err) BY <1>2 DEF IsRefused, Dos
<1>4. pc' \in Nat /\ Moves BY <1>1, <1>3, FollowErr
<1> QED BY <1>1, <1>4, Unchanged DEF Outcome

(* The steps that only wait, read or compare.                              *)
LEMMA IdleOutcome ==
  ASSUME BenchType, Status \/ Waits \/ TimesOut \/ CollectTimesOut \/ Expects
  PROVE  Outcome
<1>1. /\ ~Over /\ UNCHANGED <<prog, chip, sent>>
      /\ Step.do \in {"status", "settle", "recv", "collect", "expect"}
  BY DEF Status, Waits, TimesOut, CollectTimesOut, Expects, At, Keeps
<1>2. Step.do # "status" BY <1>1, StepType DEF Dos
<1>3. Follow(Ignore) \/ Follow(Fail(1)) \/ Follow(Step.err)
  <2>1. CASE Status BY <1>2, <2>1 DEF Status, At
  <2>2. CASE Waits BY <2>2 DEF Waits
  <2>3. CASE TimesOut BY <2>3 DEF TimesOut
  <2>4. CASE CollectTimesOut BY <2>4 DEF CollectTimesOut
  <2>5. CASE Expects BY <2>5 DEF Expects
  <2> QED BY <2>1, <2>2, <2>3, <2>4, <2>5
<1>4. pc' \in Nat /\ Moves BY <1>1, <1>3, FollowOn, FollowErr, Policies
<1> QED BY <1>1, <1>4, Unchanged DEF Outcome

LEMMA TakeLoses ==
  ASSUME BenchType, ~Over, NEW f \in 1 .. 6, Queue(f) # <<>>, Take(f)
  PROVE  Lost
<1> PICK d, r : d = Step.c /\ r = chip[d] OBVIOUS
<1>1. d \in DOMAIN chip BY StepType
<1>2. ChipOk(r) /\ r.rx[f].q # <<>> BY <1>1 DEF BenchType, Queue
<1> PICK n : n = [r EXCEPT !.rx[f] = Taken(r.rx[f])] OBVIOUS
<1>3. chip' = [chip EXCEPT ![d] = n] BY DEF Take
<1>4. Loses(r, n) BY <1>2, TakenChip
<1> QED BY <1>1, <1>3, <1>4, OneChip

LEMMA ReceivedOutcome ==
  ASSUME BenchType, Received
  PROVE  Outcome
<1>1. /\ ~Over /\ Step.do = "recv" /\ UNCHANGED <<prog, sent>>
      /\ Queue(Step.x.f) # <<>> /\ Take(Step.x.f)
  BY DEF Received, At
<1>2. Step.x.f \in 1 .. 6 BY <1>1, StepType
<1>3. Follow(Ignore) \/ Follow(Fail(1)) BY DEF Received
<1>4. pc' \in Nat /\ Moves BY <1>1, <1>3, FollowOn, Policies
<1>5. Lost BY <1>1, <1>2, TakeLoses
<1> QED BY <1>1, <1>4, <1>5 DEF Outcome

LEMMA ReceiveFailsOutcome ==
  ASSUME BenchType, ReceiveFails
  PROVE  Outcome
<1>1. /\ ~Over /\ Step.do \in {"recv", "drain", "collect"} /\ UNCHANGED <<prog, sent>>
      /\ Follow(Step.err)
  BY DEF ReceiveFails, At, Keeps
<1> PICK f : f = CASE Step.do = "recv" -> Step.x.f [] Step.do = "drain" -> Step.x [] OTHER -> 1
  OBVIOUS
<1>2. chip' = chip \/ (Queue(f) # <<>> /\ Take(f)) BY DEF ReceiveFails
<1>3. f \in 1 .. 6 BY <1>1, StepType
<1>4. pc' \in Nat /\ Moves BY <1>1, FollowErr
<1>5. Lost BY <1>1, <1>2, <1>3, TakeLoses, Unchanged
<1> QED BY <1>1, <1>4, <1>5 DEF Outcome

LEMMA DrainsOutcome ==
  ASSUME BenchType, Drains
  PROVE  Outcome
<1>1. ~Over /\ Step.do = "drain" /\ UNCHANGED <<prog, sent>> /\ Follow(Ignore)
  BY DEF Drains, At, Keeps
<1>2. Step.x \in 1 .. 6 /\ Step.c \in DOMAIN chip BY <1>1, StepType
<1>3. pc' \in Nat /\ Moves BY <1>1, FollowOn, Policies
<1>4. Lost
  <2>1. CASE chip' = chip BY <2>1, Unchanged
  <2>2. CASE chip' = [chip EXCEPT ![Step.c].rx[Step.x].q = <<>>]
    <3> PICK d, f, r : d = Step.c /\ f = Step.x /\ r = chip[d] OBVIOUS
    <3> PICK n : n = [r EXCEPT !.rx[f].q = <<>>] OBVIOUS
    <3>1. chip' = [chip EXCEPT ![d] = n] BY <2>2
    <3>2. ChipOk(r) BY <1>2 DEF BenchType
    <3>3. Loses(r, n) BY <1>2, <3>2, DrainedChip
    <3> QED BY <1>2, <3>1, <3>3, OneChip
  <2> QED BY <2>1, <2>2 DEF Drains
<1> QED BY <1>1, <1>3, <1>4 DEF Outcome

LEMMA CollectsOutcome ==
  ASSUME BenchType, Collects
  PROVE  Outcome
<1>1. /\ ~Over /\ Step.do = "collect" /\ UNCHANGED <<prog, sent>> /\ Queue(1) # <<>> /\ Take(1)
      /\ pc' \in {pc, pc + 1}
  BY DEF Collects, At, Keeps
<1>2. Lost BY <1>1, TakeLoses
<1>3. pc \in Nat /\ pc \in DOMAIN Steps BY <1>1, StepType
<1>4. pc' \in Nat /\ Moves BY <1>1, <1>3 DEF Moves
<1> QED BY <1>1, <1>2, <1>4 DEF Outcome

LEMMA StopsOutcome ==
  ASSUME BenchType, Stops
  PROVE  Outcome
<1>1. ~Over /\ UNCHANGED <<prog, chip, sent>> /\ pc' = Len(Steps) + 1 BY DEF Stops, At, Keeps
<1>2. pc' \in Nat /\ Moves BY <1>1, Script DEF Moves
<1> QED BY <1>1, <1>2, Unchanged DEF Outcome

LEMMA NextPassOutcome ==
  ASSUME BenchType, NextPass
  PROVE  Outcome
<1>1. Over /\ UNCHANGED <<prog, chip, sent>> /\ pc' \in {1, First + 1} BY DEF NextPass
<1>2. pc \notin DOMAIN Steps BY <1>1 DEF Over
<1>3. pc' \in Nat /\ Moves BY <1>1, <1>2, Script DEF Moves
<1> QED BY <1>1, <1>3, Unchanged DEF Outcome

LEMMA StepOutcome ==
  ASSUME BenchType, Next
  PROVE  Outcome
<1>1. CASE \E c \in Chips : Deliver(c) BY <1>1, DeliverOutcome
<1>2. CASE Succeeds BY <1>2, SucceedsOutcome
<1>3. CASE IsRefused BY <1>3, IsRefusedOutcome
<1>4. CASE Fails BY <1>4, FailsOutcome
<1>5. CASE Status \/ Waits \/ TimesOut \/ CollectTimesOut \/ Expects BY <1>5, IdleOutcome
<1>6. CASE Received BY <1>6, ReceivedOutcome
<1>7. CASE ReceiveFails BY <1>7, ReceiveFailsOutcome
<1>8. CASE Drains BY <1>8, DrainsOutcome
<1>9. CASE Collects BY <1>9, CollectsOutcome
<1>10. CASE Stops BY <1>10, StopsOutcome
<1>11. CASE NextPass BY <1>11, NextPassOutcome
<1> QED BY <1>1, <1>2, <1>3, <1>4, <1>5, <1>6, <1>7, <1>8, <1>9, <1>10, <1>11 DEF Next

(* Every step keeps the types.                                             *)
LEMMA OutcomeType ==
  ASSUME BenchType, Outcome
  PROVE  BenchType' /\ Steps' = Steps /\ First' = First
<1>1. prog' = prog /\ pc' \in Nat BY DEF Outcome
<1>2. SameChips /\ \A c \in DOMAIN chip : ChipOk(chip'[c])
  BY DEF Outcome, Heard, Lost, Announced, Loses, Comes
<1>3. Code' = Code BY DEF Code
<1>4. DOMAIN chip' = 1 .. Code'[prog'].chips BY <1>1, <1>2, <1>3 DEF SameChips, BenchType
<1>5. BenchType' BY <1>1, <1>2, <1>4 DEF SameChips, BenchType
<1> QED BY <1>1, <1>3, <1>5 DEF Steps, First

-----------------------------------------------------------------------------
(* What a comparison rests on                                               *)

(* Every frame of F like the one of step m is that frame, and step m is    *)
(* behind.                                                                 *)
Fresh(F, m, k, p) == \A x \in F : Like(Steps, x, m, k) => x.new /\ p > m

SentInv == \A k \in DOMAIN Steps : \A m \in 1 .. k - 1 :
  SendOf(Steps, First, m, k) /\ pc \in m + 1 .. k => sent = Steps[m].x

TxInv == \A k \in DOMAIN Steps : \A m \in 1 .. k - 1 : \A b \in 1 .. m - 1 : \A c \in DOMAIN chip :
  /\ SendOf(Steps, First, m, k) /\ FlushOf(Steps, First, b, c, m, k) /\ pc \in b + 1 .. k
  => Fresh(TxOf(chip[c]), m, k, pc)

RxInv == \A k \in DOMAIN Steps : \A m \in 1 .. k - 1 : \A r \in 1 .. m - 1 :
  /\ SendOf(Steps, First, m, k) /\ Emptied(Steps, First, Code[prog].chips, r, m, k)
  /\ Steps[k].do = "recv" /\ pc \in r + 1 .. k
  => Fresh(RxOf(chip[Steps[k].c], Steps[k].x.f), m, k, pc)

BenchInv == BenchType /\ SentInv /\ TxInv /\ RxInv /\ earned

LEMMA FramesOf ==
  ASSUME NEW r, ChipOk(r)
  PROVE  TxOf(r) \subseteq U /\ \A f \in 1 .. 6 : RxOf(r, f) \subseteq U
<1>1. r.tx \in Seq(U) /\ \A f \in 1 .. 6 : r.rx[f].q \in Seq(U) BY DEF ChipOk, RxOk, FifoOk
<1>2. \A q \in Seq(U) : ToSet(q) \subseteq U BY DEF ToSet
<1> QED BY <1>1, <1>2 DEF TxOf, RxOf

LEMMA LikeMarked ==
  ASSUME NEW s, NEW m, NEW k, NEW x \in U \cup FrameType, NEW b \in BOOLEAN, Like(s, Marked(x, b), m, k)
  PROVE  Like(s, x, m, k)
<1>1. Marked(x, b).id = x.id /\ Marked(x, b).data = x.data BY MarkedType
<1> QED BY <1>1 DEF Like, Alike

LEMMA LikeStaled ==
  ASSUME NEW s, NEW m, NEW k, NEW x \in U, s[m].x \in FrameType, Like(s, Staled(x), m, k)
  PROVE  Like(s, x, m, k)
<1>1. Staled(x).id = x.id /\ Staled(x).data.kind = "stale" BY StaledType
<1>2. s[m].x.data.kind # "stale" BY DEF FrameType
<1>3. Staled(x).data # s[m].x.data BY <1>1, <1>2
<1> QED BY <1>1, <1>3 DEF Like, Alike

LEMMA FreshLess ==
  ASSUME NEW F, NEW G, NEW m, NEW k, NEW p, NEW q, m \in Nat, p \in Nat, q \in Nat,
         Fresh(F, m, k, p), G \subseteq F, p <= q
  PROVE  Fresh(G, m, k, q)
  BY DEF Fresh

(* Before step m nothing is like its frame, so nothing is when it is aged. *)
LEMMA FreshAged ==
  ASSUME NEW F, F \subseteq U, NEW m \in Nat, NEW k, NEW p \in Nat, NEW q, Fresh(F, m, k, p), p <= m
  PROVE  Fresh(AgedOf(F), m, k, q)
<1>1. SUFFICES ASSUME NEW x \in F, Like(Steps, Marked(x, FALSE), m, k)
               PROVE  FALSE
  BY DEF Fresh, AgedOf
<1>2. Like(Steps, x, m, k) BY <1>1, LikeMarked
<1> QED BY <1>1, <1>2 DEF Fresh

LEMMA SendStep ==
  ASSUME BenchType, NEW k \in DOMAIN Steps, NEW m \in 1 .. k - 1, SendOf(Steps, First, m, k)
  PROVE  /\ k \in Nat /\ m \in Nat /\ m \in DOMAIN Steps
         /\ Steps[m].do = "send" /\ Steps[m].x \in FrameType
<1>1. k \in Nat /\ m \in Nat /\ m \in DOMAIN Steps BY Script
<1>2. Steps[m].do = "send" BY DEF SendOf
<1> QED BY <1>1, <1>2, Script DEF WellFormed

(* The steps after lo are entered only by a success of step lo.            *)
LEMMA Enter ==
  ASSUME BenchType, Outcome, NEW hi \in DOMAIN Steps, NEW lo \in 1 .. hi - 1,
         OnlyThrough(Steps, First, lo, hi), Steps[lo].do \in {"send", "layout"}, pc' \in lo + 1 .. hi
  PROVE  \/ pc \in lo + 1 .. hi /\ pc <= pc'
         \/ pc = lo /\ Succeeds
<1>1. /\ Len(Steps) \in Nat /\ DOMAIN Steps = 1 .. Len(Steps) /\ First \in Nat
      /\ pc \in Nat /\ pc' \in Nat /\ Moves
  BY Script DEF BenchType, Outcome
<1>2. First < lo /\ \A i \in 1 .. lo : LET n == Steps[i].err.skip IN n = 0 \/ i + n <= lo \/ i + n > hi
  BY DEF OnlyThrough
<1>3. hi \in Nat /\ lo \in Nat /\ hi <= Len(Steps) BY <1>1
<1>4. CASE pc' = pc BY <1>1, <1>3, <1>4
<1>5. CASE pc \notin DOMAIN Steps /\ pc' \in {1, First + 1} BY <1>1, <1>2, <1>3, <1>5
<1>6. CASE pc \in DOMAIN Steps /\ pc' = pc + 1 /\ (Step.do \in {"send", "layout"} => Succeeds)
  <2>1. pc = lo => Succeeds BY <1>6 DEF Step
  <2> QED BY <1>1, <1>3, <1>6, <2>1
<1>7. CASE pc \in DOMAIN Steps /\ Step.err.skip # 0 /\ pc' = pc + Step.err.skip
  <2>1. Step.err.skip \in Nat BY <1>7, StepType DEF Over
  <2>2. pc \in 1 .. lo => pc + Step.err.skip <= lo \/ pc + Step.err.skip > hi
    BY <1>2, <1>7 DEF Step
  <2> QED BY <1>1, <1>3, <1>7, <2>1, <2>2
<1> QED BY <1>1, <1>3, <1>4, <1>5, <1>6, <1>7 DEF Moves

LEMMA SingleSeq ==
  ASSUME NEW x \in U PROVE <<x>> \in Seq(U)
  OBVIOUS

LEMMA InitBench ==
  ASSUME Init, prog # "soak"
  PROVE  BenchInv
<1>1. prog \in Programs \ {"soak"} /\ pc = 1 /\ earned BY DEF Init
<1>2. PICK state \in {Blank, Left} : chip = [c \in 1 .. Code[prog].chips |-> state] BY DEF Init
<1>3. ChipOk(Left)
  <2> PICK b, u, x, y, l :
        /\ b = Marked(Classic(Std(1), 0), FALSE) /\ u = Fifo(8)
        /\ x = [Blank.rx EXCEPT ![1] = [u EXCEPT !.q = <<b>>]]
        /\ y = [u EXCEPT !.q = <<b>>]
        /\ l = [Blank.flt EXCEPT ![1] = {[rule |-> AcceptAll, f |-> 1]}]
    OBVIOUS
  <2>1. ChipOk(Blank) /\ IsChip(Blank) /\ RxOk(Blank.rx) /\ Blank.tx \in Seq(U) BY BlankChip DEF ChipOk
  <2>2. Left = [Blank EXCEPT !.mode = "InternalLoopback", !.room = 4, !.flt = l, !.rx = x] BY DEF Left
  <2>3. b \in U
    <3>1. Std(1) \in IdType BY DEF Std, IdType
    <3>2. Classic(Std(1), 0) \in FrameType BY <3>1 DEF Classic, Data, FrameType
    <3> QED BY <3>2, MarkedType
  <2>4. <<b>> \in Seq(U) BY <2>3, SingleSeq, Zenon
  <2>5. FifoOk(u) BY FifoEmpty
  <2>6. FifoOk(y) BY <2>4, <2>5, FifoWith, Zenon
  <2>7. RxOk(x) BY <2>1, <2>6 DEF RxOk
  <2>8. IsChip(Left) /\ Left.tx = Blank.tx /\ Left.room = 4 /\ Left.rx = x BY <2>1, <2>2 DEF IsChip
  <2> QED BY <2>1, <2>7, <2>8 DEF ChipOk
<1>4. ChipOk(state) BY <1>3, BlankChip
<1>5. BenchType BY <1>1, <1>2, <1>4 DEF BenchType
<1>6. \A k \in DOMAIN Steps : k \in Nat BY <1>5, Script
<1> QED BY <1>1, <1>5, <1>6 DEF BenchInv, SentInv, TxInv, RxInv

LEMMA SentStep ==
  ASSUME BenchInv, Next
  PROVE  SentInv'
<1>1. BenchType /\ Outcome /\ BenchType' /\ Steps' = Steps /\ First' = First
  BY StepOutcome, OutcomeType DEF BenchInv
<1>2. SUFFICES ASSUME NEW k \in DOMAIN Steps, NEW m \in 1 .. k - 1,
                      SendOf(Steps, First, m, k), pc' \in m + 1 .. k
               PROVE  sent' = Steps[m].x
  BY <1>1 DEF SentInv
<1>3. k \in Nat /\ m \in Nat /\ Steps[m].do = "send" BY <1>1, <1>2, SendStep
<1>4. OnlyThrough(Steps, First, m, k) /\ \A i \in m + 1 .. k : Steps[i].do \notin Sends
  BY <1>2 DEF SendOf
<1>5. CASE pc \in m + 1 .. k
  <2>1. sent = Steps[m].x BY <1>2, <1>5 DEF BenchInv, SentInv
  <2>2. Step.do \notin Sends BY <1>4, <1>5 DEF Step
  <2> QED BY <1>1, <2>1, <2>2 DEF Outcome
<1>6. CASE pc = m /\ Succeeds BY <1>1, <1>3, <1>6, SucceedsOutcome DEF Step
<1> QED BY <1>1, <1>2, <1>3, <1>4, <1>5, <1>6, Enter

(* Where a send finds the program between a flush and the comparison.      *)
LEMMA SendBetween ==
  ASSUME BenchType, NEW k \in DOMAIN Steps, NEW m \in 1 .. k - 1, NEW b \in 1 .. m - 1, NEW c,
         SendOf(Steps, First, m, k), FlushOf(Steps, First, b, c, m, k), pc \in b + 1 .. k,
         Step.do \in Sends
  PROVE  /\ pc <= m /\ Step.do = "send" /\ Step.x \in FrameType
         /\ pc < m => ~Like(Steps, Step.x, m, k)
<1>1. k \in Nat /\ m \in Nat /\ b \in Nat /\ pc \in Nat /\ Steps[m].do = "send" /\ Steps[m].x \in FrameType
  BY SendStep DEF BenchType
<1>2. pc <= m BY <1>1 DEF SendOf, Step
<1>3. CASE pc = m BY <1>1, <1>3 DEF Step
<1>4. CASE pc < m
  <2>1. pc \in b + 1 .. m - 1 /\ pc \in DOMAIN Steps BY <1>1, <1>4, Script
  <2>2. Step.do = "send" /\ ~Like(Steps, Step.x, m, k) BY <2>1 DEF FlushOf, Step
  <2>3. Step.x \in FrameType BY <2>1, <2>2, StepType DEF Over
  <2> QED BY <1>2, <2>2, <2>3
<1> QED BY <1>1, <1>2, <1>3, <1>4

LEMMA TxStep ==
  ASSUME BenchInv, Next
  PROVE  TxInv'
<1>1. BenchType /\ Outcome /\ BenchType' /\ Steps' = Steps /\ First' = First /\ SameChips
  BY StepOutcome, OutcomeType DEF BenchInv, Outcome, Heard, Lost, Announced
<1>2. SUFFICES ASSUME NEW k \in DOMAIN Steps, NEW m \in 1 .. k - 1, NEW b \in 1 .. m - 1,
                      NEW c \in DOMAIN chip,
                      SendOf(Steps, First, m, k), FlushOf(Steps, First, b, c, m, k), pc' \in b + 1 .. k
               PROVE  Fresh(TxOf(chip'[c]), m, k, pc')
  BY <1>1 DEF TxInv, SameChips, Fresh, TxOf
<1>3. k \in Nat /\ m \in Nat /\ b \in Nat /\ b \in 1 .. k - 1 /\ pc \in Nat /\ pc' \in Nat
  BY <1>1, <1>2, SendStep DEF BenchType
<1>4. OnlyThrough(Steps, First, b, k) /\ Steps[b].do = "layout" /\ Steps[b].c = c
  BY <1>2 DEF FlushOf
<1>5. CASE pc = b /\ Succeeds
  <2>1. TxOf(chip'[c]) = {} BY <1>1, <1>4, <1>5, SucceedsOutcome DEF Step, Flushed
  <2> QED BY <2>1 DEF Fresh
<1>6. CASE pc \in b + 1 .. k /\ pc <= pc'
  <2>1. Fresh(TxOf(chip[c]), m, k, pc) BY <1>2, <1>6 DEF BenchInv, TxInv
  <2>2. CASE Heard \/ Lost
    <3>1. TxOf(chip'[c]) \subseteq TxOf(chip[c]) BY <2>2 DEF Heard, Lost, Comes, Loses
    <3> QED BY <1>3, <1>6, <2>1, <3>1, FreshLess
  <2>3. CASE ~Over /\ Step.do \in Sends /\ Announced /\ pc' # pc
    <3>1. /\ pc <= m /\ Step.do = "send" /\ Step.x \in FrameType
          /\ pc < m => ~Like(Steps, Step.x, m, k)
      BY <1>1, <1>2, <1>6, <2>3, SendBetween
    <3>2. TxOf(chip'[c]) \subseteq AgedOf(TxOf(chip[c])) \cup {Marked(Step.x, TRUE)}
      BY <2>3, <3>1 DEF Announced
    <3>3. TxOf(chip[c]) \subseteq U BY <1>1, FramesOf DEF BenchType
    <3>4. Fresh(AgedOf(TxOf(chip[c])), m, k, pc') BY <1>3, <2>1, <3>1, <3>3, FreshAged
    <3>5. ASSUME Like(Steps, Marked(Step.x, TRUE), m, k)
          PROVE  Marked(Step.x, TRUE).new /\ pc' > m
      <4>1. Like(Steps, Step.x, m, k) BY <3>1, <3>5, LikeMarked
      <4>2. pc = m BY <1>3, <3>1, <4>1
      <4>3. pc' > m BY <1>3, <1>6, <2>3, <4>2
      <4>4. Marked(Step.x, TRUE).new = TRUE BY <3>1, MarkedType
      <4> QED BY <4>3, <4>4
    <3> QED BY <3>2, <3>4, <3>5 DEF Fresh
  <2> QED BY <1>1, <2>2, <2>3 DEF Outcome
<1> QED BY <1>1, <1>2, <1>3, <1>4, <1>5, <1>6, Enter

LEMMA RxStep ==
  ASSUME BenchInv, Next
  PROVE  RxInv'
<1>1. BenchType /\ Outcome /\ BenchType' /\ Steps' = Steps /\ First' = First /\ SameChips
  BY StepOutcome, OutcomeType DEF BenchInv, Outcome, Heard, Lost, Announced
<1>2. Code'[prog'].chips = Code[prog].chips /\ DOMAIN chip = 1 .. Code[prog].chips
  BY <1>1 DEF Outcome, Code, BenchType
<1>3. SUFFICES ASSUME NEW k \in DOMAIN Steps, NEW m \in 1 .. k - 1, NEW r \in 1 .. m - 1,
                      SendOf(Steps, First, m, k),
                      Emptied(Steps, First, Code[prog].chips, r, m, k),
                      Steps[k].do = "recv", pc' \in r + 1 .. k
               PROVE  Fresh(RxOf(chip'[Steps[k].c], Steps[k].x.f), m, k, pc')
  BY <1>1, <1>2 DEF RxInv, Fresh, RxOf
<1> PICK d, f : d = Steps[k].c /\ f = Steps[k].x.f OBVIOUS
<1>4. /\ k \in Nat /\ m \in Nat /\ r \in Nat /\ r \in 1 .. k - 1 /\ pc \in Nat /\ pc' \in Nat
      /\ Steps[m].x \in FrameType
  BY <1>1, <1>3, SendStep DEF BenchType
<1>5. d \in DOMAIN chip /\ f \in 1 .. 6 BY <1>1, <1>2, <1>3, Script DEF WellFormed
<1>6. /\ FlushOf(Steps, First, r, d, m, k) /\ f \in DOMAIN Steps[r].x.rx
      /\ \A c \in DOMAIN chip : \E b \in 1 .. r : FlushOf(Steps, First, b, c, m, k)
  BY <1>2, <1>3 DEF Emptied
<1>7. OnlyThrough(Steps, First, r, k) /\ Steps[r].do = "layout" /\ Steps[r].c = d
  BY <1>6 DEF FlushOf
<1>8. CASE pc = r /\ Succeeds
  <2>1. RxOf(chip'[d], f) = {} BY <1>1, <1>5, <1>6, <1>7, <1>8, SucceedsOutcome DEF Step, Flushed
  <2> QED BY <2>1 DEF Fresh
<1>9. CASE pc \in r + 1 .. k /\ pc <= pc'
  <2>1. Fresh(RxOf(chip[d], f), m, k, pc) BY <1>3, <1>9 DEF BenchInv, RxInv
  <2>2. CASE Heard /\ UNCHANGED pc
    <3>1. PICK e \in DOMAIN chip : \E x \in TxOf(chip[e]) : \A c \in DOMAIN chip : Comes(x, chip[c], chip'[c])
      BY <2>2 DEF Heard
    <3>2. PICK x \in TxOf(chip[e]) : Comes(x, chip[d], chip'[d]) BY <1>5, <3>1
    <3>3. RxOf(chip'[d], f) \subseteq RxOf(chip[d], f) \cup {x, Staled(x)} BY <1>5, <3>2 DEF Comes
    <3>4. x \in U BY <1>1, <3>2, FramesOf DEF BenchType
    <3>5. PICK b \in 1 .. r : FlushOf(Steps, First, b, e, m, k) BY <1>6
    <3>6. b \in 1 .. m - 1 /\ pc \in b + 1 .. k BY <1>4, <1>9
    <3>7. Fresh(TxOf(chip[e]), m, k, pc) BY <1>3, <3>5, <3>6 DEF BenchInv, TxInv
    <3>8. Like(Steps, x, m, k) => x.new /\ pc > m BY <3>7 DEF Fresh
    <3>9. Like(Steps, Staled(x), m, k) => Staled(x).new /\ pc > m
      BY <1>4, <3>4, <3>8, LikeStaled, StaledType
    <3> QED BY <2>1, <2>2, <3>3, <3>8, <3>9 DEF Fresh
  <2>3. CASE Lost
    <3>1. RxOf(chip'[d], f) \subseteq RxOf(chip[d], f) BY <1>5, <2>3 DEF Lost, Loses
    <3> QED BY <1>4, <1>9, <2>1, <3>1, FreshLess
  <2>4. CASE ~Over /\ Step.do \in Sends /\ Announced
    <3>1. pc <= m BY <1>1, <1>3, <1>6, <1>9, <2>4, SendBetween
    <3>2. RxOf(chip'[d], f) = AgedOf(RxOf(chip[d], f)) BY <1>5, <2>4 DEF Announced
    <3>3. RxOf(chip[d], f) \subseteq U BY <1>1, <1>5, FramesOf DEF BenchType
    <3> QED BY <1>4, <2>1, <3>1, <3>2, <3>3, FreshAged
  <2> QED BY <1>1, <2>2, <2>3, <2>4 DEF Outcome
<1> QED BY <1>1, <1>3, <1>4, <1>7, <1>8, <1>9, Enter

(* A comparison that succeeds does so on the frame sent last.              *)
LEMMA EarnedStep ==
  ASSUME BenchInv, Next
  PROVE  earned'
<1>1. CASE ~Received
  <2>1. earned' = earned
    BY <1>1 DEF Next, Deliver, Succeeds, IsRefused, Fails, Status, Waits, TimesOut, ReceiveFails,
                Drains, Collects, CollectTimesOut, Expects, Stops, NextPass, Keeps
  <2> QED BY <2>1 DEF BenchInv
<1>2. CASE Received
  <2> PICK s, k, d, f, cmp, frame :
        /\ s = Steps /\ k = pc /\ d = Step.c /\ f = Step.x.f /\ cmp = Step.x.cmp
        /\ frame = Head(Queue(f))
    OBVIOUS
  <2>1. BenchType /\ ~Over /\ Step.do = "recv" /\ Queue(f) # <<>> BY <1>2 DEF Received, At, BenchInv
  <2>2. k \in DOMAIN s /\ k \in Nat /\ d \in DOMAIN chip /\ f \in 1 .. 6 BY <2>1, StepType
  <2>3. earned' = (earned /\ (Agrees(frame, cmp) /\ cmp # {} => frame.new)) BY <1>2 DEF Received
  <2>4. SUFFICES ASSUME Agrees(frame, cmp), cmp # {} PROVE frame.new BY <2>3 DEF BenchInv
  <2>5. Compares(s[k]) BY <2>1, <2>4 DEF Compares, Agrees, Step
  <2>6. PICK m \in 1 .. k - 1 : /\ SendOf(s, First, m, k)
                                /\ \E r \in 1 .. m - 1 : Emptied(s, First, Code[prog].chips, r, m, k)
    BY <2>1, <2>2, <2>5, Script DEF Clean
  <2>7. PICK r \in 1 .. m - 1 : Emptied(s, First, Code[prog].chips, r, m, k) BY <2>6
  <2>8. pc \in m + 1 .. k /\ pc \in r + 1 .. k BY <2>2
  <2>9. sent = s[m].x BY <2>2, <2>6, <2>8 DEF BenchInv, SentInv
  <2>10. Fresh(RxOf(chip[s[k].c], s[k].x.f), m, k, pc)
    BY <2>1, <2>2, <2>6, <2>7, <2>8 DEF BenchInv, RxInv, Step
  <2>11. frame \in RxOf(chip[d], f)
    <3>1. ChipOk(chip[d]) BY <2>1, <2>2 DEF BenchType
    <3>2. chip[d].rx[f].q \in Seq(U) BY <2>2, <3>1 DEF ChipOk, RxOk, FifoOk
    <3> QED BY <2>1, <3>2, TailSet DEF RxOf, Queue
  <2>12. Like(s, frame, m, k) BY <2>4, <2>9 DEF Agrees, Like, Step
  <2> QED BY <2>10, <2>11, <2>12 DEF Fresh, Step
<1> QED BY <1>1, <1>2

LEMMA NextBench ==
  ASSUME BenchInv, Next
  PROVE  BenchInv'
<1>1. BenchType' BY StepOutcome, OutcomeType DEF BenchInv
<1> QED BY <1>1, SentStep, TxStep, RxStep, EarnedStep DEF BenchInv

LEMMA StutterBench ==
  ASSUME BenchInv, UNCHANGED vars
  PROVE  BenchInv'
<1>1. prog' = prog /\ pc' = pc /\ chip' = chip /\ sent' = sent /\ earned' = earned BY DEF vars
<1>2. Code' = Code BY DEF Code
<1>3. Steps' = Steps /\ First' = First BY <1>1, <1>2 DEF Steps, First
<1>4. BenchType' BY <1>1, <1>2 DEF BenchInv, BenchType
<1>5. SentInv' BY <1>1, <1>3 DEF BenchInv, SentInv
<1>6. TxInv' BY <1>1, <1>3 DEF BenchInv, TxInv, Fresh
<1>7. RxInv' BY <1>1, <1>2, <1>3 DEF BenchInv, RxInv, Fresh
<1> QED BY <1>1, <1>4, <1>5, <1>6, <1>7 DEF BenchInv

(* No program but soak.rs takes an earlier frame for the one it has just   *)
(* sent, whatever the bug of the driver and however many calls fail.       *)
THEOREM EarnedByScripts == Spec => [](prog # "soak" => OkIsEarned)
<1> DEFINE Inv == prog # "soak" => BenchInv
<1>1. Init => Inv BY InitBench
<1>2. Inv /\ [Next]_vars => Inv'
  <2>1. SUFFICES ASSUME Inv, [Next]_vars, prog' # "soak" PROVE BenchInv' OBVIOUS
  <2>2. prog' = prog
    BY <2>1 DEF vars, Next, Deliver, Succeeds, IsRefused, Fails, Status, Waits, Received, TimesOut,
                ReceiveFails, Drains, Collects, CollectTimesOut, Expects, Stops, NextPass, Keeps
  <2>3. BenchInv BY <2>1, <2>2
  <2> QED BY <2>1, <2>3, NextBench, StutterBench
<1>3. Inv => (prog # "soak" => OkIsEarned) BY DEF BenchInv, OkIsEarned
<1> QED BY <1>1, <1>2, <1>3, PTL DEF Spec
=============================================================================
