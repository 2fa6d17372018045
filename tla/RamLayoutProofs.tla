-------------------------- MODULE RamLayoutProofs --------------------------
(***************************************************************************)
(* Proofs about RamLayout, for every set of FIFOs, every set of entries    *)
(* and every sequence of layouts: the planner's budget is exact, what      *)
(* apply_layout leaves on the chip is what was planned, and it fits as the *)
(* chip lays it out.  First the sums.  The sum of multiples of four is     *)
(* four times the number of points below the graph of the quarters, and    *)
(* points are counted with the facts about cardinalities; a minimal subset *)
(* takes the place of induction.                                           *)
(***************************************************************************)
EXTENDS RamLayout, FiniteSetTheorems, TLAPS

-----------------------------------------------------------------------------
(* Among subsets of a finite set there is a minimal one: what takes the    *)
(* place of induction here.                                                *)
LEMMA MinimalSubset ==
  ASSUME NEW S, IsFiniteSet(S), NEW A \in SUBSET (SUBSET S), A # {}
  PROVE  \E T \in A : \A U \in A : U \subseteq T => U = T
<1>1. IsWellFoundedOn(StrictSubsetOrdering(S), SUBSET S)
  BY FS_StrictSubsetOrderingWellFounded, FS_FiniteSubsetsOfFinite
<1>2. \E T \in A : \A U \in A : ~(<<U, T>> \in StrictSubsetOrdering(S))
  BY <1>1, WFMin
<1>3. PICK T \in A : \A U \in A : ~(<<U, T>> \in StrictSubsetOrdering(S))  BY <1>2
<1>4. ASSUME NEW U \in A, U \subseteq T, U # T PROVE FALSE
  <2>1. <<U, T>> \in StrictSubsetOrdering(S)  BY <1>4 DEF StrictSubsetOrdering
  <2>. QED  BY <1>3, <1>4, <2>1
<1>. QED  BY <1>4

-----------------------------------------------------------------------------
Area(q, T)  == {p \in T \X Nat : p[2] \in 1 .. q[p[1]]}
Total(q, T) == Cardinality(Area(q, T))
Column(q, x) == {x} \X (1 .. q[x])

LEMMA AreaSplit ==
  ASSUME NEW T, NEW q, NEW x \in T, q[x] \in Nat
  PROVE  /\ Area(q, T) = Area(q, T \ {x}) \cup Column(q, x)
         /\ Area(q, T \ {x}) \cap Column(q, x) = {}
<1>1. ASSUME NEW p, p \in Area(q, T) PROVE p \in Area(q, T \ {x}) \cup Column(q, x)
  <2>1. p \in T \X Nat /\ p[2] \in 1 .. q[p[1]]  BY <1>1 DEF Area
  <2>2. CASE p[1] = x  BY <2>1, <2>2 DEF Column
  <2>3. CASE p[1] # x  BY <2>1, <2>3 DEF Area
  <2>. QED  BY <2>2, <2>3
<1>2. ASSUME NEW p, p \in Column(q, x) PROVE p \in Area(q, T) /\ p \notin Area(q, T \ {x})
  <2>1. p[1] = x /\ p[2] \in 1 .. q[x] /\ p \in T \X Nat  BY <1>2 DEF Column
  <2>. QED  BY <2>1 DEF Area
<1>3. Area(q, T \ {x}) \subseteq Area(q, T)  BY DEF Area
<1>. QED  BY <1>1, <1>2, <1>3

LEMMA ColumnSize ==
  ASSUME NEW q, NEW x, q[x] \in Nat
  PROVE  IsFiniteSet(Column(q, x)) /\ Cardinality(Column(q, x)) = q[x]
<1>1. IsFiniteSet({x}) /\ Cardinality({x}) = 1  BY FS_Singleton
<1>2. IsFiniteSet(1 .. q[x]) /\ Cardinality(1 .. q[x]) = q[x]  BY FS_Interval
<1>3. /\ IsFiniteSet({x} \X (1 .. q[x]))
      /\ Cardinality({x} \X (1 .. q[x])) = Cardinality({x}) * Cardinality(1 .. q[x])
  BY <1>1, <1>2, FS_Product
<1>. QED  BY <1>1, <1>2, <1>3 DEF Column

LEMMA AreaFinite ==
  ASSUME NEW S, IsFiniteSet(S), NEW q, \A x \in S : q[x] \in Nat, NEW T \in SUBSET S
  PROVE  IsFiniteSet(Area(q, T))
<1>1. PICK A : A = {U \in SUBSET S : ~IsFiniteSet(Area(q, U))}  OBVIOUS
<1>2. SUFFICES ASSUME A # {} PROVE FALSE  BY <1>1
<1>3. PICK U \in A : \A V \in A : V \subseteq U => V = U
  <2>1. A \in SUBSET (SUBSET S)  BY <1>1
  <2>. QED  BY <1>2, <2>1, MinimalSubset
<1>4. U \subseteq S /\ ~IsFiniteSet(Area(q, U))  BY <1>1, <1>3
<1>5. U # {}
  <2>1. Area(q, {}) = {}  BY DEF Area
  <2>. QED  BY <1>4, <2>1, FS_EmptySet
<1>6. PICK x \in U : TRUE  BY <1>5
<1>7. IsFiniteSet(Area(q, U \ {x}))
  <2>1. U \ {x} \subseteq U /\ U \ {x} # U /\ U \ {x} \in SUBSET S  BY <1>4, <1>6
  <2>2. U \ {x} \notin A  BY <1>3, <2>1
  <2>. QED  BY <1>1, <2>1, <2>2
<1>8. q[x] \in Nat  BY <1>4, <1>6
<1>9. IsFiniteSet(Column(q, x))  BY <1>8, ColumnSize
<1>10. Area(q, U) = Area(q, U \ {x}) \cup Column(q, x)  BY <1>6, <1>8, AreaSplit
<1>11. IsFiniteSet(Area(q, U \ {x}) \cup Column(q, x))  BY <1>7, <1>9, FS_Union
<1>. QED  BY <1>4, <1>10, <1>11

LEMMA TotalSplit ==
  ASSUME NEW S, IsFiniteSet(S), NEW q, \A x \in S : q[x] \in Nat, NEW T \in SUBSET S, NEW x \in T
  PROVE  Total(q, T) = q[x] + Total(q, T \ {x})
<1>1. q[x] \in Nat /\ T \ {x} \in SUBSET S  OBVIOUS
<1>2. IsFiniteSet(Area(q, T \ {x}))  BY <1>1, AreaFinite
<1>3. IsFiniteSet(Column(q, x)) /\ Cardinality(Column(q, x)) = q[x]  BY <1>1, ColumnSize
<1>4. /\ Area(q, T) = Area(q, T \ {x}) \cup Column(q, x)
      /\ Area(q, T \ {x}) \cap Column(q, x) = {}
  BY <1>1, AreaSplit
<1>5. PICK a, c : a = Area(q, T \ {x}) /\ c = Column(q, x)  OBVIOUS
<1>6. Cardinality(a \cup c) = Cardinality(a) + Cardinality(c) - Cardinality(a \cap c)
  BY <1>2, <1>3, <1>5, FS_Union
<1>7. Cardinality(a \cap c) = 0  BY <1>4, <1>5, FS_EmptySet
<1>8. Cardinality(a) \in Nat  BY <1>2, <1>5, FS_CardinalityType
<1>9. Total(q, T) = Cardinality(a \cup c) /\ Total(q, T \ {x}) = Cardinality(a)
  BY <1>4, <1>5 DEF Total
<1>. QED  BY <1>1, <1>3, <1>5, <1>6, <1>7, <1>8, <1>9

LEMMA TotalType ==
  ASSUME NEW S, IsFiniteSet(S), NEW q, \A x \in S : q[x] \in Nat, NEW T \in SUBSET S
  PROVE  Total(q, T) \in Nat /\ Total(q, {}) = 0
<1>1. Area(q, {}) = {}  BY DEF Area
<1>. QED  BY <1>1, AreaFinite, FS_CardinalityType, FS_EmptySet DEF Total

LEMMA TotalGrows ==
  ASSUME NEW S, IsFiniteSet(S), NEW q, \A x \in S : q[x] \in Nat, NEW T \in SUBSET S,
         NEW U \in SUBSET T
  PROVE  Total(q, U) <= Total(q, T)
<1>1. Area(q, U) \in SUBSET Area(q, T)  BY DEF Area
<1>2. IsFiniteSet(Area(q, T))  BY AreaFinite
<1>. QED  BY <1>1, <1>2, FS_Subset DEF Total

LEMMA TotalSame ==
  ASSUME NEW q, NEW r, NEW T, \A x \in T : q[x] = r[x]
  PROVE  Total(q, T) = Total(r, T)
<1>1. Area(q, T) = Area(r, T)  BY DEF Area
<1>. QED  BY <1>1 DEF Total

-----------------------------------------------------------------------------
SumStep(it, g, s) ==
  IF s = {} THEN 0 ELSE g[CHOOSE x \in s : TRUE] + it[s \ {CHOOSE x \in s : TRUE}]

LEMMA SumExpands ==
  ASSUME NEW g, NEW S
  PROVE  \E h : /\ h = CHOOSE it : it = [s \in SUBSET S |-> SumStep(it, g, s)]
                /\ SumFunctionOnSet(g, S) = h[S]
BY DEF SumFunctionOnSet, FoldFunctionOnSet, MapThenFoldSet, SumStep

LEMMA SumIsTotal ==
  ASSUME NEW S, IsFiniteSet(S), NEW g, NEW q, \A x \in S : q[x] \in Nat /\ g[x] = 4 * q[x]
  PROVE  SumFunctionOnSet(g, S) = 4 * Total(q, S)
<1>1. PICK h : /\ h = CHOOSE it : it = [s \in SUBSET S |-> SumStep(it, g, s)]
               /\ SumFunctionOnSet(g, S) = h[S]
  BY SumExpands, Zenon
<1>2. PICK t : t = [s \in SUBSET S |-> 4 * Total(q, s)]  OBVIOUS
<1>3. ASSUME NEW s \in SUBSET S PROVE t[s] = SumStep(t, g, s)
  <2>1. CASE s = {}
    <3>1. Total(q, s) = 0  BY <2>1, TotalType
    <3>. QED  BY <1>2, <2>1, <3>1 DEF SumStep
  <2>2. CASE s # {}
    <3>1. PICK x : x = CHOOSE y \in s : TRUE  OBVIOUS
    <3>2. x \in s  BY <2>2, <3>1
    <3>3. Total(q, s) = q[x] + Total(q, s \ {x})  BY <3>2, TotalSplit
    <3>4. s \ {x} \in SUBSET S /\ q[x] \in Nat /\ g[x] = 4 * q[x]  BY <3>2
    <3>5. Total(q, s \ {x}) \in Nat  BY <3>4, TotalType
    <3>6. t[s] = 4 * Total(q, s) /\ t[s \ {x}] = 4 * Total(q, s \ {x})  BY <1>2, <3>4
    <3>7. t[s] = g[x] + t[s \ {x}]  BY <3>3, <3>4, <3>5, <3>6
    <3>. QED  BY <2>2, <3>1, <3>7, Zenon DEF SumStep
  <2>. QED  BY <2>1, <2>2
<1>4. t = [s \in SUBSET S |-> SumStep(t, g, s)]
  <2>1. t = [s \in SUBSET S |-> t[s]]  BY <1>2
  <2>. QED  BY <1>3, <2>1
<1>5. h = [s \in SUBSET S |-> SumStep(h, g, s)]  BY <1>1, <1>4, Zenon
<1>6. PICK A : A = {s \in SUBSET S : h[s] # t[s]}  OBVIOUS
<1>7. ASSUME A # {} PROVE FALSE
  <2>1. PICK s \in A : \A u \in A : u \subseteq s => u = s
    <3>1. A \in SUBSET (SUBSET S)  BY <1>6
    <3>. QED  BY <1>7, <3>1, MinimalSubset
  <2>2. s \in SUBSET S /\ h[s] # t[s]  BY <1>6, <2>1
  <2>3. h[s] = SumStep(h, g, s) /\ t[s] = SumStep(t, g, s)  BY <1>3, <1>5, <2>2, Zenon
  <2>4. s # {}  BY <2>2, <2>3 DEF SumStep
  <2>5. PICK x : x = CHOOSE y \in s : TRUE  OBVIOUS
  <2>6. x \in s  BY <2>4, <2>5
  <2>7. s \ {x} \in SUBSET S /\ s \ {x} \notin A  BY <2>1, <2>2, <2>6
  <2>8. h[s \ {x}] = t[s \ {x}]  BY <1>6, <2>7
  <2>9. h[s] = g[x] + h[s \ {x}] /\ t[s] = g[x] + t[s \ {x}]
    BY <2>3, <2>4, <2>5, Zenon DEF SumStep
  <2>. QED  BY <2>2, <2>8, <2>9, Zenon
<1>8. h[S] = t[S]  BY <1>6, <1>7
<1>. QED  BY <1>1, <1>2, <1>8

-----------------------------------------------------------------------------
(* Entries, in quarters of their bytes.                                    *)
Quarter(e)    == (e.payload \div 4 + 2) * e.depth
Quarters(ent) == [f \in FifoNos |-> Quarter(ent[f])]
Named(ent)    == {f \in FifoNos : ent[f] # NoEntry}

Payloads == {0, 8, 12, 16, 20, 24, 32, 48, 64}

LEMMA FifosFinite == IsFiniteSet(FifoNos) /\ FifoNos \subseteq 1 .. 31
<1>1. IsFiniteSet(1 .. 31)
  <2>1. 1 \in Int /\ 31 \in Int  OBVIOUS
  <2>. QED  BY <2>1, FS_Interval, Zenon
<1>2. FifoNos \in SUBSET (1 .. 31)  BY LayoutInputs
<1>. QED  BY <1>1, <1>2, FS_Subset

LEMMA EntryFields ==
  ASSUME NEW e \in Entries \cup {NoEntry}
  PROVE  /\ e.payload \in Payloads /\ e.depth \in 0 .. 255
         /\ e = Entry(e.direction, e.payload, e.depth)
<1>1. CASE e = NoEntry  BY <1>1 DEF NoEntry, Entry, Payloads
<1>2. CASE e \in Entries
  <2>1. PICK direction \in Directions, i \in DOMAIN PayloadBytes, depth \in 0 .. 255 :
          e = Entry(direction, PayloadBytes[i], depth)
    BY <1>2, LayoutInputs
  <2>2. PayloadBytes[i] \in Payloads  BY DEF PayloadBytes, Payloads
  <2>. QED  BY <2>1, <2>2 DEF Entry
<1>. QED  BY <1>1, <1>2

LEMMA EntryBytes ==
  ASSUME NEW e \in Entries \cup {NoEntry}
  PROVE  /\ Quarter(e) \in Nat /\ Bytes(e) = 4 * Quarter(e)
         /\ (8 + e.payload) * e.depth = 4 * Quarter(e)
         /\ e.depth * (8 + e.payload) = 4 * Quarter(e)
<1>1. PICK p, d : p = e.payload /\ d = e.depth  OBVIOUS
<1>2. p \in Payloads /\ d \in Nat  BY <1>1, EntryFields
<1>3. /\ (p \div 4 + 2) * d \in Nat /\ (8 + p) * d = 4 * ((p \div 4 + 2) * d)
      /\ d * (8 + p) = 4 * ((p \div 4 + 2) * d)
  BY <1>2 DEF Payloads
<1>. QED  BY <1>1, <1>3 DEF Quarter, Bytes

LEMMA NoBytes == Quarter(NoEntry) = 0
BY DEF Quarter, NoEntry, Entry

LEMMA QuarterTypes ==
  ASSUME NEW ent \in [FifoNos -> Entries \cup {NoEntry}]
  PROVE  \A f \in FifoNos : Quarters(ent)[f] = Quarter(ent[f]) /\ Quarters(ent)[f] \in Nat
BY EntryBytes DEF Quarters

-----------------------------------------------------------------------------
(* The planner: its total is the sum of its entries.                       *)
PlanInv ==
  /\ entries \in [FifoNos -> Entries \cup {NoEntry}]
  /\ \A f \in FifoNos : entries[f] # NoEntry => entries[f].depth \in 1 .. 32
  /\ total = 4 * Total(Quarters(entries), Named(entries)) /\ total <= RAM_SIZE
  /\ asked \in Nat /\ (res = "RamOverflow" => asked + total > RAM_SIZE)

(* The chip: after Ok, what was planned.                                   *)
ChipInv ==
  /\ DOMAIN con = {fifo_con(f) : f \in FifoNos}
  /\ res = "Ok" => \A f \in Configured : ChipEntry(f) = entries[f]

LayoutInv == PlanInv /\ ChipInv

LEMMA EmptyPlan ==
  ASSUME NEW ent, ent = new
  PROVE  /\ ent \in [FifoNos -> Entries \cup {NoEntry}] /\ Named(ent) = {}
         /\ Total(Quarters(ent), Named(ent)) = 0
<1>1. ent \in [FifoNos -> Entries \cup {NoEntry}] /\ Named(ent) = {}  BY DEF new, Named
<1>2. Total(Quarters(ent), {}) = 0  BY <1>1, FifosFinite, QuarterTypes, TotalType
<1>. QED  BY <1>1, <1>2

LEMMA LayoutInit == Init => LayoutInv
<1>. SUFFICES ASSUME Init PROVE LayoutInv  OBVIOUS
<1>1. PlanInv  BY EmptyPlan DEF Init, PlanInv, new, RAM_SIZE
<1>2. ChipInv  BY DEF Init, ChipInv, Unconfigured
<1>. QED  BY <1>1, <1>2 DEF LayoutInv

LEMMA NewStep == ASSUME LayoutInv, New PROVE LayoutInv'
<1>1. PlanInv'  BY EmptyPlan DEF New, PlanInv, new, RAM_SIZE
<1>2. ChipInv'  BY DEF New, chip, LayoutInv, ChipInv
<1>. QED  BY <1>1, <1>2 DEF LayoutInv

(* An entry that is added adds its bytes to the sum.                       *)
LEMMA AddedBytes ==
  ASSUME NEW ent \in [FifoNos -> Entries \cup {NoEntry}], NEW f \in FifoNos, ent[f] = NoEntry,
         NEW e \in Entries, e # NoEntry, NEW more, more = [ent EXCEPT ![f] = e]
  PROVE  Total(Quarters(more), Named(more)) = Quarter(e) + Total(Quarters(ent), Named(ent))
<1>1. more \in [FifoNos -> Entries \cup {NoEntry}]  OBVIOUS
<1>2. Named(more) = Named(ent) \cup {f} /\ f \notin Named(ent)  BY DEF Named
<1>3. Named(more) \in SUBSET FifoNos /\ f \in Named(more) /\ Named(more) \ {f} = Named(ent)
  BY <1>2 DEF Named
<1>4. PICK q : q = Quarters(more)  OBVIOUS
<1>5. \A x \in FifoNos : q[x] \in Nat  BY <1>1, <1>4, QuarterTypes
<1>6. Total(q, Named(more)) = q[f] + Total(q, Named(more) \ {f})
  <2>1. IsFiniteSet(FifoNos)  BY FifosFinite
  <2>2. PICK m : m = Named(more)  OBVIOUS
  <2>3. m \in SUBSET FifoNos /\ f \in m  BY <1>3, <2>2
  <2>4. Total(q, m) = q[f] + Total(q, m \ {f})  BY <1>5, <2>1, <2>3, TotalSplit
  <2>. QED  BY <2>2, <2>4
<1>7. q[f] = Quarter(e)  BY <1>1, <1>4, QuarterTypes
<1>8. \A x \in Named(ent) : q[x] = Quarters(ent)[x]
  BY <1>1, <1>2, <1>4, QuarterTypes DEF Named
<1>9. Total(q, Named(ent)) = Total(Quarters(ent), Named(ent))  BY <1>8, TotalSame
<1>. QED  BY <1>3, <1>4, <1>6, <1>7, <1>9

LEMMA AddStep ==
  ASSUME LayoutInv, NEW f \in FifoNos, NEW e \in Entries, TryAdd(f, e)
  PROVE  LayoutInv'
<1>1. asked' = Bytes(e) /\ con' = con  BY DEF TryAdd, chip
<1>2. Bytes(e) = 4 * Quarter(e) /\ Quarter(e) \in Nat  BY EntryBytes
<1>3. CASE res' # "RamOverflow" /\ res' # "Ok" /\ UNCHANGED <<entries, total>>
  BY <1>1, <1>2, <1>3 DEF LayoutInv, PlanInv, ChipInv
<1>4. CASE res' = "RamOverflow" /\ Overflows(e) /\ UNCHANGED <<entries, total>>
  <2>1. asked' + total' > RAM_SIZE
    <3>1. total \in Nat
      <4>1. Total(Quarters(entries), Named(entries)) \in Nat
        BY FifosFinite, QuarterTypes, TotalType DEF LayoutInv, PlanInv, Named
      <4>. QED  BY <4>1 DEF LayoutInv, PlanInv
    <3>. QED  BY <1>1, <1>2, <1>4, <3>1 DEF Overflows, RAM_SIZE
  <2>. QED  BY <1>1, <1>2, <1>4, <2>1 DEF LayoutInv, PlanInv, ChipInv
<1>5. CASE /\ e.depth \in 1 .. 32 /\ Free(f) /\ ~Overflows(e) /\ res' = "Added"
           /\ entries' = [entries EXCEPT ![f] = e] /\ total' = total + Bytes(e)
  <2>1. e # NoEntry  BY <1>5 DEF NoEntry, Entry
  <2>2. entries[f] = NoEntry /\ entries \in [FifoNos -> Entries \cup {NoEntry}]
    BY <1>5 DEF Free, LayoutInv, PlanInv
  <2>3. Total(Quarters(entries'), Named(entries'))
          = Quarter(e) + Total(Quarters(entries), Named(entries))
    BY <1>5, <2>1, <2>2, AddedBytes
  <2>4. Total(Quarters(entries), Named(entries)) \in Nat
    BY <2>2, FifosFinite, QuarterTypes, TotalType DEF Named
  <2>5. total = 4 * Total(Quarters(entries), Named(entries))  BY DEF LayoutInv, PlanInv
  <2>6. total' = 4 * Total(Quarters(entries'), Named(entries')) /\ total' <= RAM_SIZE
    BY <1>2, <1>5, <2>3, <2>4, <2>5 DEF Overflows, RAM_SIZE
  <2>7. /\ entries' \in [FifoNos -> Entries \cup {NoEntry}]
        /\ \A g \in FifoNos : entries'[g] # NoEntry => entries'[g].depth \in 1 .. 32
    BY <1>5, <2>2 DEF LayoutInv, PlanInv
  <2>8. PlanInv'  BY <1>1, <1>2, <1>5, <2>6, <2>7 DEF PlanInv
  <2>9. ChipInv'  BY <1>1, <1>5 DEF ChipInv, LayoutInv
  <2>. QED  BY <2>8, <2>9 DEF LayoutInv
<1>. QED  BY <1>3, <1>4, <1>5 DEF TryAdd, Refuse

-----------------------------------------------------------------------------
(* What the writes of apply_layout leave on the chip.                      *)
LEMMA TakeWords ==
  ASSUME LayoutInv, NEW fs \in SUBSET Configured, Take(fs)
  PROVE  /\ DOMAIN con' = DOMAIN con
         /\ \A g \in FifoNos : Word(g)' = IF g \in fs THEN FifoCon(entries[g]) \ {10} ELSE Word(g)
         /\ filled' = filled \ fs
<1>1. PICK at : at = [a \in DOMAIN con |-> CHOOSE g \in FifoNos : fifo_con(g) = a]  OBVIOUS
<1>2. con' = [a \in DOMAIN con |-> IF at[a] \in fs THEN FifoCon(entries[at[a]]) \ {10} ELSE con[a]]
  BY <1>1 DEF Take
<1>3. ASSUME NEW g \in FifoNos
      PROVE  92 + 12 * (g - 1) \in DOMAIN con /\ at[92 + 12 * (g - 1)] = g
  <2>1. g \in 1 .. 31 /\ fifo_con(g) = 92 + 12 * (g - 1)  BY FifosFinite DEF fifo_con
  <2>2. fifo_con(g) \in DOMAIN con  BY DEF LayoutInv, ChipInv
  <2>3. PICK h : h = CHOOSE k \in FifoNos : fifo_con(k) = fifo_con(g)  OBVIOUS
  <2>4. h \in FifoNos /\ fifo_con(h) = fifo_con(g)  BY <2>3
  <2>5. h = g  BY <2>1, <2>4, FifosFinite DEF fifo_con
  <2>6. at[fifo_con(g)] = g  BY <1>1, <2>2, <2>3, <2>5
  <2>. QED  BY <2>1, <2>2, <2>6
<1>4. \A e : 10 \in FifoCon(e)  BY DEF FifoCon, With, FRESET, TXEN, TFNRFNIE, RXOVIE
<1>5. filled' = filled \ fs  BY <1>4 DEF Take
<1>. QED  BY <1>2, <1>3, <1>5 DEF Word

LEMMA ReadBack ==
  ASSUME LayoutInv, NEW f \in Configured
  PROVE  Decoded(FifoCon(entries[f]) \ {10}) = entries[f]
<1>1. entries[f] \in Entries /\ entries[f].depth \in 1 .. 32
  BY DEF Configured, LayoutInv, PlanInv
<1>2. PICK direction \in Directions, i \in DOMAIN PayloadBytes, depth \in 0 .. 255 :
        entries[f] = Entry(direction, PayloadBytes[i], depth)
  BY <1>1, LayoutInputs
<1>3. depth \in 1 .. 32  BY <1>1, <1>2 DEF Entry
<1>. QED  BY <1>2, <1>3, WordsReadBack

LEMMA ApplyStep ==
  ASSUME LayoutInv, ApplyLayout
  PROVE  /\ LayoutInv'
         /\ \A f \in Configured : ChipEntry(f)' = entries[f]
         /\ filled' = filled \ Configured
         /\ \A f \in FifoNos \ Configured : Word(f)' = Word(f)
<1>1. Take(Configured) /\ res' = "Ok" /\ UNCHANGED <<entries, total, asked>>
  BY DEF ApplyLayout, planner
<1>2. /\ DOMAIN con' = DOMAIN con /\ filled' = filled \ Configured
      /\ \A g \in FifoNos : Word(g)' = IF g \in Configured THEN FifoCon(entries[g]) \ {10}
                                                         ELSE Word(g)
  BY <1>1, TakeWords
<1>3. \A f \in Configured : ChipEntry(f)' = entries[f]
  BY <1>2, ReadBack DEF ChipEntry, Configured
<1>4. PlanInv'  BY <1>1 DEF LayoutInv, PlanInv
<1>5. Configured' = Configured  BY <1>1 DEF Configured
<1>6. ChipInv'  BY <1>1, <1>2, <1>3, <1>5 DEF LayoutInv, ChipInv
<1>. QED  BY <1>2, <1>3, <1>4, <1>6 DEF LayoutInv

LEMMA OtherSteps ==
  ASSUME LayoutInv, ApplyFails \/ Fill \/ Reset \/ UNCHANGED vars
  PROVE  LayoutInv'
<1>1. CASE ApplyFails
  <2>1. PICK fs \in SUBSET Configured : Take(fs)  BY <1>1 DEF ApplyFails
  <2>2. DOMAIN con' = DOMAIN con  BY <2>1, TakeWords
  <2>. QED  BY <1>1, <2>2 DEF ApplyFails, planner, LayoutInv, PlanInv, ChipInv
<1>2. CASE Fill  BY <1>2 DEF Fill, planner, LayoutInv, PlanInv, ChipInv
<1>3. CASE Reset  BY <1>3 DEF Reset, planner, Unconfigured, LayoutInv, PlanInv, ChipInv
<1>4. CASE UNCHANGED vars
  BY <1>4 DEF vars, LayoutInv, PlanInv, ChipInv, Configured, ChipEntry, Word
<1>. QED  BY <1>1, <1>2, <1>3, <1>4

LEMMA LayoutStep == LayoutInv /\ [Next]_vars => LayoutInv'
BY NewStep, AddStep, ApplyStep, OtherSteps DEF Next

LEMMA LayoutHolds == Spec => []LayoutInv
BY LayoutInit, LayoutStep, PTL DEF Spec

-----------------------------------------------------------------------------
(* What LayoutInForce says of a step.                                      *)
Applied ==
  res' = "Ok" =>
    /\ \A f \in Configured : ChipEntry(f)' = entries[f]
    /\ filled' = filled \ Configured
    /\ \A f \in FifoNos \ Configured : Word(f)' = Word(f)

(* Spec => LayoutInForce: after Ok of apply_layout each FIFO of the layout *)
(* is on the chip as planned and emptied, and the others are as they were, *)
(* whatever was on the chip and whichever call failed half-way before.     *)
THEOREM LayoutIsInForce == Spec => LayoutInForce
<1>1. ASSUME LayoutInv, Next PROVE Applied
  <2>1. SUFFICES ASSUME res' = "Ok" PROVE ApplyLayout  BY <1>1, ApplyStep DEF Applied
  <2>. QED  BY <1>1, <2>1 DEF Next, New, TryAdd, Refuse, ApplyFails, Fill, Reset
<1>2. LayoutInv /\ [Next]_vars => [Applied]_vars  BY <1>1
<1>3. Spec => [][Applied]_vars  BY <1>2, LayoutHolds, PTL DEF Spec
<1>. QED  BY <1>3 DEF LayoutInForce, Applied

(* The sum of what the entries take is the planner's total.                *)
LEMMA PlannedIsTotal == PlanInv => Planned = total
<1>. SUFFICES ASSUME PlanInv PROVE Planned = total  OBVIOUS
<1>1. PICK g : g = [f \in FifoNos |-> (8 + entries[f].payload) * entries[f].depth]  OBVIOUS
<1>2. PICK q, T : q = Quarters(entries) /\ T = Named(entries)  OBVIOUS
<1>3. T \in SUBSET FifoNos /\ T = Configured  BY <1>2 DEF Named, Configured
<1>4. IsFiniteSet(T)  BY <1>3, FifosFinite, FS_Subset
<1>5. \A f \in T : q[f] \in Nat /\ g[f] = 4 * q[f]
  BY <1>1, <1>2, <1>3, QuarterTypes, EntryBytes DEF PlanInv
<1>6. SumFunctionOnSet(g, T) = 4 * Total(q, T)  BY <1>4, <1>5, SumIsTotal
<1>. QED  BY <1>1, <1>2, <1>3, <1>6 DEF Planned, PlanInv

(* Spec => []RefusedNeverFit: what try_add refused for lack of RAM would   *)
(* not have fitted behind the elements of the layout.                      *)
THEOREM RefusedWouldNotFit == Spec => []RefusedNeverFit
<1>1. ASSUME LayoutInv, res = "RamOverflow" PROVE asked > RAM_SIZE - Planned
  <2>1. Planned = total  BY <1>1, PlannedIsTotal DEF LayoutInv
  <2>2. Total(Quarters(entries), Named(entries)) \in Nat
    BY <1>1, FifosFinite, QuarterTypes, TotalType DEF LayoutInv, PlanInv, Named
  <2>3. total \in Nat /\ asked \in Nat /\ asked + total > RAM_SIZE
    BY <1>1, <2>2 DEF LayoutInv, PlanInv
  <2>. QED  BY <2>1, <2>3 DEF RAM_SIZE
<1>2. LayoutInv => RefusedNeverFit  BY <1>1 DEF RefusedNeverFit
<1>. QED  BY <1>2, LayoutHolds, PTL

(* The layout fits the chip as the chip lays it out.                       *)
LEMMA BaseIsTotal ==
  ASSUME LayoutInv, res = "Ok", InUse = Configured, NEW f \in FifoNos
  PROVE  ChipBase(f) = 4 * Total(Quarters(entries), {g \in Configured : g < f})
<1>1. PICK b : b = [g \in FifoNos |-> ChipBytes(g)]  OBVIOUS
<1>2. PICK q, T : q = Quarters(entries) /\ T = {g \in Configured : g < f}  OBVIOUS
<1>3. T \in SUBSET FifoNos /\ T \subseteq Configured  BY <1>2 DEF Configured
<1>4. IsFiniteSet(T)  BY <1>3, FifosFinite, FS_Subset
<1>5. ASSUME NEW g \in T PROVE q[g] \in Nat /\ b[g] = 4 * q[g]
  <2>1. ChipEntry(g) = entries[g]  BY <1>3 DEF LayoutInv, ChipInv
  <2>2. g \in FifoNos /\ entries[g] \in Entries \cup {NoEntry}  BY <1>3 DEF LayoutInv, PlanInv
  <2>3. ChipBytes(g) = 4 * Quarter(entries[g])  BY <2>1, <2>2, EntryBytes DEF ChipBytes
  <2>. QED  BY <1>1, <1>2, <2>2, <2>3, QuarterTypes DEF LayoutInv, PlanInv
<1>6. SumFunctionOnSet(b, T) = 4 * Total(q, T)  BY <1>4, <1>5, SumIsTotal
<1>. QED  BY <1>1, <1>2, <1>6 DEF ChipBase

(* The FIFOs that apply_layout configured, as the chip places them.        *)
LEMMA FitHolds == LayoutInv => ElementsFit
<1>1. ASSUME LayoutInv, res = "Ok", InUse = Configured, NEW f \in Configured, NEW end,
             end = ChipBase(f) + entries[f].depth * (8 + entries[f].payload)
      PROVE  /\ ChipBase(f) % 4 = 0 /\ end <= RAM_SIZE
             /\ \A g \in Configured : g > f => end <= ChipBase(g)
  <2>1. PICK q, below, upTo : /\ q = Quarters(entries) /\ below = {g \in Configured : g < f}
                              /\ upTo = below \cup {f}
    OBVIOUS
  <2>2. Configured = Named(entries) /\ Configured \subseteq FifoNos /\ f \in 1 .. 31
    BY FifosFinite DEF Configured, Named
  <2>3. entries \in [FifoNos -> Entries \cup {NoEntry}] /\ f \in FifoNos
    BY <1>1, <2>2 DEF LayoutInv, PlanInv
  <2>4. \A x \in FifoNos : q[x] \in Nat  BY <2>1, <2>3, QuarterTypes
  <2>5. entries[f].depth * (8 + entries[f].payload) = 4 * q[f] /\ q[f] \in Nat
    BY <2>1, <2>3, QuarterTypes, EntryBytes
  <2>6. ChipBase(f) = 4 * Total(q, below)  BY <1>1, <2>1, <2>3, BaseIsTotal
  <2>7. upTo \in SUBSET FifoNos /\ f \in upTo /\ upTo \ {f} = below /\ upTo \subseteq Configured
    BY <2>1, <2>2
  <2>8. Total(q, upTo) = q[f] + Total(q, below)  
    <3>1. IsFiniteSet(FifoNos)  BY FifosFinite
    <3>2. Total(q, upTo) = q[f] + Total(q, upTo \ {f})  BY <2>4, <2>7, <3>1, TotalSplit
    <3>. QED  BY <2>7, <3>2
  <2>9. Total(q, below) \in Nat  BY <2>4, <2>7, FifosFinite, TotalType
  <2>10. end = 4 * Total(q, upTo) /\ Total(q, upTo) \in Nat
    BY <1>1, <2>5, <2>6, <2>8, <2>9
  <2>11. end <= RAM_SIZE
    <3>1. Total(q, upTo) <= Total(q, Configured)
      BY <2>2, <2>4, <2>7, FifosFinite, TotalGrows
    <3>2. Total(q, Configured) \in Nat  BY <2>2, <2>4, FifosFinite, TotalType
    <3>3. 4 * Total(q, Configured) <= RAM_SIZE  BY <1>1, <2>1, <2>2 DEF LayoutInv, PlanInv
    <3>. QED  BY <2>10, <3>1, <3>2, <3>3 DEF RAM_SIZE
  <2>12. ASSUME NEW g \in Configured, g > f PROVE end <= ChipBase(g)
    <3>1. PICK before : before = {h \in Configured : h < g}  OBVIOUS
    <3>2. upTo \subseteq before
      <4>1. f < g  BY <2>2, <2>12, FifosFinite
      <4>2. ASSUME NEW h \in below PROVE h \in before
        <5>1. h \in Configured /\ h < f /\ h \in 1 .. 31  BY <2>1, <2>2, FifosFinite
        <5>2. h < g  BY <2>2, <4>1, <5>1, FifosFinite
        <5>. QED  BY <3>1, <5>1, <5>2
      <4>3. f \in before  BY <3>1, <4>1
      <4>. QED  BY <2>1, <4>2, <4>3
    <3>3. before \in SUBSET FifoNos  BY <2>2, <3>1
    <3>4. Total(q, upTo) <= Total(q, before)  BY <2>4, <3>2, <3>3, FifosFinite, TotalGrows
    <3>5. Total(q, before) \in Nat  BY <2>4, <3>3, FifosFinite, TotalType
    <3>6. ChipBase(g) = 4 * Total(q, before)  BY <1>1, <2>1, <2>2, <3>1, BaseIsTotal
    <3>. QED  BY <2>10, <3>4, <3>5, <3>6
  <2>13. ChipBase(f) % 4 = 0  BY <2>6, <2>9
  <2>. QED  BY <2>11, <2>12, <2>13
<1>. QED  BY <1>1 DEF ElementsFit

(* Spec => []ElementsFit: the FIFOs that apply_layout configured lie in    *)
(* the RAM, on words and one behind the other, as the chip places them.    *)
THEOREM LayoutFits == Spec => []ElementsFit
BY FitHolds, LayoutHolds, PTL

-----------------------------------------------------------------------------
(* The FIFO f as the chip has it, in words: where it begins and ends.      *)
FirstWord(f) == ChipBase(f) \div 4
EndWord(f)   == FirstWord(f) + ChipEntry(f).depth * (2 + ChipEntry(f).payload \div 4)

(* What TxPath assumes of a layout in words (LayoutAssumption, where a     *)
(* FIFO begins at Base and ends at Base + Depth * Stride) and RxPath in    *)
(* bytes (RxAssumption), said of the FIFOs of an accepted layout.          *)
SuitsPaths == res = "Ok" /\ Contiguous /\ InUse = Configured =>
  \A f \in Configured :
    LET depth == ChipEntry(f).depth
        payload == ChipEntry(f).payload
    IN  /\ depth \in Nat \ {0} /\ payload \in Nat /\ payload % 4 = 0
        /\ ChipBase(f) \in Nat /\ ChipBase(f) % 4 = 0 /\ FirstWord(f) \in Nat
        /\ ChipBase(f) + depth * (8 + payload) <= RAM_SIZE
        /\ EndWord(f) <= RAM_SIZE \div 4
        /\ \A g \in Configured : f # g =>
              EndWord(f) <= FirstWord(g) \/ EndWord(g) <= FirstWord(f)

(* Spec => []SuitsPaths: what the theorems about transmit and receive      *)
(* assume of the layout holds of the FIFOs that apply_layout leaves on the *)
(* chip, whatever layout the planner accepted, as long as it numbers its   *)
(* FIFOs without a gap and names every FIFO left from an earlier layout.   *)
THEOREM PathsAreSuited == Spec => []SuitsPaths
<1>1. ASSUME LayoutInv, res = "Ok", Contiguous, InUse = Configured, NEW f \in Configured
      PROVE  /\ f \in FifoNos /\ ChipEntry(f) = entries[f]
             /\ entries[f].depth \in 1 .. 32 /\ entries[f].payload \in Payloads
             /\ ChipBase(f) \in Nat /\ ChipBase(f) % 4 = 0
  <2>1. f \in FifoNos /\ entries[f] # NoEntry  BY <1>1 DEF Configured
  <2>2. entries[f] \in Entries \cup {NoEntry} /\ entries[f].depth \in 1 .. 32
    BY <1>1, <2>1 DEF LayoutInv, PlanInv
  <2>3. PICK q, below : q = Quarters(entries) /\ below = {g \in Configured : g < f}  OBVIOUS
  <2>4. \A x \in FifoNos : q[x] \in Nat  BY <1>1, <2>3, QuarterTypes DEF LayoutInv, PlanInv
  <2>5. below \in SUBSET FifoNos  BY <2>3 DEF Configured
  <2>6. Total(q, below) \in Nat  BY <2>4, <2>5, FifosFinite, TotalType
  <2>7. ChipBase(f) = 4 * Total(q, below)  BY <1>1, <2>1, <2>3, BaseIsTotal
  <2>8. ChipBase(f) \in Nat /\ ChipBase(f) % 4 = 0  BY <2>6, <2>7
  <2>9. ChipEntry(f) = entries[f]  BY <1>1 DEF LayoutInv, ChipInv
  <2>. QED  BY <2>1, <2>2, <2>8, <2>9, EntryFields
<1>2. ASSUME LayoutInv, res = "Ok", Contiguous, InUse = Configured, NEW f \in Configured,
             NEW depth, depth = ChipEntry(f).depth, NEW payload, payload = ChipEntry(f).payload
      PROVE  /\ depth \in Nat \ {0} /\ payload \in Nat /\ payload % 4 = 0
             /\ FirstWord(f) \in Nat /\ 4 * FirstWord(f) = ChipBase(f)
             /\ EndWord(f) \in Nat /\ 4 * EndWord(f) = ChipBase(f) + depth * (8 + payload)
  <2>1. PICK b : b = ChipBase(f)  OBVIOUS
  <2>2. b \in Nat /\ b % 4 = 0 /\ depth \in 1 .. 32 /\ payload \in Payloads  BY <1>1, <1>2, <2>1
  <2>3. payload % 4 = 0 /\ payload \in Nat  BY <2>2 DEF Payloads
  <2>4. /\ b \div 4 \in Nat /\ 4 * (b \div 4) = b  BY <2>2
  <2>5. /\ depth * (2 + payload \div 4) \in Nat
        /\ 4 * (depth * (2 + payload \div 4)) = depth * (8 + payload)
    BY <2>2 DEF Payloads
  <2>. QED  BY <1>2, <2>1, <2>2, <2>3, <2>4, <2>5 DEF FirstWord, EndWord
<1>3. ASSUME LayoutInv, res = "Ok", Contiguous, InUse = Configured, NEW f \in Configured
      PROVE  /\ 4 * EndWord(f) <= RAM_SIZE
             /\ \A g \in Configured : g > f => 4 * EndWord(f) <= 4 * FirstWord(g)
  <2>1. 4 * EndWord(f) = ChipBase(f) + entries[f].depth * (8 + entries[f].payload)
    BY <1>1, <1>2, <1>3
  <2>2. /\ ChipBase(f) + entries[f].depth * (8 + entries[f].payload) <= RAM_SIZE
        /\ \A g \in Configured : g > f =>
              ChipBase(f) + entries[f].depth * (8 + entries[f].payload) <= ChipBase(g)
    BY <1>3, FitHolds DEF ElementsFit
  <2>3. \A g \in Configured : 4 * FirstWord(g) = ChipBase(g)  BY <1>2, <1>3
  <2>. QED  BY <2>1, <2>2, <2>3
<1>4. ASSUME LayoutInv, res = "Ok", Contiguous, InUse = Configured,
             NEW f \in Configured, NEW g \in Configured, f # g
      PROVE  EndWord(f) <= FirstWord(g) \/ EndWord(g) <= FirstWord(f)
  <2>1. f \in 1 .. 31 /\ g \in 1 .. 31  BY <1>1, <1>4, FifosFinite
  <2>2. f < g \/ g < f  BY <1>4, <2>1
  <2>3. /\ EndWord(f) \in Nat /\ EndWord(g) \in Nat
        /\ FirstWord(f) \in Nat /\ FirstWord(g) \in Nat
    BY <1>2, <1>4
  <2>4. CASE f < g
    <3>1. 4 * EndWord(f) <= 4 * FirstWord(g)  BY <1>3, <1>4, <2>1, <2>4
    <3>. QED  BY <2>3, <3>1
  <2>5. CASE g < f
    <3>1. 4 * EndWord(g) <= 4 * FirstWord(f)  BY <1>3, <1>4, <2>1, <2>5
    <3>. QED  BY <2>3, <3>1
  <2>. QED  BY <2>2, <2>4, <2>5
<1>5. LayoutInv => SuitsPaths
  <2>. SUFFICES ASSUME LayoutInv, res = "Ok", Contiguous, InUse = Configured, NEW f \in Configured,
                       NEW depth, depth = ChipEntry(f).depth, NEW payload, payload = ChipEntry(f).payload
                PROVE  /\ depth \in Nat \ {0} /\ payload \in Nat /\ payload % 4 = 0
                       /\ ChipBase(f) \in Nat /\ ChipBase(f) % 4 = 0 /\ FirstWord(f) \in Nat
                       /\ ChipBase(f) + depth * (8 + payload) <= RAM_SIZE
                       /\ EndWord(f) <= RAM_SIZE \div 4
                       /\ \A g \in Configured : f # g =>
                             EndWord(f) <= FirstWord(g) \/ EndWord(g) <= FirstWord(f)
    BY DEF SuitsPaths
  <2>1. /\ depth \in Nat \ {0} /\ payload \in Nat /\ payload % 4 = 0
        /\ FirstWord(f) \in Nat
        /\ EndWord(f) \in Nat /\ 4 * EndWord(f) = ChipBase(f) + depth * (8 + payload)
    BY <1>2
  <2>2. ChipBase(f) \in Nat /\ ChipBase(f) % 4 = 0  BY <1>1
  <2>3. 4 * EndWord(f) <= RAM_SIZE  BY <1>3
  <2>4. EndWord(f) <= RAM_SIZE \div 4  BY <2>1, <2>3 DEF RAM_SIZE
  <2>5. ChipBase(f) + depth * (8 + payload) <= RAM_SIZE  BY <2>1, <2>3
  <2>. QED  BY <1>4, <2>1, <2>2, <2>4, <2>5
<1>. QED  BY <1>5, LayoutHolds, PTL
=============================================================================
