---------------------------- MODULE TestPrograms ----------------------------
(***************************************************************************)
(* The on-board test programs (examples/rp2040/src/bin) as sequences of    *)
(* driver calls.  A call names the chip, its argument, and what the        *)
(* program does when the call returns Err.  TestBench runs them.  The chip *)
(* numbers are 1, 2 and 3, receive FIFO F2 is number 1, F3 number 2, ...   *)
(***************************************************************************)
EXTENDS Integers, Sequences, SequencesExt

(* Identifiers by their halves; the digit v stands for the high part       *)
(* v \div 2 and the low part v % 2 of a half.  A standard identifier has   *)
(* no second half.                                                         *)
Std(s)    == [ext |-> FALSE, sid |-> s, eid |-> 0]
Ext(s, e) == [ext |-> TRUE, sid |-> s, eid |-> e]

(* A filter compares all of a half, its high part, or nothing of it;       *)
(* masked tells with_mask from exact, which take different ways to pack.   *)
Rule(id, s, e, k, m) == [id |-> id, sid |-> s, eid |-> e, kind |-> k, masked |-> m]
Exact(id)          == Rule(id, "all", IF id.ext THEN "all" ELSE "none", TRUE, FALSE)
WithMask(id, s, e) == Rule(id, s, e, TRUE, TRUE)
AcceptAll          == Rule(Std(0), "none", "none", FALSE, FALSE)

Data(id, kind, n) == [id |-> id, data |-> [kind |-> kind, n |-> n]]
Classic(id, n)    == Data(id, "classic", n)
Fd(id, n)         == Data(id, "fd", n)
Remote(id, dlc)   == Data(id, "remote", dlc)

(* What follows a call that did not go as hoped: whether the program says  *)
(* that something failed, and how many steps it advances; 0 gives the pass *)
(* up.                                                                     *)
Abort   == [fail |-> TRUE, skip |-> 0]
Ignore  == [fail |-> FALSE, skip |-> 1]
Fail(n) == [fail |-> TRUE, skip |-> n]
Skip(n) == [fail |-> FALSE, skip |-> n]

Call(do, c, x, err)           == [do |-> do, c |-> c, x |-> x, err |-> err]
SetMode(c, m, err)            == Call("mode", c, m, err)
InitChip(c, err)              == Call("init", c, 0, err)
ApplyLayout(c, layout, err)   == Call("layout", c, layout, err)
SetFilter(c, k, rule, f, err) == Call("filter", c, [k |-> k, on |-> {[rule |-> rule, f |-> f]}], err)
DisableFilter(c, k, err)      == Call("filter", c, [k |-> k, on |-> {}], err)
Send(c, frame, err)           == Call("send", c, frame, err)

(* Receive from FIFO f for a while: err says what follows when the time is *)
(* up or the call failed; a frame must agree with the one sent last in     *)
(* what cmp names, where "never" says that none is wanted.                 *)
RecvOr(c, f, cmp, err) == Call("recv", c, [f |-> f, cmp |-> cmp], err)
Recv(c, f, cmp)        == RecvOr(c, f, cmp, Fail(1))
RecvNone(c, f)         == RecvOr(c, f, {"never"}, Ignore)
Drain(c, f)            == Call("drain", c, f, Ignore)
Settle(c)              == Call("settle", c, 0, Ignore)

(* Collect up to n identifiers; later expect n of them, with ids in it.    *)
Collect(c, n)     == Call("collect", c, n, Ignore)
Expect(c, n, ids) == Call("expect", c, [n |-> n, ids |-> ids], Fail(1))

(* A program: its chips, what it does once, what it repeats.               *)
Program(chips, once, loop) == [chips |-> chips, once |-> once, loop |-> loop]

(* A layout: depth of the transmit FIFO F1, and of F2, F3, ...             *)
Layout(tx, rx) == [tx |-> tx, rx |-> rx]

(* The configuration calls of a program; err[n] when n of its steps are    *)
(* left.                                                                   *)
Configure(c, layout, rule, mode, err) ==
  << SetMode(c, "Configuration", err[4]), ApplyLayout(c, layout, err[3]),
     SetFilter(c, 0, rule, 1, err[2]), SetMode(c, mode, err[1]) >>

NotEnsured(c) == <<>>   \* mutant
EnsureConfiguration(c) == << SetMode(c, "Configuration", Ignore) >>

ArmFilter(layout, rule, err) == Configure(1, layout, rule, "InternalLoopback", err)

-----------------------------------------------------------------------------
(* multinode.rs: chips A = 1, B = 2, C = 3 on one bus                       *)

BROADCAST == Std(3)
MultinodeLayout == Layout(8, <<16>>)

MultinodeBringUp(c) ==
  EnsureConfiguration(c) \o
  << InitChip(c, Abort), ApplyLayout(c, MultinodeLayout, Abort),
     SetFilter(c, 0, AcceptAll, 1, Abort), SetMode(c, "Normal20", Abort) >>

TestBroadcast ==
  << Send(1, Classic(Std(0), 0), Abort),
     Collect(2, 1), Collect(3, 1), Expect(2, 1, {Std(0)}), Expect(3, 1, {Std(0)}) >>

TestSelective(c, own) ==
  << SetMode(c, "Configuration", Abort), ApplyLayout(c, MultinodeLayout, Abort),
     SetFilter(c, 0, Exact(own), 1, Abort), SetFilter(c, 1, Exact(BROADCAST), 1, Abort),
     SetMode(c, "Normal20", Abort) >>

RunAll(rounds) ==
  FlattenSeq([c \in 1 .. 3 |-> MultinodeBringUp(c)])
  \o TestBroadcast \o TestSelective(2, Std(1)) \o TestSelective(3, Std(2))
  \o << Send(1, Classic(Std(1), 1), Abort), Send(1, Classic(Std(2), 2), Abort),
        Send(1, Classic(BROADCAST, 3), Abort),
        Collect(2, 3), Collect(3, 3),
        Expect(2, 2, {Std(1), BROADCAST}), Expect(3, 2, {Std(2), BROADCAST}) >>
  \o << SetMode(3, "Configuration", Abort), ApplyLayout(3, MultinodeLayout, Abort),
        SetFilter(3, 0, AcceptAll, 1, Abort), DisableFilter(3, 1, Abort),
        SetMode(3, "Normal20", Abort) >>
  \o FlattenSeq([r \in 1 .. rounds |->
        << Send(2, Classic(Std(3), r), Abort), Send(1, Classic(Std(0), r), Abort),
           Collect(3, 2), Expect(3, 2, {}) >>])

Multinode(rounds) == Program(3, <<>>, RunAll(rounds))

-----------------------------------------------------------------------------
(* chip2chip.rs and loopback.rs: one classic, one FD frame                  *)

PairLayout == Layout(4, <<8>>)

Chip2ChipBringUp(c, err) ==
  EnsureConfiguration(c)
  \o << InitChip(c, err[4]), ApplyLayout(c, PairLayout, err[3]),
        SetFilter(c, 0, AcceptAll, 1, err[2]), SetMode(c, "NormalFd", err[1]) >>

Chip2ChipTest ==
  << Send(1, Classic(Std(1), 0), Abort), Recv(2, 1, {"data"}),
     Send(1, Fd(Std(2), 0), Abort), Recv(2, 1, {"data"}) >>

(* B is brought up even if A was not, but then there is no test.           *)
Chip2Chip ==
  LET GiveUp   == [n \in 1 .. 4 |-> Abort]
      BringUpB == Chip2ChipBringUp(2, GiveUp)
      WithoutA == [n \in 1 .. 4 |-> Fail(n + Len(BringUpB) + Len(Chip2ChipTest) + 1)]
  IN  Program(2, <<>>, Chip2ChipBringUp(1, WithoutA) \o BringUpB \o Chip2ChipTest
                       \o << Call("stop", 1, 0, Ignore) >> \o BringUpB)

LoopbackTest ==
  << ApplyLayout(1, PairLayout, Abort), SetFilter(1, 0, AcceptAll, 1, Abort),
     SetMode(1, "InternalLoopback", Abort),
     Send(1, Classic(Std(1), 0), Abort), Recv(1, 1, {"data"}),
     Send(1, Fd(Std(2), 0), Abort), Recv(1, 1, {"data"}) >>

Loopback == Program(1, <<>>, EnsureConfiguration(1) \o << InitChip(1, Abort) >> \o LoopbackTest)

-----------------------------------------------------------------------------
(* filters.rs: accepted and rejected identifiers under with_mask            *)

FiltersLayout == Layout(4, <<8>>)

(* A failed transmit, or a failed receive, counts as not delivered. *)
Delivered(id, own) ==
  << Send(1, Classic(id, 0), [fail |-> own, skip |-> 2]),
     IF own THEN Recv(1, 1, {"id"}) ELSE RecvNone(1, 1) >>

Armed(rule, checks) ==
  LET GiveUp == [n \in 1 .. 4 |-> Fail(n + Len(checks))]
  IN  ArmFilter(FiltersLayout, rule, GiveUp) \o checks

(* mutant: the cases without their rejected identifiers *)
RunCaseAcceptOnly(rule, accept, reject) ==
  Armed(rule, FlattenSeq([i \in DOMAIN accept |-> Delivered(accept[i], TRUE)]))

RunCase(rule, accept, reject) ==
  Armed(rule, FlattenSeq([i \in DOMAIN accept |-> Delivered(accept[i], TRUE)])
              \o FlattenSeq([i \in DOMAIN reject |-> Delivered(reject[i], FALSE)]))

FilterCases ==
     RunCase(WithMask(Std(2), "hi", "none"), <<Std(2), Std(3)>>, <<Std(0), Std(1)>>)
  \o RunCase(WithMask(Ext(2, 2), "all", "hi"), <<Ext(2, 2), Ext(2, 3)>>, <<Ext(2, 0)>>)
  \o RunCase(WithMask(Ext(3, 0), "all", "none"), <<Ext(3, 0), Ext(3, 3), Ext(3, 1)>>,
                                                 <<Ext(1, 0), Ext(0, 0)>>)
  \o RunCase(WithMask(Ext(0, 2), "none", "all"), <<Ext(0, 2), Ext(3, 2), Ext(1, 2)>>,
                                                 <<Ext(0, 3), Ext(0, 0)>>)
  \o RunCase(AcceptAll, <<Std(1), Ext(1, 2)>>, <<>>)

FiltersMain ==
  Program(1, <<>>, EnsureConfiguration(1) \o << InitChip(1, Abort) >> \o FilterCases
                   \o << SetMode(1, "Configuration", Ignore) >>)

-----------------------------------------------------------------------------
(* extended.rs: 29-bit identifiers through exact filters                    *)

Attempt(filter, id, own) ==
  LET GiveUp == [n \in 1 .. 4 |-> [fail |-> own, skip |-> n + 2]]
  IN  ArmFilter(FiltersLayout, Exact(filter), GiveUp) \o Delivered(id, own)

ExtendedIds == <<Ext(0, 0), Ext(3, 3), Ext(1, 2), Ext(0, 1), Ext(0, 3), Ext(3, 0), Ext(2, 1)>>

(* The raw value 0x123 is Std(1) or Ext(0, 1).                             *)
ExtendedMain ==
  LET checks == << Send(1, Fd(Ext(2, 2), 0), Fail(2)), Recv(1, 1, {"id", "data"}) >>
      GiveUp == [n \in 1 .. 4 |-> Fail(n + 2)]
  IN  Program(1, <<>>,
        EnsureConfiguration(1) \o << InitChip(1, Abort) >>
        \o FlattenSeq([i \in DOMAIN ExtendedIds |-> Attempt(ExtendedIds[i], ExtendedIds[i], TRUE)])
        \o Attempt(Ext(1, 2), Ext(1, 3), FALSE)
        \o Attempt(Ext(0, 1), Std(1), FALSE) \o Attempt(Std(1), Ext(0, 1), FALSE)
        \o ArmFilter(FiltersLayout, Exact(Ext(2, 2)), GiveUp) \o checks
        \o << SetMode(1, "Configuration", Ignore) >>)

-----------------------------------------------------------------------------
(* remote.rs: remote frames over the poison of a data frame                 *)

(* Depth 1: the remote frame follows a data frame into its slot.           *)
RemoteLayout == Layout(4, <<1>>)

(* A failed transmit of echo is a None like a timeout; any frame is Some.  *)
Echo(frame, cmp, none) ==
  << Send(1, frame, [none EXCEPT !.skip = @ + 1]), RecvOr(1, 1, cmp, none) >>

(* Without the poison in the slot the remote frame is not sent.            *)
RemoteDlc(dlc) ==
  Echo(Classic(Std(1), 0), {}, Fail(3)) \o Echo(Remote(Std(1), dlc), {"id", "data"}, Fail(1))

RemoteMain(dlcs) ==
  LET checks ==
        FlattenSeq([i \in DOMAIN dlcs |-> RemoteDlc(dlcs[i])])
        \o Echo(Classic(Std(1), 1), {"data"}, Fail(1))
        \o Echo(Classic(Ext(1, 2), 0), {}, Ignore)
        \o Echo(Remote(Ext(1, 2), 8), {"id", "data"}, Fail(1))
      GiveUp == [n \in 1 .. 4 |-> Abort]
  IN  Program(1, <<>>,
        EnsureConfiguration(1) \o << InitChip(1, Abort) >>
        \o ArmFilter(RemoteLayout, AcceptAll, GiveUp)
        \o << Drain(1, 1) >> \o checks \o << SetMode(1, "Configuration", Ignore) >>)

-----------------------------------------------------------------------------
(* layouts.rs: a frame in its own FIFO, the others stay empty               *)

MIXED == Layout(2, <<4, 4, 4, 2>>)
WIDE  == Layout(2, <<6, 6, 6, 6, 6, 6>>)

(* Route i leads identifier ids[i] through filter i - 1 to FIFO number i.  *)
MIXED_ROUTES == <<Std(0), Std(1), Std(2), Std(3)>>
WIDE_ROUTES  == <<Std(4), Std(5), Std(6), Std(7), Std(8), Std(9)>>

RouteChecks(ids, i) ==
  LET others == SelectSeq([f \in DOMAIN ids |-> f], LAMBDA f : f # i)
  IN  << Send(1, Classic(ids[i], i), Fail(3 + Len(others))), Settle(1),
         Recv(1, i, {"id", "data"}) >>
      \o [j \in DOMAIN others |-> RecvNone(1, others[j])]

RunLayout(layout, ids) ==
  LET n      == Len(ids)
      checks == [f \in 1 .. n |-> Drain(1, f)]
                \o FlattenSeq([i \in 1 .. n |-> RouteChecks(ids, i)])
      GiveUp(k) == Fail(k + Len(checks))
  IN  << SetMode(1, "Configuration", GiveUp(n + 3)), ApplyLayout(1, layout, GiveUp(n + 2)) >>
      \o [i \in 1 .. n |-> SetFilter(1, i - 1, Exact(ids[i]), i, GiveUp(n + 2 - i))]
      \o << SetMode(1, "InternalLoopback", GiveUp(1)) >> \o checks

LayoutsMain ==
  Program(1, <<>>,
    EnsureConfiguration(1) \o << InitChip(1, Abort) >>
    \o RunLayout(MIXED, MIXED_ROUTES) \o RunLayout(WIDE, WIDE_ROUTES)
    \o RunLayout(MIXED, MIXED_ROUTES) \o << SetMode(1, "Configuration", Ignore) >>)

-----------------------------------------------------------------------------
(* soak.rs: verified frames, then the two probes, for ever                  *)

SoakLayout == Layout(4, <<8>>)

SoakBringUp ==
  EnsureConfiguration(1)
  \o << InitChip(1, Abort), ApplyLayout(1, SoakLayout, Abort),
        SetFilter(1, 0, AcceptAll, 1, Abort), SetMode(1, "InternalLoopback", Abort) >>

(* Identifier and payload come from the running counter of the program.    *)
FixedFrame(n)   == Classic(Std(0), 0)   \* mutant
CountedFrame(n) == Classic(Std(n), n)

(* A full FIFO is no failure, the frame is given up.                       *)
OneFrame == << Call("one_frame", 1, Skip(2), Fail(2)), Recv(1, 1, {"id", "data"}) >>

(* Twelve frames at most, up to the first that finds the FIFO full.        *)
ProbeTxFull ==
  [i \in 1 .. 12 |-> Call("push", 1, [frame |-> Fd(Std(20), 0), full |-> Skip(13 - i)], Ignore)]
  \o << Settle(1), Drain(1, 1) >>

(* Without a status nothing more is done, not even the draining.           *)
ProbeRxOverflow ==
  [i \in 1 .. 14 |-> Call("push", 1, [frame |-> Classic(Std(21), 0), full |-> Skip(1)], Ignore)]
  \o << Settle(1), Call("status", 1, [set |-> Skip(1), clear |-> Skip(4)], Skip(5)),
        Call("clear", 1, 0, Fail(4)), Drain(1, 1),
        Call("status", 1, [set |-> Fail(2), clear |-> Skip(2)], Skip(2)), Drain(1, 1) >>

Soak(framesPerCycle) ==
  Program(1, SoakBringUp \o << Drain(1, 1) >>,
    FlattenSeq([i \in 1 .. framesPerCycle |-> OneFrame]) \o ProbeTxFull \o ProbeRxOverflow)

-----------------------------------------------------------------------------
(* batch.rs: single transmits, batches, and a batch into a short FIFO       *)

LAYOUT  == Layout(16, <<8>>)
SHALLOW == Layout(2, <<8>>)

BatchSetup(layout, rest) ==
  LET GiveUp == [n \in 1 .. 4 |-> Fail(n + rest)] IN Configure(1, layout, AcceptAll, "InternalLoopback", GiveUp)

Batch(n, err) == Call("batch", 1, [i \in 1 .. n |-> Classic(Std(i), i)], err)

PartialFillProbe == BatchSetup(SHALLOW, 1) \o << Batch(4, Fail(1)) >>

BatchMain(cycles) ==
  Program(1,
    EnsureConfiguration(1) \o << InitChip(1, Fail(1)) >> \o BatchSetup(LAYOUT, 0),
    FlattenSeq([i \in 1 .. cycles |->
      [n \in 1 .. 3 |-> Send(1, Classic(Std(n), n), Ignore)] \o << Drain(1, 1) >>])
    \o FlattenSeq([i \in 1 .. cycles |-> << Batch(3, Ignore), Drain(1, 1) >>])
    \o PartialFillProbe \o BatchSetup(LAYOUT, 0))
=============================================================================
