------------------------------ MODULE TestBench ------------------------------
(***************************************************************************)
(* The test programs of TestPrograms on chips that a driver with one of    *)
(* several bugs, or with none, controls: does a program report the bugs it *)
(* is for, only those, and on evidence that is its own?  Calls fail, with  *)
(* and without their effect; frames arrive at any time after they were     *)
(* queued.                                                                 *)
(***************************************************************************)
EXTENDS TestPrograms, FiniteSetsExt

CONSTANTS Programs,   \* names of the programs to run
          Rounds,     \* rounds, cycles or frames of a program that repeats
          Others,     \* bugs besides those the programs claim to notice
          Dlcs,       \* the length codes of remote.rs
          Counters,   \* values the counter of soak.rs takes before it starts again
          MaxErrs     \* driver calls that fail in one pass

ASSUME BenchAssumption == Rounds \in Nat \ {0} /\ Counters \in Nat \ {0} /\ MaxErrs \in Nat

Configures == {"mode", "init", "filter", "clear"}
Sends      == {"send", "push", "one_frame", "batch"}

VARIABLES prog,     \* the program
          bug,      \* the bug of the driver
          pc,       \* its step; 0 when the pass is given up
          chip,     \* the chips
          sent,     \* the frame sent last
          got,      \* the identifiers collected from each chip
          count,    \* the counter of soak.rs
          failed,   \* this pass has reported a failure
          errs,     \* driver calls that failed in this pass
          past,     \* and in the one before
          earned    \* no comparison has succeeded on a frame that was sent earlier
vars == <<prog, bug, pc, chip, sent, got, count, failed, errs, past, earned>>

Code == [multinode |-> Multinode(Rounds), chip2chip |-> Chip2Chip, loopback |-> Loopback,
         filters |-> FiltersMain, extended |-> ExtendedMain, remote |-> RemoteMain(Dlcs),
         layouts |-> LayoutsMain, soak |-> Soak(Rounds), batch |-> BatchMain(Rounds)]

(* The scripts, but that of soak.rs, are such that what is compared was    *)
(* sent just before, behind the last flush of each chip, and unlike all    *)
(* that was sent since; OkIsEarned rests on that.                          *)
Alike(f, g, cmp) == ("id" \in cmp => f.id = g.id) /\ ("data" \in cmp => f.data = g.data)
Like(s, frame, m, k) == Alike(frame, s[m].x, s[k].x.cmp)
Compares(step) == step.do = "recv" /\ step.x.cmp # {} /\ "never" \notin step.x.cmp

(* The steps lo + 1 .. hi are reached only by a success of step lo.        *)
OnlyThrough(s, first, lo, hi) ==
  /\ first < lo
  /\ \A i \in 1 .. lo : LET n == s[i].err.skip IN n = 0 \/ i + n <= lo \/ i + n > hi

SendOf(s, first, m, k) ==
  /\ m < k /\ s[m].do = "send"
  /\ \A i \in m + 1 .. k : s[i].do \notin Sends
  /\ OnlyThrough(s, first, m, k)

FlushOf(s, first, b, c, m, k) ==
  /\ b < m /\ s[b].do = "layout" /\ s[b].c = c /\ OnlyThrough(s, first, b, k)
  /\ \A i \in b + 1 .. m - 1 :
       s[i].do \in Sends => s[i].do = "send" /\ ~Like(s, s[i].x, m, k)

Emptied(s, first, chips, r, m, k) ==
  /\ FlushOf(s, first, r, s[k].c, m, k) /\ s[k].x.f \in DOMAIN s[r].x.rx
  /\ \A c \in 1 .. chips : \E b \in 1 .. r : FlushOf(s, first, b, c, m, k)

Clean(s, first, chips) ==
  \A k \in DOMAIN s : Compares(s[k]) =>
    \E m \in 1 .. k - 1 : /\ SendOf(s, first, m, k)
                          /\ \E r \in 1 .. m - 1 : Emptied(s, first, chips, r, m, k)

IdType    == [ext : BOOLEAN, sid : Nat, eid : Nat]
FrameType == [id : IdType, data : [kind : {"classic", "fd", "remote"}, n : Nat]]

WellFormed(s, chips) == \A i \in DOMAIN s :
  /\ s[i].do \in (Configures \ {"clear"}) \cup
       {"layout", "send", "batch", "settle", "recv", "drain", "collect", "expect", "stop"}
  /\ s[i].c \in 1 .. chips /\ s[i].err \in [fail : BOOLEAN, skip : Nat]
  /\ s[i].do = "send" => s[i].x \in FrameType
  /\ s[i].do = "batch" => s[i].x \in Seq(FrameType)
  /\ s[i].do = "layout" => s[i].x \in [tx : Nat, rx : Seq(Nat)]
  /\ s[i].do = "recv" => s[i].x.f \in 1 .. 6
  /\ s[i].do = "drain" => s[i].x \in 1 .. 6

Sound(p) ==
  LET s == p.once \o p.loop
  IN  /\ Len(p.once) \in Nat /\ Len(s) \in Nat /\ DOMAIN s = 1 .. Len(s)
      /\ WellFormed(s, p.chips) /\ Clean(s, Len(p.once), p.chips)

ASSUME ScriptsAreSound == \A name \in Programs \ {"soak"} : Sound(Code[name])

(* What the head of each program says it would notice.                     *)
Claims == [multinode |-> {"open", "shut"}, chip2chip |-> {"shut"}, loopback |-> {"shut"},
           filters |-> {"open", "shut", "swapMask"}, extended |-> {"open", "shut"},
           remote |-> {"stale"}, layouts |-> {"leak"}, soak |-> {"repeat"}, batch |-> {}]

First == Len(Code[prog].once)
Steps == Code[prog].once \o Code[prog].loop
Step  == Steps[pc]
Over  == pc \notin DOMAIN Steps
Chips == DOMAIN chip

-----------------------------------------------------------------------------
(* The chips, and the bugs as they show there                               *)

Halves(id) == IF bug = "swapId" /\ id.ext THEN <<id.eid, id.sid>> ELSE <<id.sid, id.eid>>
Compared(rule) == IF bug = "swapMask" /\ rule.masked /\ rule.id.ext
                  THEN <<rule.eid, rule.sid>> ELSE <<rule.sid, rule.eid>>

Agree(how, v, w) == CASE how = "all"  -> v = w
                      [] how = "hi"   -> v \div 2 = w \div 2
                      [] how = "none" -> TRUE

Match(rule, id) ==
  \/ bug = "open"
  \/ /\ bug # "shut"
     /\ rule.kind /\ bug # "nokind" => rule.id.ext = id.ext
     /\ \A h \in {1, 2} : (h = 1 \/ id.ext) =>
          Agree(Compared(rule)[h], Halves(rule.id)[h], Halves(id)[h])

NoFifo  == [q |-> <<>>, depth |-> 0, over |-> FALSE, tail |-> 0, used |-> {}]
Fifo(d) == [NoFifo EXCEPT !.depth = d]
Blank   == [mode |-> "Configuration", tx |-> <<>>, room |-> 0,
            rx |-> [f \in 1 .. 6 |-> NoFifo], flt |-> [k \in 0 .. 5 |-> {}]]

(* A frame in a chip, and whether it is the one sent last.                 *)
Marked(frame, new) == [id |-> frame.id, data |-> frame.data, new |-> new]

(* What an earlier program may have left in a chip.                        *)
Left == [Blank EXCEPT !.mode = "InternalLoopback", !.room = 4, !.flt[1] = {[rule |-> AcceptAll, f |-> 1]},
           !.rx[1] = [Fifo(8) EXCEPT !.q = << Marked(Classic(Std(1), 0), FALSE) >>]]

(* A frame stored in FIFO r.  A remote frame does not overwrite the data   *)
(* in its slot; a driver that reads them takes them for its own.           *)
Put(r, frame) ==
  LET remote == frame.data.kind = "remote"
      read   == IF bug = "stale" /\ remote /\ r.tail \in r.used
                THEN [frame EXCEPT !.data.kind = "stale"] ELSE frame
  IN  IF r.depth = 0 THEN r
      ELSE IF Len(r.q) = r.depth THEN [r EXCEPT !.over = TRUE]
      ELSE IF bug # "stale" THEN [r EXCEPT !.q = Append(@, frame)]
      ELSE [r EXCEPT !.q = Append(@, read), !.tail = (@ + 1) % r.depth,
                     !.used = IF remote THEN @ ELSE @ \cup {r.tail}]

Taken(r) == IF bug = "repeat" THEN r ELSE [r EXCEPT !.q = Tail(@)]

(* The FIFOs a frame reaches: those of the first filter that it hits.      *)
Targets(c, id) ==
  LET hits == {k \in DOMAIN chip[c].flt : \E on \in chip[c].flt[k] : Match(on.rule, id)}
      on   == CHOOSE on \in chip[c].flt[Min(hits)] : TRUE
  IN  IF hits = {} THEN {} ELSE {on.f} \cup IF bug = "leak" THEN {on.f + 1} ELSE {}

(* In loopback a chip hears itself; on the bus the others hear it, one of  *)
(* them at least, or the frame waits.                                      *)
Normal == {c \in Chips : chip[c].mode \in {"NormalFd", "Normal20"}}
Hearers(c) == IF chip[c].mode = "InternalLoopback" THEN {c}
              ELSE IF c \in Normal THEN Normal \ {c} ELSE {}
CanDeliver(c) == chip[c].tx # <<>> /\ Hearers(c) # {}
Quiet == \A c \in Chips : ~CanDeliver(c)

Hears(r, to, frame) ==
  [r EXCEPT !.rx = [f \in DOMAIN @ |-> IF f \in to THEN Put(@[f], frame) ELSE @[f]]]

Deliver(c) ==
  /\ CanDeliver(c)
  /\ LET frame == Head(chip[c].tx) IN
       chip' = [d \in Chips |->
         LET gone == IF d = c THEN [chip[d] EXCEPT !.tx = Tail(@)] ELSE chip[d]
             to   == IF d \in Hearers(c) THEN Targets(d, frame.id) ELSE {}
         IN  Hears(gone, to, frame)]
  /\ UNCHANGED <<prog, bug, pc, sent, got, count, failed, errs, past, earned>>

-----------------------------------------------------------------------------
(* The chips after a driver call                                            *)

Own(s) == IF s.do = "one_frame" THEN CountedFrame(count)
          ELSE IF s.do = "push" THEN s.x.frame ELSE s.x
Full(c) == Len(chip[c].tx) = chip[c].room

(* Frames sent earlier are not new any more once the next is to be sent.   *)
Old(q)  == [i \in DOMAIN q |-> Marked(q[i], FALSE)]
OldFifo(r) == [r EXCEPT !.q = Old(@)]
Aged(r) == [r EXCEPT !.tx = Old(@), !.rx = [f \in DOMAIN @ |-> OldFifo(@[f])]]
Queued(r, frames) == [r EXCEPT !.tx = @ \o [i \in DOMAIN frames |-> Marked(frames[i], TRUE)]]

(* RESET may be ignored outside Configuration mode, and is taken to be,    *)
(* the case that matters; init asks for that mode later.                   *)
Initialised(r) == IF r.mode = "Configuration" THEN Blank
                  ELSE [r EXCEPT !.mode = "Configuration", !.tx = <<>>]

(* FRESET empties the FIFOs of the layout, and those only.                 *)
LaidOut(r, l) == [r EXCEPT !.tx = <<>>, !.room = l.tx,
                    !.rx = [f \in DOMAIN @ |-> IF f \in DOMAIN l.rx THEN Fifo(l.rx[f]) ELSE @[f]]]

Accepted(r, frames) == SubSeq(frames, 1, Min({Len(frames), r.room - Len(r.tx)}))

(* What a call makes of its chip r.                                        *)
Made(s, r) ==
  CASE s.do = "mode"   -> [r EXCEPT !.mode = s.x, !.tx = IF s.x = "Configuration" THEN <<>> ELSE @]
    [] s.do = "init"   -> Initialised(r)
    [] s.do = "layout" -> LaidOut(r, s.x)
    [] s.do = "filter" -> [r EXCEPT !.flt[s.x.k] = s.x.on]
    [] s.do \in {"send", "push", "one_frame"} -> Queued(r, <<Own(s)>>)
    [] s.do = "batch"  -> Queued(r, Accepted(r, s.x))
    [] s.do = "clear"  -> [r EXCEPT !.rx[1].over = FALSE]
    [] s.do = "status" -> r

Before(s) == IF s.do \in Sends THEN [c \in Chips |-> Aged(chip[c])] ELSE chip
After(s)  == [Before(s) EXCEPT ![s.c] = Made(s, @)]

(* What the driver itself refuses: a layout outside Configuration mode, a  *)
(* frame for a full FIFO.  A batch returns how many frames it accepted.    *)
Refused(s) == \/ s.do = "layout" /\ chip[s.c].mode # "Configuration"
              \/ s.do \in {"send", "push", "one_frame"} /\ Full(s.c)

-----------------------------------------------------------------------------
(* The steps of a program                                                   *)

Follow(policy) ==
  /\ pc' = IF policy.skip = 0 THEN 0 ELSE pc + policy.skip
  /\ failed' = (failed \/ policy.fail)

At(dos) == ~Over /\ Step.do \in dos
Keeps   == UNCHANGED <<prog, bug, past, earned>>
Counted == count' = IF Step.do = "one_frame" THEN (count + 1) % Counters ELSE count
Sent    == sent' = IF Step.do \in Sends \ {"batch"} THEN Own(Step) ELSE sent

Succeeds ==
  /\ At(Configures \cup Sends \cup {"layout"}) /\ ~Refused(Step)
  /\ chip' = After(Step)
  /\ Follow(Ignore) /\ Counted /\ Sent
  /\ UNCHANGED <<got, errs>> /\ Keeps

IsRefused ==
  /\ At(Sends \cup {"layout"}) /\ Refused(Step)
  /\ Follow(CASE Step.do = "push" -> Step.x.full
              [] Step.do = "one_frame" -> Step.x
              [] OTHER -> Step.err)
  /\ Counted
  /\ UNCHANGED <<chip, sent, got, errs>> /\ Keeps

(* The transfer fails before, or only after, it had its effect.            *)
Fails ==
  /\ At(Configures \cup Sends \cup {"layout", "status"}) /\ ~Refused(Step) /\ errs < MaxErrs
  /\ chip' \in {Before(Step), After(Step)}
  /\ errs' = errs + 1 /\ Follow(Step.err) /\ Counted /\ Sent
  /\ UNCHANGED got /\ Keeps

Status ==
  /\ At({"status"})
  /\ Follow(IF chip[Step.c].rx[1].over THEN Step.x.set ELSE Step.x.clear)
  /\ UNCHANGED <<chip, sent, got, count, errs>> /\ Keeps

Waits ==
  /\ At({"settle"}) /\ Quiet
  /\ Follow(Ignore)
  /\ UNCHANGED <<chip, sent, got, count, errs>> /\ Keeps

Queue(f) == chip[Step.c].rx[f].q
Take(f)  == chip' = [chip EXCEPT ![Step.c].rx[f] = Taken(@)]

(* Does the frame agree with the one sent last in what the program looks   *)
(* at?                                                                     *)
Agrees(frame, cmp) == "never" \notin cmp /\ Alike(frame, sent, cmp)

Received ==
  /\ At({"recv"}) /\ Queue(Step.x.f) # <<>>
  /\ LET frame == Head(Queue(Step.x.f))
         ok    == Agrees(frame, Step.x.cmp)
     IN  /\ Follow(IF ok THEN Ignore ELSE Fail(1))
         /\ earned' = (earned /\ (ok /\ Step.x.cmp # {} => frame.new))
  /\ Take(Step.x.f)
  /\ UNCHANGED <<prog, bug, sent, got, count, errs, past>>

(* The time is up only when nothing is on its way any more.                *)
TimesOut ==
  /\ At({"recv"}) /\ Queue(Step.x.f) = <<>> /\ Quiet
  /\ Follow(Step.err)
  /\ UNCHANGED <<chip, sent, got, count, errs>> /\ Keeps

(* A receive that fails ends a wait, a drain and a collection alike.       *)
ReceiveFails ==
  /\ At({"recv", "drain", "collect"}) /\ errs < MaxErrs
  /\ LET f == CASE Step.do = "recv" -> Step.x.f [] Step.do = "drain" -> Step.x [] OTHER -> 1
     IN  chip' = chip \/ (Queue(f) # <<>> /\ Take(f))
  /\ errs' = errs + 1 /\ Follow(Step.err)
  /\ UNCHANGED <<sent, got, count>> /\ Keeps

(* What is there is taken, as many as one drain takes at most; a frame     *)
(* that is still on its way is left.                                       *)
Drains ==
  /\ At({"drain"})
  /\ chip' = IF bug = "repeat" THEN chip ELSE [chip EXCEPT ![Step.c].rx[Step.x].q = <<>>]
  /\ Follow(Ignore)
  /\ UNCHANGED <<sent, got, count, errs>> /\ Keeps

Collects ==
  /\ At({"collect"}) /\ Queue(1) # <<>>
  /\ Take(1)
  /\ got' = [got EXCEPT ![Step.c] = Append(@, Head(Queue(1)).id)]
  /\ pc' = IF Len(got'[Step.c]) = Step.x THEN pc + 1 ELSE pc
  /\ UNCHANGED <<sent, count, failed, errs>> /\ Keeps

CollectTimesOut ==
  /\ At({"collect"}) /\ Queue(1) = <<>> /\ Quiet
  /\ Follow(Ignore)
  /\ UNCHANGED <<chip, sent, got, count, errs>> /\ Keeps

Expects ==
  /\ At({"expect"})
  /\ LET ids == got[Step.c]
     IN  Follow(IF Len(ids) = Step.x.n /\ Step.x.ids \subseteq ToSet(ids) THEN Ignore ELSE Fail(1))
  /\ got' = [got EXCEPT ![Step.c] = <<>>]
  /\ UNCHANGED <<chip, sent, count, errs>> /\ Keeps

Stops ==
  /\ At({"stop"}) /\ pc' = Len(Steps) + 1
  /\ UNCHANGED <<chip, sent, got, count, failed, errs>> /\ Keeps

(* The next pass.  A program that gave up before its loop starts again.    *)
NextPass ==
  /\ Over
  /\ pc' = IF pc = 0 THEN 1 ELSE First + 1
  /\ failed' = FALSE /\ errs' = 0 /\ past' = errs /\ got' = [c \in Chips |-> <<>>]
  /\ UNCHANGED <<prog, bug, chip, sent, count, earned>>

Init ==
  /\ prog \in Programs
  /\ bug \in {"none"} \cup Claims[prog] \cup Others
  /\ \E state \in {Blank, Left} : chip = [c \in 1 .. Code[prog].chips |-> state]
  /\ pc = 1 /\ sent = Classic(Std(0), 0) /\ got = [c \in 1 .. Code[prog].chips |-> <<>>]
  /\ count = 0 /\ failed = FALSE /\ errs = 0 /\ past = 0 /\ earned = TRUE

Next ==
  \/ \E c \in Chips : Deliver(c)
  \/ Succeeds \/ IsRefused \/ Fails \/ Status \/ Waits \/ Received \/ TimesOut \/ ReceiveFails
  \/ Drains \/ Collects \/ CollectTimesOut \/ Expects \/ Stops \/ NextPass

Spec == Init /\ [][Next]_vars

-----------------------------------------------------------------------------
(* A whole pass in which no call failed.                                   *)
CleanPass == Over /\ errs = 0

(* A program notices the bugs it is there for, in any pass in which no     *)
(* call failed and whatever it found in the chips: filters.rs the mask     *)
(* packed into the wrong half and the filter that is wide open, remote.rs  *)
(* the data left in the slot, layouts.rs the frame in a neighbouring FIFO, *)
(* soak.rs the frame delivered again.                                      *)
CatchesBugs == CleanPass /\ bug \in Claims[prog] => failed

(* With a correct driver a pass without a failed call reports nothing: no  *)
(* check stumbles over what an earlier part of the program, an earlier     *)
(* pass or an earlier program left in the chip.  A cycle of soak.rs begins *)
(* without init, so a failed call may still show in the next one.          *)
NoFalseAlarm == CleanPass /\ bug = "none" /\ (prog = "soak" => past = 0) => ~failed

(* No program takes an earlier frame for the one it has just sent, even    *)
(* when calls failed and left frames behind (soak.rs: "a fixed payload     *)
(* would match its own predecessor").                                      *)
OkIsEarned == bug # "repeat" => earned

(* The head of extended.rs: it verifies the split of the identifier into   *)
(* its two halves and the distinction of standard and extended ones.       *)
SplitVerified == CleanPass /\ prog = "extended" /\ bug \in {"swapId", "nokind"} => failed
=============================================================================
