------------------------------ MODULE Filters ------------------------------
(***************************************************************************)
(* The acceptance filters: set_filter rewrites one in four transactions,   *)
(* while the controller routes arriving frames by whatever the registers   *)
(* hold.  Identifiers, CiFLTOBJ and CiMASK are sets of identifier bits.    *)
(***************************************************************************)
EXTENDS Integers

CONSTANTS
  FilterNos,  \* filter numbers, out of 0 .. 31; the lowest match wins
  Targets,    \* receive FIFOs
  IdBits,     \* bits of an identifier
  Faults      \* how an SPI transaction may fail: {"lost", "late"}

ASSUME FilterAssumption ==
  FilterNos \subseteq 0 .. 31 /\ FilterNos # {} /\ Faults \subseteq {"lost", "late"}

VARIABLES
  pc, op, ret,     \* the driver: program point, arguments, last result
  flten, fltobj, mask, target,   \* the chip: enable, CiFLTOBJ, CiMASK, FLTBUF
  asked            \* history: the rules of a filter, before and after the call
driverVars == <<pc, op, ret>>
chipVars == <<flten, fltobj, mask, target>>
vars == <<driverVars, chipVars, asked>>

Rule == [obj : SUBSET IdBits, mask : SUBSET IdBits, target : Targets \cup {0}]
Registers(n) == [obj |-> fltobj[n], mask |-> mask[n], target |-> target[n]]
InForce(n) == IF flten[n] THEN {Registers(n)} ELSE {}

(* (frame_id ^ fltobj) & mask == 0 *)
Match(id, rule) == ((id \ rule.obj) \cup (rule.obj \ id)) \cap rule.mask = {}

NoOp == [filter |-> CHOOSE n \in FilterNos : TRUE, rule |-> CHOOSE r \in Rule : TRUE]

Init ==
  /\ pc = "idle" /\ op = NoOp /\ ret = "none"
  /\ flten = [n \in FilterNos |-> FALSE] /\ fltobj = [n \in FilterNos |-> {}]
  /\ mask = [n \in FilterNos |-> {}] /\ target = [n \in FilterNos |-> 0]
  /\ asked = [n \in FilterNos |-> {}]

SetFilter(n, r) ==
  /\ pc = "idle" /\ r.target \in Targets /\ pc' = "disable"
  /\ op' = [filter |-> n, rule |-> r]
  /\ asked' = [asked EXCEPT ![n] = InForce(n) \cup {r}]
  /\ ret' = "none"
  /\ UNCHANGED chipVars

DisableFilter(n) ==
  /\ pc = "idle" /\ pc' = "disable_only"
  /\ op' = [NoOp EXCEPT !.filter = n]
  /\ asked' = [asked EXCEPT ![n] = InForce(n)]
  /\ ret' = "none"
  /\ UNCHANGED chipVars

(* The write made at each program point, as the chip takes it. *)
DisableNothing == UNCHANGED chipVars     \* mutant
Disable == flten' = [flten EXCEPT ![op.filter] = FALSE]
           /\ target' = [target EXCEPT ![op.filter] = 0]
           /\ UNCHANGED <<fltobj, mask>>
WriteObj == fltobj' = [fltobj EXCEPT ![op.filter] = op.rule.obj]
            /\ UNCHANGED <<flten, mask, target>>
WriteMaskObj == mask' = [mask EXCEPT ![op.filter] = op.rule.obj]     \* mutant
                /\ UNCHANGED <<flten, fltobj, target>>
WriteMask == mask' = [mask EXCEPT ![op.filter] = op.rule.mask]
             /\ UNCHANGED <<flten, fltobj, target>>
Enable == flten' = [flten EXCEPT ![op.filter] = TRUE]
          /\ target' = [target EXCEPT ![op.filter] = op.rule.target]
          /\ UNCHANGED <<fltobj, mask>>

Effect ==
  \/ pc \in {"disable", "disable_only"} /\ Disable
  \/ pc = "obj" /\ WriteObj
  \/ pc = "mask" /\ WriteMask
  \/ pc = "enable" /\ Enable

Return(res) == pc' = "idle" /\ ret' = res /\ UNCHANGED op

Write ==
  /\ pc # "idle" /\ Effect
  /\ \/ pc = "disable" /\ pc' = "obj" /\ UNCHANGED <<op, ret>>
     \/ pc = "obj" /\ pc' = "mask" /\ UNCHANGED <<op, ret>>
     \/ pc = "mask" /\ pc' = "enable" /\ UNCHANGED <<op, ret>>
     \/ pc \in {"enable", "disable_only"} /\ Return(pc)
  /\ UNCHANGED asked

WriteFails ==
  /\ pc # "idle"
  /\ \/ "lost" \in Faults /\ UNCHANGED chipVars
     \/ "late" \in Faults /\ Effect
  /\ Return("spi")
  /\ UNCHANGED asked

(* The controller looks at the filters in their order, at any moment: the  *)
(* filter a frame hits, if any, sends it to that filter's target.          *)
Hit(id) == LET hits == {n \in FilterNos : flten[n] /\ Match(id, Registers(n))}
           IN  {n \in hits : \A m \in hits : n <= m}

Next ==
  \/ \E n \in FilterNos : DisableFilter(n) \/ \E r \in Rule : SetFilter(n, r)
  \/ Write \/ WriteFails

Spec == Init /\ [][Next]_vars

-----------------------------------------------------------------------------
(* A frame is stored only where a whole rule sends it: the one the filter  *)
(* had, or the one it is being given, never by the object of one and the   *)
(* mask or the target of the other, whenever in the rewriting it arrives   *)
(* and whichever transaction of it failed.                                 *)
RoutedByWholeRule == \A id \in SUBSET IdBits : \A n \in Hit(id) :
  \E r \in asked[n] : Match(id, r) /\ target[n] = r.target

(* After the call: the new rule if it returned Ok; if it failed, the old   *)
(* rule, the new one, or none.                                             *)
OutcomeWhole == LET n == op.filter IN
  /\ ret = "enable" => InForce(n) = {op.rule}
  /\ ret = "disable_only" => ~flten[n]
  /\ pc = "idle" => InForce(n) \subseteq asked[n]
=============================================================================
