--------------------------- MODULE FiltersProofs ---------------------------
(***************************************************************************)
(* Proofs about Filters: for any filters, targets and identifiers.         *)
(***************************************************************************)
EXTENDS Filters, TLAPS

-----------------------------------------------------------------------------
(* The registers of the chip, and the call that is rewriting a filter.     *)
RegisterTypes ==
  /\ flten \in [FilterNos -> BOOLEAN]
  /\ fltobj \in [FilterNos -> SUBSET IdBits] /\ mask \in [FilterNos -> SUBSET IdBits]
  /\ target \in [FilterNos -> Targets \cup {0}]
  /\ asked \in [FilterNos -> SUBSET Rule]
  /\ op \in [filter : FilterNos, rule : Rule]

(* A filter that is enabled holds a rule it may have; one that is being    *)
(* rewritten is disabled, and holds what has been written so far.          *)
Rewriting ==
  /\ \A n \in FilterNos : InForce(n) \subseteq asked[n]
  /\ pc \in {"idle", "disable", "disable_only", "obj", "mask", "enable"}
  /\ pc # "idle" => ret = "none"
  /\ pc \in {"disable", "obj", "mask", "enable"} => op.rule \in asked[op.filter]
  /\ pc \in {"obj", "mask", "enable"} => ~flten[op.filter]
  /\ pc \in {"mask", "enable"} => fltobj[op.filter] = op.rule.obj
  /\ pc = "enable" => mask[op.filter] = op.rule.mask

FilterInv == RegisterTypes /\ Rewriting /\ OutcomeWhole

LEMMA NoOpType == NoOp \in [filter : FilterNos, rule : Rule]
<1>1. (CHOOSE n \in FilterNos : TRUE) \in FilterNos  BY FilterAssumption
<1>2. [obj |-> {}, mask |-> {}, target |-> 0] \in Rule  BY SMT DEF Rule
<1>3. (CHOOSE r \in Rule : TRUE) \in Rule  BY <1>2
<1>. QED  BY <1>1, <1>3, SMT DEF NoOp

LEMMA FilterInit == Init => FilterInv
<1>. SUFFICES ASSUME Init PROVE FilterInv  OBVIOUS
<1>1. RegisterTypes  BY NoOpType DEF Init, RegisterTypes
<1>2. Rewriting  BY DEF Init, Rewriting, InForce
<1>3. OutcomeWhole  BY NoOpType, SMT DEF Init, OutcomeWhole, InForce
<1>. QED  BY <1>1, <1>2, <1>3 DEF FilterInv

LEMMA RegistersType ==
  ASSUME RegisterTypes, NEW n \in FilterNos
  PROVE  InForce(n) \subseteq Rule
  BY SMT DEF RegisterTypes, InForce, Registers, Rule

LEMMA FilterCalls ==
  ASSUME FilterInv, NEW n \in FilterNos,
         DisableFilter(n) \/ \E r \in Rule : SetFilter(n, r)
  PROVE  FilterInv'
<1>. USE DEF FilterInv
<1>1. UNCHANGED chipVars /\ ret' = "none" /\ pc' \in {"disable", "disable_only"}
  BY DEF SetFilter, DisableFilter
<1>2. \A m \in FilterNos : InForce(m)' = InForce(m)
  BY <1>1 DEF InForce, Registers, chipVars
<1>3. CASE DisableFilter(n)
  <2>1. op' \in [filter : FilterNos, rule : Rule] /\ op'.filter = n
    BY <1>3, NoOpType, SMT DEF DisableFilter
  <2>2. asked' = [asked EXCEPT ![n] = InForce(n)]  BY <1>3 DEF DisableFilter
  <2>3. asked' \in [FilterNos -> SUBSET Rule]  BY <2>2, RegistersType DEF RegisterTypes
  <2>4. RegisterTypes'  BY <1>1, <2>1, <2>3 DEF RegisterTypes, chipVars
  <2>5. \A m \in FilterNos : InForce(m) \subseteq asked'[m]
    BY <2>2 DEF RegisterTypes, Rewriting
  <2>6. Rewriting'  BY <1>1, <1>2, <1>3, <2>5 DEF Rewriting, DisableFilter
  <2>. QED  BY <1>1, <2>4, <2>6 DEF OutcomeWhole
<1>4. ASSUME NEW r \in Rule, SetFilter(n, r) PROVE FilterInv'
  <2>1. op' \in [filter : FilterNos, rule : Rule] /\ op'.filter = n /\ op'.rule = r
    BY <1>4, SMT DEF SetFilter
  <2>2. asked' = [asked EXCEPT ![n] = InForce(n) \cup {r}]  BY <1>4 DEF SetFilter
  <2>3. asked' \in [FilterNos -> SUBSET Rule]  BY <2>2, RegistersType DEF RegisterTypes
  <2>4. RegisterTypes'  BY <1>1, <2>1, <2>3 DEF RegisterTypes, chipVars
  <2>5. \A m \in FilterNos : InForce(m) \subseteq asked'[m]
    BY <2>2 DEF RegisterTypes, Rewriting
  <2>6. r \in asked'[n]  BY <2>2 DEF RegisterTypes
  <2>7. Rewriting'  BY <1>1, <1>2, <1>4, <2>1, <2>5, <2>6 DEF Rewriting, SetFilter
  <2>. QED  BY <1>1, <2>4, <2>7 DEF OutcomeWhole
<1>. QED  BY <1>3, <1>4

(* What a write leaves in the filter that is being rewritten; the others   *)
(* keep theirs.                                                            *)
LEMMA EffectKeeps ==
  ASSUME FilterInv, Effect, UNCHANGED <<op, asked>>
  PROVE  /\ RegisterTypes'
         /\ \A n \in FilterNos \ {op.filter} : InForce(n)' = InForce(n)
         /\ pc = "enable" => InForce(op.filter)' = {op.rule}
         /\ pc # "enable" => flten'[op.filter] = FALSE /\ InForce(op.filter)' = {}
         /\ pc = "obj" => fltobj'[op.filter] = op.rule.obj
         /\ pc = "mask" => mask'[op.filter] = op.rule.mask
                           /\ fltobj'[op.filter] = op.rule.obj
<1>. USE DEF FilterInv
<1>1. /\ op.filter \in FilterNos /\ op.rule \in Rule /\ op.rule.obj \in SUBSET IdBits
      /\ op.rule.mask \in SUBSET IdBits /\ op.rule.target \in Targets \cup {0}
      /\ op.rule = [obj |-> op.rule.obj, mask |-> op.rule.mask, target |-> op.rule.target]
  BY SMT DEF RegisterTypes, Rule
<1>2. CASE pc \in {"disable", "disable_only"} /\ Disable
  <2>1. RegisterTypes'  BY <1>1, <1>2 DEF Disable, RegisterTypes
  <2>. QED  BY <1>1, <1>2, <2>1 DEF Disable, RegisterTypes, InForce, Registers
<1>3. CASE pc = "obj" /\ WriteObj
  <2>1. RegisterTypes'  BY <1>1, <1>3 DEF WriteObj, RegisterTypes
  <2>. QED  BY <1>1, <1>3, <2>1 DEF WriteObj, RegisterTypes, InForce, Registers, Rewriting
<1>4. CASE pc = "mask" /\ WriteMask
  <2>1. RegisterTypes'  BY <1>1, <1>4 DEF WriteMask, RegisterTypes
  <2>. QED  BY <1>1, <1>4, <2>1 DEF WriteMask, RegisterTypes, InForce, Registers, Rewriting
<1>5. CASE pc = "enable" /\ Enable
  <2>1. RegisterTypes'  BY <1>1, <1>5 DEF Enable, RegisterTypes
  <2>2. InForce(op.filter)' = {op.rule}
    BY <1>1, <1>5 DEF Enable, RegisterTypes, InForce, Registers, Rewriting
  <2>. QED  BY <1>1, <1>5, <2>1, <2>2 DEF Enable, RegisterTypes, InForce, Registers
<1>. QED  BY <1>2, <1>3, <1>4, <1>5 DEF Effect

LEMMA FilterWrite ==
  ASSUME FilterInv, Write
  PROVE  FilterInv'
<1>. USE DEF FilterInv
<1>1. Effect /\ UNCHANGED <<op, asked>> /\ op.filter \in FilterNos
  BY DEF Write, Return, RegisterTypes
<1>2. \A n \in FilterNos : InForce(n)' \subseteq asked[n]
  BY <1>1, EffectKeeps DEF Write, Rewriting, RegisterTypes
<1>3. CASE pc \in {"disable", "obj", "mask"}
  <2>1. /\ pc = "disable" => pc' = "obj"
        /\ pc = "obj" => pc' = "mask"
        /\ pc = "mask" => pc' = "enable"
        /\ UNCHANGED <<op, ret, asked>>
    BY <1>3 DEF Write
  <2>2. Rewriting'  BY <1>1, <1>2, <1>3, <2>1, EffectKeeps DEF Rewriting
  <2>3. OutcomeWhole'  BY <1>3, <2>1 DEF OutcomeWhole, Rewriting
  <2>. QED  BY <1>1, <2>2, <2>3, EffectKeeps
<1>4. CASE pc \in {"enable", "disable_only"}
  <2>1. pc' = "idle" /\ ret' = pc /\ UNCHANGED <<op, asked>>
    BY <1>4 DEF Write, Return
  <2>2. Rewriting'  BY <1>2, <2>1 DEF Rewriting
  <2>3. OutcomeWhole'  BY <1>1, <1>2, <1>4, <2>1, EffectKeeps DEF OutcomeWhole
  <2>. QED  BY <1>1, <2>2, <2>3, EffectKeeps
<1>. QED  BY <1>3, <1>4 DEF Write

LEMMA FilterFails ==
  ASSUME FilterInv, WriteFails
  PROVE  FilterInv'
<1>. USE DEF FilterInv
<1>1. /\ pc' = "idle" /\ ret' = "spi" /\ UNCHANGED <<op, asked>> /\ op.filter \in FilterNos
      /\ UNCHANGED chipVars \/ Effect
  BY DEF WriteFails, Return, RegisterTypes
<1>2. RegisterTypes' /\ \A n \in FilterNos : InForce(n)' \subseteq asked[n]
  <2>1. CASE UNCHANGED chipVars
    BY <1>1, <2>1 DEF chipVars, RegisterTypes, Rewriting, InForce, Registers
  <2>2. CASE Effect
    BY <1>1, <2>2, EffectKeeps DEF WriteFails, Rewriting, RegisterTypes
  <2>. QED  BY <1>1, <2>1, <2>2
<1>3. Rewriting'  BY <1>1, <1>2 DEF Rewriting
<1>4. OutcomeWhole'  BY <1>1, <1>2 DEF OutcomeWhole
<1>. QED  BY <1>2, <1>3, <1>4

LEMMA FilterAlways == Spec => []FilterInv
<1>1. FilterInv /\ [Next]_vars => FilterInv'
  <2>. SUFFICES ASSUME FilterInv, [Next]_vars PROVE FilterInv'  OBVIOUS
  <2>1. CASE UNCHANGED vars
    BY <2>1 DEF FilterInv, vars, driverVars, chipVars, RegisterTypes, Rewriting,
                OutcomeWhole, InForce, Registers
  <2>. QED  BY <2>1, FilterCalls, FilterWrite, FilterFails DEF Next
<1>. QED  BY <1>1, FilterInit, PTL DEF Spec

-----------------------------------------------------------------------------
(* At no point of a rewriting, and after no failure of it, is a frame      *)
(* routed by a mixture of two rules.                                       *)
THEOREM WholeRulesRoute == Spec => []RoutedByWholeRule
<1>1. FilterInv => RoutedByWholeRule
  <2>. SUFFICES ASSUME FilterInv, NEW id \in SUBSET IdBits, NEW n \in Hit(id)
                PROVE  \E r \in asked[n] : Match(id, r) /\ target[n] = r.target
    BY DEF RoutedByWholeRule
  <2>3. n \in FilterNos /\ flten[n] /\ Match(id, Registers(n))  BY DEF Hit
  <2>4. Registers(n) \in asked[n]  BY <2>3 DEF FilterInv, Rewriting, InForce
  <2>5. target[n] = Registers(n).target  BY DEF Registers
  <2>. QED  BY <2>3, <2>4, <2>5
<1>. QED  BY <1>1, FilterAlways, PTL

(* A filter that set_filter reported Ok for holds exactly the new rule,    *)
(* and one whose call failed the old rule, the new one or none.            *)
THEOREM OutcomesAreWhole == Spec => []OutcomeWhole
<1>1. FilterInv => OutcomeWhole  BY DEF FilterInv
<1>. QED  BY <1>1, FilterAlways, PTL
=============================================================================
