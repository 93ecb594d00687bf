---------------------------- MODULE RcConditions ----------------------------
(***************************************************************************)
(* The trigger language: conditions (condition.c), groups of them          *)
(* (condset.c), triggers (trigger.c), values (value.c) and leaderboards    *)
(* (lboard.c), how a definition is parsed and how it is evaluated once a   *)
(* frame.  The operators take the C structures as records and return the   *)
(* updated ones.                                                           *)
(*                                                                         *)
(* A definition reaches the parser here as records, not characters: a raw  *)
(* condition is [flag, left, oper, right, hits], a group a sequence of     *)
(* them, a trigger [core, alts], a leaderboard [sta, can, sub, val, pro].  *)
(***************************************************************************)
EXTENDS RcMemory, FiniteSets

CONSTANT MeasuredUnknown   \* RC_MEASURED_UNKNOWN, a measured value no frame computed

ASSUME MeasuredUnknownAssumption == MeasuredUnknown \in Nat

Combining == {"add_hits", "sub_hits", "and_next", "or_next", "remember", "reset_next_if"}
Indirect  == {"add_source", "sub_source", "add_address"}
Modifying == Indirect \cup {"remember"}     \* flags whose operator combines instead of comparing
Ok == "ok"

-----------------------------------------------------------------------------
(* Parsing *)

RawMem(access, size, address) == [kind |-> "memory", access |-> access, size |-> size, address |-> address]
RawConst(n)    == [kind |-> "const", num |-> n]
RawFloat(n, d) == [kind |-> "fp", num |-> n, den |-> d]
RawRecall      == [kind |-> "recall"]
RawNone        == [kind |-> "none"]
Raw(flag, left, oper, right, hits) == [flag |-> flag, left |-> left, oper |-> oper, right |-> right, hits |-> hits]

\* RC_CONDITION_STANDARD and the others: the flags a condition may have
Flags == {"standard", "pause_if", "reset_if", "measured_if", "trigger", "measured"} \cup Combining \cup Indirect

\* what the parser is given: a list, a group of conditions, a trigger, a value and the fields of a leaderboard
IsList(s)   == Len(s) \in Nat /\ s = [i \in 1..Len(s) |-> s[i]]
IsGroup(g)  == IsList(g) /\ \A i \in DOMAIN g : g[i].flag \in Flags /\ g[i].hits \in Nat
IsGroups(s) == IsList(s) /\ \A i \in DOMAIN s : IsGroup(s[i])
IsRawTrigger(raw) == IsGroup(raw.core) /\ IsGroups(raw.alts)
IsRawValue(def) ==
    /\ IsList(def.groups) /\ def.groups # <<>>
    /\ IF def.legacy THEN \A i \in DOMAIN def.groups : IsList(def.groups[i]) ELSE IsGroups(def.groups)
IsRawField(f) ==
    /\ f.name \in {"start", "cancel", "submit", "value", "progress"}
    /\ IF f.name \in {"value", "progress"} THEN IsRawValue(f.def) ELSE IsRawTrigger(f.def)
IsRawLboard(fields) == IsList(fields) /\ \A i \in DOMAIN fields : IsRawField(fields[i])

\* rc_init_parse_state
ParseState(pool, isValue) ==
    [pool |-> pool, indirect |-> NoOperand, addsource |-> NoOperand, addoper |-> "none", remember |-> NoOperand,
     isValue |-> isValue, lenient |-> FALSE, target |-> 0, hasRequired |-> FALSE, error |-> Ok]

AddressOf(ref, size) == Operand("address", size, ref, 0, 1)

\* rc_parse_operand_memory: a prior value needs a cell of its own unless the shared one keeps the same bits
MemoryOperand(raw, m, ps) == [op |-> Operand(raw.access, raw.size, m.ref, 0, 1), ps |-> [ps EXCEPT !.pool = m.pool]]
ParseOperandMemory(raw, ps) ==
    LET shared == SharedSize(raw.size)
        size == IF raw.access = "prior" /\ ~SameMask(shared, raw.size) THEN raw.size ELSE shared
        plain == PlainRef(raw.address, size)
    IN  MemoryOperand(raw, IF ps.indirect.type = "none" THEN [ref |-> plain, pool |-> AllocMemref(ps.pool, plain)]
                           ELSE AllocModified(ps.pool, size, ps.indirect, "indirect", Const(raw.address)), ps)

\* rc_parse_operand_variable: {recall} is what the last Remember of the group holds
ParseRecall(ps) ==
    IF ps.remember.type = "none"
    THEN [Operand("recall", "32", NoRef, 0, 1) EXCEPT !.access = "address"]
    ELSE [ps.remember EXCEPT !.combining = FALSE, !.access = ps.remember.type, !.type = "recall"]

\* rc_parse_operand: constants keep to the width of a word
ParseOperand(raw, ps) ==
    CASE raw.kind = "memory" -> ParseOperandMemory(raw, ps)
      [] raw.kind = "const"  -> [op |-> Const(raw.num), ps |-> ps]
      [] raw.kind = "fp"     -> [op |-> FloatConst(raw.num, raw.den), ps |-> ps]
      [] raw.kind = "recall" -> [op |-> ParseRecall(ps), ps |-> ps]
      [] OTHER               -> [op |-> NoOperand, ps |-> [ps EXCEPT !.error = "invalid_operand"]]

Fail(ps, error) == [ps EXCEPT !.error = error]
Condition(type, op1, oper, op2, required) ==
    [type |-> type, op1 |-> op1, oper |-> oper, op2 |-> op2, required |-> required,
     hits |-> 0, isTrue |-> FALSE, class |-> "other"]

\* rc_parse_condition_internal
ConditionOf(raw, ps, left, right) ==
    LET canModify == raw.flag \in Modifying
        mixed == canModify /\ ~IsModifying(raw.oper)
        oper == IF mixed /\ raw.flag \in Indirect THEN "none" ELSE raw.oper
        bare == raw.oper = "none"
        error == CASE left.ps.error # Ok -> left.ps.error
                   [] bare -> IF canModify \/ raw.flag = "measured" \/ ps.lenient THEN Ok ELSE "invalid_operator"
                   [] mixed /\ raw.flag \notin Indirect /\ ~ps.lenient -> "invalid_operator"
                   [] OTHER -> right.ps.error
    IN  IF bare
        THEN [cond |-> Condition(raw.flag, left.op, "none", Const(1), 0), ps |-> Fail(left.ps, error)]
        ELSE [cond |-> Condition(raw.flag, left.op, oper, IF oper = "none" THEN Const(0) ELSE right.op,
                                 IF oper = "none" THEN 0 ELSE raw.hits),
              ps |-> [Fail(right.ps, error) EXCEPT
                        !.hasRequired = @ \/ (raw.hits # 0 /\ oper # "none")]]
ParseRight(raw, ps, left) == ConditionOf(raw, ps, left, ParseOperand(raw.right, left.ps))
ParseCondition(raw, ps) == ParseRight(raw, ps, ParseOperand(raw.left, ps))

\* rc_condition_convert_to_operand: the left side, with the operator folded into a computed reference
Converted(c, ps, size, m) ==
    [op |-> [AddressOf(m.ref, size) EXCEPT !.combining = c.op1.combining], ps |-> [ps EXCEPT !.pool = m.pool]]
ConvertToOperand(c, ps) ==
    LET size == IF IsFloat(c.op1) \/ IsFloat(c.op2) THEN "float" ELSE "32"
    IN  IF c.oper = "none" THEN [op |-> c.op1, ps |-> ps]
        ELSE Converted(c, ps, size, AllocModified(ps.pool, size, c.op1, c.oper, c.op2))

\* rc_operand_addsource: deltas of both are the delta of the sum
Added(op, ps, both, m) ==
    [op |-> [op EXCEPT !.type = IF both THEN @ ELSE "address", !.access = IF both THEN @ ELSE "address",
                       !.ref = m.ref, !.size = "32"],
     ps |-> [ps EXCEPT !.pool = m.pool]]
OperandAddSource(op, ps, size) ==
    LET both == op.type \in {"delta", "prior"} /\ op.type = ps.addsource.type
        plain(operand) == IF both THEN [operand EXCEPT !.type = "address"] ELSE operand
    IN  Added(op, ps, both, AllocModified(ps.pool, size, plain(ps.addsource), ps.addoper, plain(op)))

\* the parent a SubSource starts from when what came before it cannot be subtracted from as it is
KeepSource(ps, m) == [ps EXCEPT !.pool = m.pool, !.addsource = [@ EXCEPT !.ref = m.ref, !.type = "address"]]
NegateSource(ps, m, size, value) ==
    [ps EXCEPT !.pool = m.pool,
               !.addsource = IF @.type \in {"const", "fp"} THEN [@ EXCEPT !.num = value[1], !.den = value[2], !.size = size]
                             ELSE AddressOf(m.ref, size)]
Negated(ps, m, size) ==
    NegateSource(ps, m, size, Ratio(Convert(SubtractFrom(EvaluateOperand(m.ref.parent, <<>>),
                                                         EvaluateOperand(m.ref.modifier, <<>>)), m.pool.at[m.ref].type)))
SubSourceParent(ps, size) ==
    LET p == ps.addsource
        zero == IF IsFloat(p) THEN FloatConst(0, 1) ELSE Const(0)
    IN  CASE ps.addoper = "add_accumulator" /\ ~IsMemref(p) ->
               KeepSource(ps, AllocModified(ps.pool, p.size, p, "add_accumulator", Const(0)))
          [] ps.addoper = "sub_parent" -> Negated(ps, AllocModified(ps.pool, size, p, "sub_parent", zero), zero.size)
          [] OTHER -> ps

\* rc_condition_update_parse_state, AddSource and SubSource: each element is combined with the chain before it
Chained(c, sum, first) ==
    [sum.ps EXCEPT !.addsource = sum.op, !.indirect = NoOperand,
                   !.addoper = IF first /\ c.type = "sub_source" THEN "sub_parent" ELSE "add_accumulator"]
ChainOnto(c, conv, first, size) ==
    Chained(c, IF first THEN conv ELSE OperandAddSource(conv.op, conv.ps, size), first)
ChainSource(c, ps) ==
    LET first == ps.addsource.type = "none"
        size == IF IsFloat(ps.addsource) THEN "float" ELSE "32"
        base == IF c.type = "sub_source" /\ ~first
                THEN [SubSourceParent(ps, size) EXCEPT !.addoper = "sub_accumulator"] ELSE ps
    IN  ChainOnto(c, ConvertToOperand(c, base), first, size)

\* the end of a chain: the accumulated sum becomes the left side of the condition
Folded(sum) == [sum EXCEPT !.op.combining = TRUE]
FoldSource(op, ps, oper) ==
    IF ps.addsource.type = "none" THEN [op |-> op, ps |-> ps]
    ELSE Folded(OperandAddSource(op, [ps EXCEPT !.addoper = oper], op.size))
EndChain(c, folded) ==
    [cond |-> [c EXCEPT !.op1 = folded.op], ps |-> [folded.ps EXCEPT !.addsource = NoOperand, !.indirect = NoOperand]]

\* rc_condition_update_parse_state, Remember: kept for the {recall}s that follow
Remembering(chain) == [chain EXCEPT !.ps.remember = chain.cond.op1]
RememberOperand(c, conv, ps) == Remembering(EndChain(c, FoldSource(conv.op, conv.ps, ps.addoper)))
UpdateRemember(c, ps) ==
    IF c.op1.type = "recall" /\ c.oper = "none" /\ ps.addsource.type = "none" /\ ps.indirect.type = "none"
    THEN [cond |-> c, ps |-> ps]
    ELSE RememberOperand(c, ConvertToOperand(c, ps), ps)

\* rc_condition_update_parse_state: what a condition leaves for the ones after it
Indirection(c, conv) == [cond |-> c, ps |-> [conv.ps EXCEPT !.indirect = conv.op]]
FinishOperand(c, start, oper) == EndChain(c, FoldSource(start.op, start.ps, IF oper = "add_accumulator" THEN "+" ELSE oper))
UpdateParseState(c, ps) ==
    CASE c.type = "add_address" -> Indirection(c, ConvertToOperand(c, ps))
      [] c.type \in {"add_source", "sub_source"} -> [cond |-> c, ps |-> ChainSource(c, ps)]
      [] c.type = "remember" -> UpdateRemember(c, ps)
      [] OTHER -> FinishOperand(c, IF c.type = "measured" /\ ps.isValue /\ IsModifying(c.oper) THEN ConvertToOperand(c, ps)
                                   ELSE [op |-> c.op1, ps |-> ps], ps.addoper)

\* rc_condition_get_real_operand1: the operand a definition named, before the parser folded others into it
RealOperand1(c) ==
    LET modified(op) == IsMemref(op) /\ op.ref.kind = "modified"
        own == IF c.op1.combining /\ modified(c.op1) THEN c.op1.ref.modifier ELSE c.op1
    IN  IF modified(own) /\ own.ref.oper # "indirect" /\ IsModifying(c.oper) /\ c.oper # "none"
        THEN own.ref.parent ELSE own

-----------------------------------------------------------------------------
(* Groups *)

\* rc_classify_condition: the phase of the evaluation a condition belongs to
ClassifyCondition(type, required) ==
    CASE type = "pause_if"     -> "pause"
      [] type = "reset_if"     -> "reset"
      [] type \in Indirect     -> "indirect"
      [] type \in Combining    -> "combining"
      [] type \in {"measured", "measured_if"} -> "measured"
      [] required # 0          -> "hittarget"
      [] OTHER                 -> "other"

\* rc_find_next_classification: a combining condition goes where the condition it feeds goes
ClassAt(conds, i) ==
    LET class(j) == ClassifyCondition(conds[j].type, conds[j].required)
        feeds == {j \in (i + 1)..Len(conds) : class(j) \notin {"combining", "indirect"}}
    IN  IF class(i) # "combining" THEN class(i)
        ELSE IF feeds = {} THEN "other" ELSE class(CHOOSE j \in feeds : \A k \in feeds : j <= k)

\* rc_classify_conditions: how many places each phase gets, counted on the raw definition before any is filled
ClassCounts(raws) ==
    LET kind(r) == ClassifyCondition(r.flag, IF r.oper = "none" THEN 0 ELSE r.hits)
        count(acc, r) ==
            CASE kind(r) = "combining" -> [acc EXCEPT !.chain = @ + 1]
              [] kind(r) = "indirect"  -> [acc EXCEPT !.n["indirect"] = @ + 1]
              [] OTHER -> [acc EXCEPT !.n[kind(r)] = @ + acc.chain, !.chain = 1]
        zero == [class \in {"pause", "reset", "hittarget", "measured", "other", "indirect"} |-> 0]
        total == FoldLeft(count, [n |-> zero, chain |-> 1], raws)
    IN  [total.n EXCEPT !["other"] = @ + total.chain - 1]

\* rc_condition_update_recall_operand: a {recall} that found nothing to recall takes the last pause Remember
\* (one inside a combined reference is not followed: no definition modelled here has any)
RecallPause(op, remember) ==
    IF op.type = "recall" /\ IsMemrefType(op.access) /\ op.ref = NoRef
    THEN [remember EXCEPT !.access = remember.type, !.type = "recall"] ELSE op

\* rc_update_condition_pause_remember: pause conditions run first, so what was remembered for others is not theirs
PauseRemember(conds) ==
    LET all == {i \in DOMAIN conds : conds[i].type = "remember"}
        remembers == {i \in all : conds[i].class = "pause"}
        forget(op) == IF op.type = "recall" /\ IsMemrefType(op.access) THEN [op EXCEPT !.ref = NoRef] ELSE op
        recall(op) == RecallPause(op, conds[CHOOSE i \in remembers : \A j \in remembers : j <= i].op1)
        early(i) == conds[i].class = "pause" /\ conds[i].type # "remember" /\ \A j \in remembers : i < j
        late(i) == remembers # {} /\ conds[i].class # "pause" /\ \A j \in all : i <= j
    IN  [i \in DOMAIN conds |->
            CASE early(i) -> [conds[i] EXCEPT !.op1 = forget(@), !.op2 = forget(@)]
              [] late(i)  -> [conds[i] EXCEPT !.op1 = recall(@), !.op2 = recall(@)]
              [] OTHER    -> conds[i]]

\* the target of a Measured condition
MeasuredTarget(c, ps) ==
    CASE ps.isValue       -> Word - 1
      [] c.required # 0   -> c.required
      [] c.op2.type \in {"const", "fp"} -> DivC(c.op2.num, c.op2.den)
      [] OTHER            -> 0

\* what rc_parse_condset refuses in a condition it has just read; "measured" is the group's target so far
GroupError(c, measured, ps) ==
    LET bare == c.oper = "none" /\ c.type \notin Modifying /\ ~(c.type = "measured" /\ ps.isValue)
        target == IF measured # 0 THEN measured ELSE MeasuredTarget(c, ps)
    IN  CASE ps.error # Ok -> ps.error
          [] ps.lenient    -> Ok
          [] bare          -> "invalid_operator"
          [] c.type = "measured" /\ measured # 0 -> "multiple_measured"
          [] c.type = "measured" /\ ~ps.isValue /\ c.required = 0 /\ c.op2.type \notin {"const", "fp"} ->
                "invalid_measured_target"
          [] c.type = "measured" /\ ps.target # 0 /\ target # ps.target -> "multiple_measured"
          [] c.type \in {"standard", "trigger"} /\ ps.isValue -> "invalid_value_flag"
          [] OTHER -> Ok

\* one turn of rc_parse_condset's loop
AddCondition(acc, next, target) ==
    [conds |-> Append(acc.conds, next.cond), ps |-> next.ps,
     measured |-> IF next.cond.type = "measured" THEN target ELSE acc.measured]
AcceptCondition(acc, c, ps, error) ==
    LET measured == c.type = "measured"
        target == IF acc.measured # 0 THEN acc.measured ELSE MeasuredTarget(c, ps)
        counted == measured /\ acc.measured = 0 /\ ps.isValue /\ ~IsModifying(c.oper)
    IN  IF error # Ok THEN [acc EXCEPT !.ps = Fail(ps, error)]
        ELSE AddCondition(acc, UpdateParseState(IF counted THEN [c EXCEPT !.required = Word - 1] ELSE c,
                                                IF measured THEN [ps EXCEPT !.target = target] ELSE ps), target)
Accept(acc, parsed) == AcceptCondition(acc, parsed.cond, parsed.ps, GroupError(parsed.cond, acc.measured, parsed.ps))
ParseGroupCondition(acc, raw) == IF acc.ps.error # Ok THEN acc ELSE Accept(acc, ParseCondition(raw, acc.ps))

\* rc_parse_condset: nothing is carried over from the group before but the pool and the measured target
Placed(conds, ps) ==
    IF ps.remember.type # "none" /\ \E i \in DOMAIN conds : conds[i].class = "pause" THEN PauseRemember(conds) ELSE conds
CondsetOf(conds, ps) ==
    [set |-> [conds |-> Placed([i \in DOMAIN conds |-> [conds[i] EXCEPT !.class = ClassAt(conds, i)]], ps), paused |-> FALSE],
     ps |-> ps]
GroupRead(all) == CondsetOf(all.conds, all.ps)
ParseCondset(raws, ps) ==
    LET fresh == [ps EXCEPT !.addoper = "none", !.addsource = NoOperand, !.indirect = NoOperand, !.remember = NoOperand]
    IN  GroupRead(FoldLeft(ParseGroupCondition, [conds |-> <<>>, ps |-> fresh, measured |-> 0], raws))

AddSet(acc, p) == [sets |-> Append(acc.sets, p.set), ps |-> p.ps]
ParseGroups(groups, ps) ==
    FoldLeft(LAMBDA acc, g : IF acc.ps.error # Ok THEN acc ELSE AddSet(acc, ParseCondset(g, acc.ps)),
             [sets |-> <<>>, ps |-> ps], groups)

NoGroup == [conds |-> <<>>, paused |-> FALSE]

\* rc_parse_trigger_internal: core and alternatives share one measured target
TriggerOf(percent, groups, target) ==
    [trigger |-> [core |-> Head(groups.sets), alts |-> Tail(groups.sets), state |-> "waiting", target |-> target,
                  measured |-> IF target # 0 THEN MeasuredUnknown ELSE 0, percent |-> percent, hasHits |-> FALSE],
     ps |-> groups.ps]
TriggerRead(raw, groups) == TriggerOf(raw.percent, groups, groups.ps.target)
ParseTrigger(raw, ps) ==
    TriggerRead(raw, ParseGroups(<<raw.core>> \o raw.alts, [ps EXCEPT !.target = 0, !.hasRequired = FALSE]))

\* rc_parse_cond_value: every group of a value measures something
Measures(p) == IF p.ps.error = Ok /\ p.ps.target = 0 THEN [p EXCEPT !.ps = Fail(@, "missing_value_measured")] ELSE p
ParseValue(raw, ps) ==
    LET parse(acc, g) == IF acc.ps.error # Ok THEN acc
                         ELSE AddSet(acc, Measures(ParseCondset(g, [acc.ps EXCEPT !.target = 0])))
    IN  FoldLeft(parse, [sets |-> <<>>, ps |-> [ps EXCEPT !.isValue = TRUE]], raw)

\* rc_parse_legacy_value: a sum of terms, where a term times a negative number is subtracted
LegacyClause(g) ==
    LET flag(i) == IF g[i].negative THEN "sub_source" ELSE IF i = Len(g) THEN "measured" ELSE "add_source"
    IN  [i \in DOMAIN g |-> Raw(flag(i), g[i].left, g[i].oper, g[i].right, 0)]
        \o (IF Last(g).negative THEN <<Raw("measured", RawConst(0), "none", RawNone, 0)>> ELSE <<>>)
AddTerm(acc, next) == [conds |-> Append(acc.conds, [next.cond EXCEPT !.class = "measured"]), ps |-> next.ps]
Term(acc, parsed) ==
    LET plain(c) == IF c.type = "measured" /\ ~IsModifying(c.oper) THEN [c EXCEPT !.oper = "none"] ELSE c
    IN  IF parsed.ps.error # Ok THEN [acc EXCEPT !.ps = parsed.ps]
        ELSE AddTerm(acc, UpdateParseState(plain(parsed.cond), parsed.ps))
ParseLegacyValue(clauses, ps) ==
    LET step(acc, raw) == Term(acc, ParseCondition(raw, acc.ps))
        set(all) == [set |-> [conds |-> all.conds, paused |-> FALSE], ps |-> all.ps]
        clause(acc, g) == AddSet(acc, set(FoldLeft(step, [conds |-> <<>>, ps |-> acc.ps], LegacyClause(g))))
    IN  FoldLeft(clause, [sets |-> <<>>, ps |-> [ps EXCEPT !.isValue = TRUE]], clauses)

\* rc_parse_value_internal: the first thing measured decides whether the value is a float
ValueOf(all, conds, isValue) ==
    LET first == SelectInSeq(conds, LAMBDA c : c.type = "measured")
        float == all.ps.error = Ok /\ first # 0 /\ IsFloat(conds[first].op1)
    IN  [value |-> [sets |-> all.sets, cell |-> Cell(IF float THEN "float" ELSE "unsigned")],
         ps |-> [all.ps EXCEPT !.isValue = isValue]]
ValueRead(all, isValue) == ValueOf(all, all.sets[1].conds, isValue)
ParseValueInternal(def, ps) ==
    ValueRead(IF def.legacy THEN ParseLegacyValue(def.groups, ps) ELSE ParseValue(def.groups, ps), ps.isValue)

NoTrigger == [core |-> NoGroup, alts |-> <<>>, state |-> "waiting", target |-> 0, measured |-> 0,
              percent |-> FALSE, hasHits |-> FALSE]
NoLboard == [start |-> NoTrigger, cancel |-> NoTrigger, submit |-> NoTrigger,
             value |-> [sets |-> <<>>, cell |-> Cell("unsigned")], progress |-> <<>>, state |-> "waiting"]

\* rc_parse_lboard_internal: each field once, in any order; four of the five are required
LboardField(acc, name, read, part) ==
    [lboard |-> [acc.lboard EXCEPT ![name] = part], ps |-> read.ps, found |-> acc.found \cup {name}]
AddTrigger(acc, name, t) == LboardField(acc, name, t, t.trigger)
AddValue(acc, name, v) == LboardField(acc, name, v, IF name = "progress" THEN <<v.value>> ELSE v.value)
ParseField(acc, f) ==
    IF acc.ps.error # Ok THEN acc
    ELSE CASE f.name \in acc.found -> [acc EXCEPT !.ps = Fail(@, "duplicated_field")]
           [] f.name \in {"value", "progress"} \ acc.found -> AddValue(acc, f.name, ParseValueInternal(f.def, acc.ps))
           [] OTHER -> AddTrigger(acc, f.name, ParseTrigger(f.def, acc.ps))
LboardRead(all) ==
    [lboard |-> all.lboard,
     ps |-> IF all.ps.error = Ok /\ ~({"start", "cancel", "submit", "value"} \subseteq all.found)
            THEN Fail(all.ps, "missing_field") ELSE all.ps]
ParseLboard(fields, ps) == LboardRead(FoldLeft(ParseField, [lboard |-> NoLboard, ps |-> ps, found |-> {}], fields))
=============================================================================
