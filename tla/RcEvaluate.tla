----------------------------- MODULE RcEvaluate -----------------------------
(***************************************************************************)
(* One frame of a trigger, a value or a leaderboard: condset.c,            *)
(* condition.c, trigger.c, value.c and lboard.c once the definition is     *)
(* parsed.  "at" is what the references of the pool hold this frame.       *)
(***************************************************************************)
EXTENDS RcConditions

-----------------------------------------------------------------------------
(* Testing one condition *)

IsPlainInt(op) == op.type \in {"address", "delta"} /\ op.ref.kind = "memref" /\ ~IsFloat(op)

\* rc_condition_determine_comparator: the comparison a parsed condition is given
Comparator(c) ==
    LET l == c.op1
        r == c.op2
        same == l.ref = r.ref
        sized == l.size = l.ref.size /\ (r.type = "const" \/ r.size = r.ref.size)
        shape == [left |-> l.type, right |-> r.type, transformed |-> ~sized]
    IN  CASE c.oper \notin {"=", "!=", "<", "<=", ">", ">="} -> [left |-> "always", right |-> TRUE]
          [] IsPlainInt(l) /\ r.type = "const" -> shape
          [] IsPlainInt(l) /\ IsPlainInt(r) /\ l.type = "address" /\ r.type = "address" ->
                IF same /\ sized THEN [left |-> "always", right |-> CompareInts(0, 0, c.oper)] ELSE shape
          [] IsPlainInt(l) /\ IsPlainInt(r) /\ l.type # r.type /\ same -> shape
          [] l.type = "const" /\ r.type = "const" -> [left |-> "always", right |-> CompareInts(l.num, r.num, c.oper)]
          [] OTHER -> [left |-> "default", right |-> FALSE]

Reading(op, at) == CellValue(at[op.ref], op.type)
Transformed(op, at) == TransformMemrefValue(Reading(op, at), op.size)

\* what a comparison means: the values of both operands, compared
CompareOperands(c, at) == Compare(EvaluateOperand(c.op1, at), EvaluateOperand(c.op2, at), c.oper)

\* one side of rc_test_condition_compare_memref_to_const and its siblings, "_transformed" or not
Side(op, transformed, at) ==
    CASE op.type = "const" -> op.num
      [] transformed       -> Transformed(op, at).num
      [] OTHER             -> Reading(op, at).num

\* rc_test_condition; an unchanged reference equals its own delta, whatever part of it each side keeps
TestShape(c, shape, at) ==
    CASE shape.left = "always"  -> shape.right
      [] shape.left = "default" -> CompareOperands(c, at)
      [] c.op2.type \in {"const", c.op1.type} \/ at[c.op1.ref].changed ->
            CompareInts(Side(c.op1, shape.transformed, at), Side(c.op2, shape.transformed, at), c.oper)
      [] OTHER                  -> c.oper \in {"=", ">=", "<="}
TestCondition(c, at) == TestShape(c, Comparator(c), at)

-----------------------------------------------------------------------------
(* Groups.  The evaluation state es is carried through the conditions of a *)
(* group; wasReset, wasCondReset and hasHits are carried from group to     *)
(* group too.  No caller sets can_short_curcuit, so it is left out.        *)

NewEval == [isTrue |-> TRUE, primed |-> TRUE, paused |-> FALSE, canMeasure |-> TRUE, measured |-> NoValue,
            fromHits |-> FALSE, addHits |-> 0, andNext |-> TRUE, orNext |-> FALSE, resetNext |-> FALSE, stop |-> FALSE,
            hasHits |-> FALSE, wasReset |-> FALSE, wasCondReset |-> FALSE]

\* the state rc_test_condset resets before each group
NextGroup(es) == [NewEval EXCEPT !.hasHits = es.hasHits, !.wasReset = es.wasReset, !.wasCondReset = es.wasCondReset]

\* Mutant: hits are counted past the target
TallyPast(c, es, test) ==
    LET valid == (test /\ es.andNext) \/ es.orNext
        hits == IF valid THEN c.hits + 1 ELSE c.hits
        next == [es EXCEPT !.andNext = TRUE, !.orNext = FALSE]
    IN  [c |-> [c EXCEPT !.isTrue = test, !.hits = IF es.resetNext THEN 0 ELSE hits], ok |-> hits >= c.required /\ valid,
         es |-> [next EXCEPT !.hasHits = @ \/ valid]]

\* rc_condset_evaluate_condition_no_add_hits: tally the condition, true when its target is met
Tally(c, es, test) ==
    LET valid == (test /\ es.andNext) \/ es.orNext
        counts == valid /\ (c.required = 0 \/ c.hits < c.required)
        hits == IF counts THEN c.hits + 1 ELSE c.hits
        next == [es EXCEPT !.andNext = TRUE, !.orNext = FALSE]
    IN  CASE es.resetNext -> [c |-> [c EXCEPT !.isTrue = test, !.hits = 0], ok |-> FALSE,
                              es |-> [next EXCEPT !.wasCondReset = @ \/ c.hits # 0]]
          [] OTHER -> [c |-> [c EXCEPT !.isTrue = test, !.hits = hits],
                       ok |-> IF valid THEN (~counts \/ c.required = 0 \/ hits = c.required)
                              ELSE (c.hits > 0 /\ c.hits = c.required),
                       es |-> [next EXCEPT !.hasHits = @ \/ valid \/ c.hits > 0]]

\* rc_condset_evaluate_total_hits: hits added by AddHits and SubHits count towards a target only
TotalHits(c, es) ==
    CASE c.required = 0          -> c.hits
      [] c.hits + es.addHits < 0 -> 0
      [] OTHER                   -> c.hits + es.addHits

\* rc_condset_evaluate_condition, from the tally t
EvaluateCondition(t) ==
    LET total == t.es.addHits # 0 /\ t.c.required # 0
    IN  [t EXCEPT !.ok = IF total THEN TotalHits(t.c, t.es) >= t.c.required ELSE @,
                  !.es.addHits = IF total THEN 0 ELSE @,
                  !.es.resetNext = FALSE]

Require(r) == [r EXCEPT !.es.isTrue = @ /\ r.ok, !.es.primed = @ /\ r.ok]

\* rc_condset_evaluate_pause_if
EvaluatePauseIf(r) ==
    IF r.ok THEN [r EXCEPT !.es.paused = TRUE, !.es.isTrue = FALSE, !.es.primed = FALSE, !.es.stop = TRUE]
    ELSE IF r.c.required = 0 THEN [r EXCEPT !.c.hits = 0] ELSE r

\* rc_condset_evaluate_reset_if
EvaluateResetIf(r) ==
    IF r.ok THEN [r EXCEPT !.es.wasReset = TRUE, !.es.isTrue = FALSE, !.es.primed = FALSE, !.es.stop = TRUE] ELSE r

\* rc_condset_evaluate_measured: the left side, or the hits when there is a target of hits
MeasuredHits(t, total) ==
    [Require([t EXCEPT !.ok = total >= t.c.required])
        EXCEPT !.es.measured = Unsigned(total), !.es.fromHits = TRUE, !.es.addHits = 0, !.es.resetNext = FALSE]
EvaluateMeasured(t, r, left) ==
    IF t.c.required = 0 THEN [Require(r) EXCEPT !.es.measured = left, !.es.fromHits = FALSE]
    ELSE MeasuredHits(t, TotalHits(t.c, t.es))

\* rc_condset_evaluate_add_hits, rc_condset_evaluate_sub_hits
EvaluateHits(t, sign) == [t EXCEPT !.es.addHits = @ + sign * t.c.hits, !.es.resetNext = FALSE]

\* rc_test_condset_internal, one condition: its tally t, what rc_condset_evaluate_condition makes of it, its left side
EvaluateTally(t, r, left) ==
    CASE t.c.type = "standard"      -> Require(r)
      [] t.c.type = "pause_if"      -> EvaluatePauseIf(r)
      [] t.c.type = "reset_if"      -> EvaluateResetIf(r)
      [] t.c.type = "trigger"       -> [r EXCEPT !.es.isTrue = @ /\ r.ok]
      [] t.c.type = "measured"      -> EvaluateMeasured(t, r, left)
      [] t.c.type = "measured_if"   -> [Require(r) EXCEPT !.es.canMeasure = @ /\ r.ok]
      [] t.c.type = "add_hits"      -> EvaluateHits(t, 1)
      [] t.c.type = "sub_hits"      -> EvaluateHits(t, -1)
      [] t.c.type = "reset_next_if" -> [t EXCEPT !.es.resetNext = t.ok]
      [] t.c.type = "and_next"      -> [t EXCEPT !.es.andNext = t.ok]
      [] t.c.type = "or_next"       -> [t EXCEPT !.es.orNext = t.ok]
Evaluate(t, left) == EvaluateTally(t, EvaluateCondition(t), left)
EvaluateOne(c, es, at) ==
    IF c.type \in Modifying THEN [c |-> c, es |-> es, ok |-> TRUE]
    ELSE Evaluate(Tally(c, es, TestCondition(c, at)), EvaluateOperand(c.op1, at))

\* rc_test_condset_internal: the conditions of one phase, up to the one that stops it if the phase may stop
EvaluatePhase(class, run, at) ==
    LET runs(acc, i) == acc.conds[i].class = class /\ ~(class = "pause" /\ acc.es.stop)
        put(acc, i, r) == [conds |-> [acc.conds EXCEPT ![i] = r.c], es |-> r.es]
        step(acc, i) == IF runs(acc, i) THEN put(acc, i, EvaluateOne(acc.conds[i], acc.es, at)) ELSE acc
    IN  FoldLeft(step, run, [i \in DOMAIN run.conds |-> i])

HasClass(conds, class) == \E i \in DOMAIN conds : conds[i].class = class

\* hits a reset is about to clear are not measured
ClearMeasured(run) ==
    [run EXCEPT !.conds = [i \in DOMAIN run.conds |-> IF run.conds[i].class # "measured" THEN run.conds[i]
                                                       ELSE [run.conds[i] EXCEPT !.hits = 0]]]
VoidMeasured(run) ==
    IF run.es.measured.type # "none" /\ (~run.es.canMeasure \/ (run.es.fromHits /\ run.es.wasReset))
    THEN [run EXCEPT !.es.measured = Unsigned(0)] ELSE run

\* rc_test_condset: its phases in order.  A pause ends the group; a reset leaves the hit targets untallied, and, when
\* nothing after it can become true again, the rest too
Phases == <<"pause", "reset", "hittarget", "measured", "other">>
TestPhase(run, class, at) ==
    CASE run.es.paused \/ (class = "hittarget" /\ run.es.wasReset) -> run
      [] class = "other" /\ run.es.wasReset /\ ~run.es.isTrue -> run
      [] OTHER -> LET start == IF class = "measured" /\ run.es.wasReset THEN ClearMeasured(run) ELSE run
                      after(r) == IF class = "measured" THEN VoidMeasured(r) ELSE r
                  IN  after(EvaluatePhase(class, start, at))

CondsetResult(set, run) ==
    [set |-> [conds |-> run.conds, paused |-> IF HasClass(set.conds, "pause") THEN run.es.paused ELSE set.paused],
     es |-> run.es, ok |-> ~run.es.paused /\ run.es.isTrue]
TestCondset(set, es, at) ==
    CondsetResult(set, FoldLeft(LAMBDA run, class : TestPhase(run, class, at),
                                [conds |-> set.conds, es |-> NextGroup(es)], Phases))

\* rc_reset_condset
ResetCondset(set) == [set EXCEPT !.conds = [i \in DOMAIN set.conds |-> [set.conds[i] EXCEPT !.hits = 0]]]

-----------------------------------------------------------------------------
(* Triggers *)

\* rc_reset_trigger_hitcounts
ResetHitcounts(t) ==
    [t EXCEPT !.core = ResetCondset(@), !.alts = [i \in DOMAIN t.alts |-> ResetCondset(t.alts[i])]]

\* rc_reset_trigger
ResetTrigger(t) ==
    [ResetHitcounts(t) EXCEPT !.state = "waiting", !.hasHits = FALSE,
                              !.measured = IF t.target # 0 THEN MeasuredUnknown ELSE @]

\* rc_trigger_state_active
TriggerStateActive(state) == state \notin {"disabled", "inactive", "triggered"}

\* rc_condset_is_measured_from_hitcount
IsMeasuredFromHits(set, value) ==
    \E i \in DOMAIN set.conds : LET c == set.conds[i]
                                IN  c.type = "measured" /\ c.required # 0 /\ c.hits = value

\* the larger of two measured values; none is smaller than any
KeepGreater(best, run) ==
    IF run.measured.type # "none" /\ (best.measured.type = "none" \/ Compare(run.measured, best.measured, ">"))
    THEN [measured |-> run.measured, fromHits |-> run.fromHits] ELSE best

\* the groups of a trigger, the core first, each tested with what the one before it left
TestSets(sets, at) ==
    LET put(acc, r) == [results |-> Append(acc.results, r), es |-> r.es]
        test(acc, set) == put(acc, TestCondset(set, acc.es, at))
    IN  FoldLeft(test, [results |-> <<>>, es |-> NewEval], sets).results

\* what the groups make together: the core's verdict, and that of one alternative if there are any
GroupsOutcome(t, core, alts) ==
    LET one(holds) == alts = <<>> \/ TRUE \in holds
        none == [measured |-> NoValue, fromHits |-> FALSE]
    IN  [trigger |-> [t EXCEPT !.core = core.set, !.alts = [i \in DOMAIN alts |-> alts[i].set]],
         ok |-> core.ok /\ one({alts[i].ok : i \in DOMAIN alts}),
         paused |-> core.es.paused \/ (alts # <<>> /\ \A i \in DOMAIN alts : alts[i].es.paused),
         primed |-> core.es.primed /\ one({alts[i].es.primed : i \in DOMAIN alts}),
         best |-> FoldLeft(LAMBDA best, r : KeepGreater(best, r.es), none, <<core>> \o alts),
         es |-> Last(<<core>> \o alts).es]
Outcome(t, results) == GroupsOutcome(t, Head(results), Tail(results))
TestGroups(t, at) == Outcome(t, TestSets(<<t.core>> \o t.alts, at))

\* the measured value after the groups: kept when the trigger is paused, cleared when a reset clears the hits it counts
KeepMeasured(g, value) ==
    LET counted == \E set \in {g.trigger.core} \cup ToSet(g.trigger.alts) : set.paused /\ IsMeasuredFromHits(set, value)
    IN  IF g.es.wasReset /\ (g.best.fromHits \/ (g.paused /\ value # 0 /\ counted)) THEN 0 ELSE value
MeasuredAfter(g) ==
    KeepMeasured(g, IF g.paused \/ g.best.measured.type = "none" THEN g.trigger.measured
                    ELSE Convert(g.best.measured, "unsigned").num)

\* rc_evaluate_trigger: the trigger afterwards, and what the caller is told of it
TriggerResult(t, g, u) ==
    LET cleared == ResetHitcounts(u)
        reset == g.es.wasReset
        state == CASE g.paused -> "paused" [] g.primed /\ ~reset -> "primed" [] OTHER -> "active"
        rest == [(IF reset THEN cleared ELSE u) EXCEPT !.hasHits = g.es.hasHits /\ ~reset, !.state = state]
    IN  CASE reset /\ t.hasHits ->
                [trigger |-> [cleared EXCEPT !.hasHits = FALSE, !.state = IF @ = "primed" THEN "active" ELSE @],
                 result |-> "reset"]
          [] ~reset /\ g.ok /\ t.state = "waiting" -> [trigger |-> ResetTrigger(u), result |-> "waiting"]
          [] ~reset /\ g.ok /\ t.state # "waiting" -> [trigger |-> [u EXCEPT !.state = "triggered"], result |-> "triggered"]
          [] OTHER -> [trigger |-> rest, result |-> IF g.es.wasCondReset THEN "reset" ELSE state]
Resulting(t, g) == TriggerResult(t, g, [g.trigger EXCEPT !.measured = MeasuredAfter(g)])
EvaluateTrigger(t, at) ==
    IF TriggerStateActive(t.state) THEN Resulting(t, TestGroups(t, at)) ELSE [trigger |-> t, result |-> "inactive"]

\* rc_test_trigger: a trigger tested as if it were active
Tested(r) == [trigger |-> r.trigger, ok |-> r.result = "triggered"]
TestTrigger(t, at) == Tested(EvaluateTrigger([t EXCEPT !.state = "active"], at))

-----------------------------------------------------------------------------
(* Values and leaderboards *)

\* rc_evaluate_value_typed: the greatest of the groups that are not paused; a reset clears its own group only
ValueResult(v, results) ==
    LET after(r) == IF r.es.wasReset /\ ~r.set.paused THEN ResetCondset(r.set) ELSE r.set
        counts(r) == ~r.set.paused /\ r.es.measured.type # "none"
        greater(best, r) == IF best.type = "none" \/ Compare(r.es.measured, best, ">") THEN r.es.measured ELSE best
        best == FoldLeft(greater, NoValue, SelectSeq(results, counts))
    IN  [value |-> [v EXCEPT !.sets = [i \in DOMAIN results |-> after(results[i])]],
         result |-> IF best.type = "none" THEN Signed(0) ELSE best, valid |-> best.type # "none"]
EvaluateValueTyped(v, at) == ValueResult(v, [i \in DOMAIN v.sets |-> TestCondset(v.sets[i], NewEval, at)])

\* rc_evaluate_value: the last value measured while nothing is
KeepValue(v, valid, now) ==
    [value |-> IF valid THEN [v EXCEPT !.cell = UpdateCell(@, <<now, 1>>)] ELSE v,
     result |-> Convert(Unsigned(now), "signed").num]
ValueNow(r) == KeepValue(r.value, r.valid, IF r.valid THEN Convert(r.result, "unsigned").num ELSE r.value.cell.value[1])
EvaluateValue(v, at) == ValueNow(EvaluateValueTyped(v, at))

\* rc_reset_value
ResetValue(v) ==
    [v EXCEPT !.sets = [i \in DOMAIN v.sets |-> ResetCondset(v.sets[i])],
              !.cell = [@ EXCEPT !.value = Zero, !.prior = Zero, !.changed = FALSE]]

\* rc_value_from_hits: whether a value counts hits
ValueFromHits(v) ==
    LET all == FlattenSeq([i \in DOMAIN v.sets |-> v.sets[i].conds])
        first == SelectInSeq(all, LAMBDA c : c.type = "measured")
    IN  first # 0 /\ all[first].required # 0

ResetProgress(l) == IF l.progress = <<>> THEN <<>> ELSE <<ResetValue(l.progress[1])>>
ResetValues(l) == [l EXCEPT !.value = ResetValue(@), !.progress = ResetProgress(l)]

\* rc_reset_lboard
ResetLboard(l) ==
    [ResetValues(l) EXCEPT !.state = "waiting", !.start = ResetTrigger(@), !.submit = ResetTrigger(@),
                           !.cancel = ResetTrigger(@)]

\* rc_lboard_state_active
LboardStateActive(state) == state \notin {"disabled", "inactive"}

\* Mutant: a leaderboard starts with what it had counted
LboardStepKeeping(l, start, cancel, submit) ==
    CASE l.state = "active" /\ start /\ ~cancel -> [l EXCEPT !.state = IF submit THEN "triggered" ELSE "started"]
      [] l.state = "started" /\ cancel -> [l EXCEPT !.state = "canceled"]
      [] l.state = "started" /\ submit /\ ~cancel -> [l EXCEPT !.state = "triggered"]
      [] l.state \in {"waiting", "triggered", "canceled"} -> [l EXCEPT !.state = "active"]
      [] OTHER -> l

\* the switch of rc_evaluate_lboard on the three triggers; its branch for a start with neither conditions nor
\* alternatives is left out, as the parser makes no such trigger (rc_parse_trigger_internal)
LboardStep(l, start, cancel, submit) ==
    CASE l.state = "active" /\ start /\ ~cancel ->
            [ResetValues(l) EXCEPT !.state = IF submit THEN "triggered" ELSE "started"]
      [] l.state = "started" /\ cancel -> [l EXCEPT !.state = "canceled"]
      [] l.state = "started" /\ submit /\ ~cancel -> [l EXCEPT !.state = "triggered"]
      [] l.state \in {"waiting", "triggered", "canceled"} -> [l EXCEPT !.state = "active"]
      [] OTHER -> l

\* rc_evaluate_lboard: the leaderboard afterwards, the state its caller sees and the value
LboardResult(l, valued, field) ==
    [lboard |-> IF field = "progress" THEN [l EXCEPT !.progress = <<valued.value>>] ELSE [l EXCEPT !.value = valued.value],
     result |-> l.state, value |-> valued.result]
MeasureLboard(l, at) ==
    LET field == IF l.state = "started" /\ l.progress # <<>> THEN "progress" ELSE "value"
        measured == IF field = "progress" THEN l.progress[1] ELSE l.value
    IN  IF l.state \in {"started", "triggered"} THEN LboardResult(l, EvaluateValue(measured, at), field)
        ELSE [lboard |-> l, result |-> l.state, value |-> 0]
TestedLboard(l, tests, at) ==
    LET tested == [l EXCEPT !.start = tests.start.trigger, !.cancel = tests.cancel.trigger, !.submit = tests.submit.trigger]
    IN  IF l.state \in {"waiting", "triggered", "canceled"} /\ tests.start.ok
        THEN [lboard |-> tested, result |-> "inactive", value |-> 0]
        ELSE MeasureLboard(LboardStep(tested, tests.start.ok, tests.cancel.ok, tests.submit.ok), at)
EvaluateLboard(l, at) ==
    IF LboardStateActive(l.state)
    THEN TestedLboard(l, [f \in {"start", "cancel", "submit"} |-> TestTrigger(l[f], at)], at)
    ELSE [lboard |-> l, result |-> "inactive", value |-> 0]
=============================================================================
