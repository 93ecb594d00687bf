------------------------ MODULE RcRuntime_invariant ------------------------
(***************************************************************************)
(* The inductive invariant of RcRuntime, IInv, and what it is built from:  *)
(* the shape of an operand, a condition, a group, a trigger, a value, a    *)
(* leaderboard and a display line; what parsing, a frame, a reset, a save  *)
(* and a restore make of each; and, for every fold of the model, its step  *)
(* (Step...) and what is claimed after its first k items (Holds...).       *)
(***************************************************************************)
EXTENDS RcRuntime


PsFields == {"pool", "indirect", "addsource", "addoper", "remember", "isValue", "lenient", "target", "hasRequired", "error"}
OperandFields == {"type", "size", "ref", "num", "den", "access", "combining"}
PoolFields == {"plain", "modified", "at"}

(* An operand that reads a computed reference; one of the pool; one the    *)
(* first entries of its list hold.                                         *)
Computed(op) == IsMemref(op) /\ op.ref.kind = "modified"
Known(op, pool) == DOMAIN op = OperandFields /\ (Computed(op) => op.ref \in ToSet(pool.modified))
Earlier(list, i, op) == Computed(op) => \E j \in 1..(i - 1) : list[j] = op.ref
Ordered(list) == \A i \in DOMAIN list : Earlier(list, i, list[i].parent) /\ Earlier(list, i, list[i].modifier)
PoolFine(pool) ==
  /\ DOMAIN pool = PoolFields
  /\ IsList(pool.plain) /\ IsList(pool.modified)
  /\ Ordered(pool.modified)
Fine(ps) ==
  /\ DOMAIN ps = PsFields
  /\ PoolFine(ps.pool)
  /\ Known(ps.indirect, ps.pool)
  /\ Known(ps.addsource, ps.pool)
  /\ Known(ps.remember, ps.pool)

(* What parsing does to the pool, and to the rest of what it carries.      *)
Grows(pool, now) == PoolFine(now) /\ ToSet(pool.modified) \subseteq ToSet(now.modified)
Follows(ps, now) ==
  /\ Fine(now)
  /\ Grows(ps.pool, now.pool)
  /\ now.isValue = ps.isValue
  /\ now.hasRequired = ps.hasRequired
OperandRead(ps, r) == Known(r.op, r.ps.pool) /\ Follows(ps, r.ps)
CondFields == {"type", "op1", "oper", "op2", "required", "hits", "isTrue", "class"}

(* The target a parsed condition has.                                      *)
RawRequired(raw) == IF raw.oper = "none" \/ (raw.flag \in Indirect /\ ~IsModifying(raw.oper)) THEN 0 ELSE raw.hits

(* As Follows, but for a target that was found.                            *)
Goes(ps, now) ==
  /\ Fine(now)
  /\ Grows(ps.pool, now.pool)
  /\ now.isValue = ps.isValue
  /\ ps.hasRequired => now.hasRequired
CondKnown(c, pool) == DOMAIN c = CondFields /\ Known(c.op1, pool) /\ Known(c.op2, pool)
CondRead(ps, raw, r) ==
  /\ CondKnown(r.cond, r.ps.pool)
  /\ r.cond.type = raw.flag /\ r.cond.hits = 0
  /\ r.cond.required = RawRequired(raw)
  /\ Goes(ps, r.ps)
  /\ RawRequired(raw) # 0 => r.ps.hasRequired

(* A condition that differs in what it reads only.                         *)
Alike(c, d) == DOMAIN d = CondFields /\ d.type = c.type /\ d.required = c.required /\ d.hits = c.hits
Updated(c, ps, r) == Alike(c, r.cond) /\ Follows(ps, r.ps)

(* A condition, and a group of them, as newly parsed from a definition.    *)
CondNew(c, raw, ps) ==
  /\ DOMAIN c = CondFields /\ c.type = raw.flag /\ c.hits = 0
  /\ ~ps.isValue => c.required = RawRequired(raw)
SetNew(set, raws, ps) ==
  /\ DOMAIN set = {"conds", "paused"} /\ IsList(set.conds) /\ Len(set.conds) = Len(raws)
  /\ \A i \in 1..Len(raws) : CondNew(set.conds[i], raws[i], ps)
Counts(raws) == \E i \in DOMAIN raws : RawRequired(raws[i]) # 0
CondsetRead(raws, ps, p) ==
  /\ DOMAIN p = {"set", "ps"} /\ Goes(ps, p.ps)
  /\ p.ps.error = Ok => SetNew(p.set, raws, ps) /\ (Counts(raws) => p.ps.hasRequired)

(* The fold over the conditions of a group.                                *)
GroupSoFar(raws, ps, k, conds) ==
  Len(conds) = k /\ \A i \in 1..k : CondNew(conds[i], raws[i], ps)
CountedSoFar(raws, k, found) == \A i \in 1..k : RawRequired(raws[i]) # 0 => found
StepGroup(c, a, x) == ParseGroupCondition(a, x)
HoldsGroup(raws, base, k, a) ==
  /\ DOMAIN a = {"conds", "ps", "measured"} /\ IsList(a.conds)
  /\ Goes(base.ps, a.ps)
  /\ a.ps.error = Ok => GroupSoFar(raws, base.ps, k, a.conds) /\ CountedSoFar(raws, k, a.ps.hasRequired)
TriggerFields == {"core", "alts", "state", "target", "measured", "percent", "hasHits"}

(* As Goes, but for the targets found, which each trigger starts anew.     *)
Stays(ps, now) == Fine(now) /\ Grows(ps.pool, now.pool) /\ now.isValue = ps.isValue

(* A trigger as newly parsed.                                              *)
TriggerNew(t, raw, ps) ==
  /\ DOMAIN t = TriggerFields /\ t.state = "waiting"
  /\ SetNew(t.core, raw.core, ps)
  /\ IsList(t.alts) /\ Len(t.alts) = Len(raw.alts)
  /\ \A i \in 1..Len(raw.alts) : SetNew(t.alts[i], raw.alts[i], ps)
TriggerCounts(raw) == Counts(raw.core) \/ \E i \in 1..Len(raw.alts) : Counts(raw.alts[i])
TriggerParsed(raw, ps, r) ==
  /\ Stays(ps, r.ps)
  /\ r.ps.error = Ok => TriggerNew(r.trigger, raw, ps) /\ (TriggerCounts(raw) => r.ps.hasRequired)

(* The fold over the groups of a trigger.                                  *)
SetsSoFar(groups, ps, k, sets) == Len(sets) = k /\ \A i \in 1..k : SetNew(sets[i], groups[i], ps)
SetsCounted(groups, k, found) == \A i \in 1..k : Counts(groups[i]) => found
StepGroups(c, a, g) == IF a.ps.error # Ok THEN a ELSE AddSet(a, ParseCondset(g, a.ps))
HoldsGroups(groups, base, k, a) ==
  /\ DOMAIN a = {"sets", "ps"} /\ IsList(a.sets)
  /\ Goes(base.ps, a.ps)
  /\ a.ps.error = Ok => SetsSoFar(groups, base.ps, k, a.sets) /\ SetsCounted(groups, k, a.ps.hasRequired)

(* What evaluating a condition, a group or a value needs it to be.         *)
CondShaped(c) == DOMAIN c = CondFields /\ c.type \in Flags
SetShaped(set) ==
  DOMAIN set = {"conds", "paused"} /\ IsList(set.conds) /\ \A i \in DOMAIN set.conds : CondShaped(set.conds[i])
SetsShaped(sets) == IsList(sets) /\ \A i \in DOMAIN sets : SetShaped(sets[i])
ValueShaped(v) == DOMAIN v = {"sets", "cell"} /\ SetsShaped(v.sets) /\ 1 \in DOMAIN v.sets
ValueParsed(ps, r) == Stays(ps, r.ps) /\ (r.ps.error = Ok => ValueShaped(r.value))

(* The fold over the groups of a value.                                    *)
StepValue(c, a, g) ==
  IF a.ps.error # Ok THEN a ELSE AddSet(a, Measures(ParseCondset(g, [a.ps EXCEPT !.target = 0])))
HoldsValue(c, base, k, a) ==
  /\ DOMAIN a = {"sets", "ps"} /\ IsList(a.sets)
  /\ Stays(base.ps, a.ps)
  /\ k = 0 \/ 1 \in DOMAIN a.sets \/ a.ps.error # Ok
  /\ a.ps.error = Ok => SetsShaped(a.sets)

(* The folds over the terms of a value in the older form.                  *)
StepTerm(c, a, raw) == Term(a, ParseCondition(raw, a.ps))
HoldsTerm(c, base, k, a) ==
  /\ DOMAIN a = {"conds", "ps"} /\ IsList(a.conds)
  /\ Stays(base.ps, a.ps)
  /\ \A i \in DOMAIN a.conds : CondShaped(a.conds[i])
TermsRead(g, ps) ==
  FoldLeft(LAMBDA acc, raw : Term(acc, ParseCondition(raw, acc.ps)), [conds |-> <<>>, ps |-> ps], LegacyClause(g))
StepClause(c, a, g) ==
  AddSet(a, [set |-> [conds |-> TermsRead(g, a.ps).conds, paused |-> FALSE], ps |-> TermsRead(g, a.ps).ps])
HoldsClause(c, base, k, a) == HoldsValue(c, base, k, a) /\ SetsShaped(a.sets)
TriggerNames == {"start", "cancel", "submit"}
LboardFields == {"start", "cancel", "submit", "value", "progress", "state"}

(* The definition of a leaderboard's field.                                *)
FieldDef(fields, name) == fields[CHOOSE i \in DOMAIN fields : fields[i].name = name].def

(* What the value fields of a leaderboard hold.                            *)
ValuesShaped(l) ==
  /\ ValueShaped(l.value)
  /\ l.progress = <<>> \/ (l.progress = <<l.progress[1]>> /\ ValueShaped(l.progress[1]))
LboardNew(l, fields, ps) ==
  /\ DOMAIN l = LboardFields /\ l.state = "waiting" /\ ValuesShaped(l)
  /\ \A f \in TriggerNames : TriggerNew(l[f], FieldDef(fields, f), ps) /\ IsRawTrigger(FieldDef(fields, f))
LboardParsed(fields, ps, r) == Stays(ps, r.ps) /\ (r.ps.error = Ok => LboardNew(r.lboard, fields, ps))

(* The fold over the fields of a leaderboard.                              *)
NamesSoFar(fields, k, found) ==
  /\ found = {fields[i].name : i \in 1..k}
  /\ \A i, j \in 1..k : fields[i].name = fields[j].name => i = j
PartsSoFar(fields, ps, k, l) == \A i \in 1..k : fields[i].name \in TriggerNames => TriggerNew(l[fields[i].name], fields[i].def, ps)
ValuesSoFar(l, found) ==
  /\ "value" \in found => ValueShaped(l.value)
  /\ l.progress = <<>> \/ (l.progress = <<l.progress[1]>> /\ ValueShaped(l.progress[1]))
StepField(c, a, f) == ParseField(a, f)
HoldsField(fields, base, k, a) ==
  /\ DOMAIN a = {"lboard", "ps", "found"} /\ Stays(base.ps, a.ps)
  /\ DOMAIN a.lboard = LboardFields /\ a.lboard.state = "waiting"
  /\ a.ps.error = Ok => /\ NamesSoFar(fields, k, a.found)
                        /\ PartsSoFar(fields, base.ps, k, a.lboard)
                        /\ ValuesSoFar(a.lboard, a.found)
AccFields == {"ps", "values", "displays", "parts", "op", "done"}

(* A trigger that can be evaluated; one that counts no hits.               *)
TriggerShaped(t) == DOMAIN t = TriggerFields /\ SetShaped(t.core) /\ SetsShaped(t.alts)
CountsNone(set) == \A i \in DOMAIN set.conds : set.conds[i].required = 0
TriggerCountsNone(t) == CountsNone(t.core) /\ \A i \in DOMAIN t.alts : CountsNone(t.alts[i])

(* What a script is made of.                                               *)
VariablesShaped(values) ==
  IsList(values) /\ \A i \in DOMAIN values : DOMAIN values[i] = {"name", "value"} /\ ValueShaped(values[i].value)
LineShaped(d) ==
  /\ DOMAIN d = {"parts", "trigger", "hasRequired"}
  /\ TriggerShaped(d.trigger)
  /\ d.hasRequired \/ TriggerCountsNone(d.trigger)
LinesShaped(displays) == IsList(displays) /\ \A i \in DOMAIN displays : LineShaped(displays[i])
RichParsed(ps, r) ==
  Stays(ps, r.ps) /\ (r.ps.error = Ok => VariablesShaped(r.rich.values) /\ LinesShaped(r.rich.displays))

(* The fold over the parts of a display line.                              *)
StepPart(c, a, p) == ParsePart(c, a, p)
HoldsPart(c, base, k, a) ==
  /\ DOMAIN a = AccFields /\ Stays(base.ps, a.ps)
  /\ a.displays = base.displays /\ a.done = base.done
  /\ a.ps.error = Ok => VariablesShaped(a.values)
PartsRead(macros, base, parts) == FoldLeft(LAMBDA a, p : ParsePart(macros, a, p), base, parts)

(* The fold over the display lines of a script.                            *)
StepDisplay(c, a, d) == ParseDisplay(c, a, d)
HoldsDisplay(c, base, k, a) ==
  /\ DOMAIN a = AccFields /\ Stays(base.ps, a.ps)
  /\ a.ps.error = Ok => VariablesShaped(a.values) /\ LinesShaped(a.displays)
DisplaysRead(macros, base, displays) == FoldLeft(LAMBDA a, d : ParseDisplay(macros, a, d), base, displays)

(* A condition after it was tested, or reset: only what it counted differs, *)
(* by one at most, and never past its target.                              *)
SameCondition(c, d) ==
  /\ DOMAIN d = CondFields
  /\ d.type = c.type /\ d.op1 = c.op1 /\ d.oper = c.oper /\ d.op2 = c.op2
  /\ d.required = c.required /\ d.class = c.class
HitsCarry(c, d) ==
  c.hits \in Nat => /\ d.hits \in Nat /\ d.hits <= c.hits + 1
                    /\ c.required \in Nat /\ c.hits <= c.required => d.hits <= c.required \/ c.required = 0
CondEvolves(c, d) == SameCondition(c, d) /\ HitsCarry(c, d)

(* What is made of a tally. *)
Evolved(c, r) == DOMAIN r = {"c", "ok", "es"} /\ CondEvolves(c, r.c)

(* A group after it was tested, or reset. *)
ListEvolves(conds, now) ==
  IsList(now) /\ Len(now) = Len(conds) /\ \A i \in 1..Len(conds) : CondEvolves(conds[i], now[i])
SetEvolves(set, now) == DOMAIN now = {"conds", "paused"} /\ ListEvolves(set.conds, now.conds)

(* The conditions of the classes tested so far have evolved, the others are as they were. *)
PhaseSoFar(conds, classes, k, now) ==
  /\ IsList(now) /\ Len(now) = Len(conds)
  /\ \A i \in 1..Len(conds) : IF i <= k /\ conds[i].class \in classes THEN CondEvolves(conds[i], now[i]) ELSE now[i] = conds[i]
One(c, a, i) == EvaluateOne(a.conds[i], a.es, c.at)
StepPhase(c, a, i) ==
  IF a.conds[i].class = c.class /\ ~(c.class = "pause" /\ a.es.stop)
  THEN [conds |-> [a.conds EXCEPT ![i] = One(c, a, i).c], es |-> One(c, a, i).es] ELSE a
HoldsPhase(c, base, k, a) == DOMAIN a = {"conds", "es"} /\ PhaseSoFar(base.conds, {c.class}, k, a.conds)
StepPhases(at, a, class) == TestPhase(a, class, at)
HoldsPhases(at, base, k, a) ==
  DOMAIN a = {"conds", "es"} /\ PhaseSoFar(base.conds, {Phases[j] : j \in 1..k}, Len(base.conds), a.conds)
AllShaped(conds) == IsList(conds) /\ \A i \in DOMAIN conds : CondShaped(conds[i])
PhasesRun(run, at) == FoldLeft(LAMBDA a, class : TestPhase(a, class, at), run, Phases)
SetsEvolve(sets, now) == IsList(now) /\ Len(now) = Len(sets) /\ \A i \in 1..Len(sets) : SetEvolves(sets[i], now[i])
TriggerEvolves(t, u) == DOMAIN u = TriggerFields /\ SetEvolves(t.core, u.core) /\ SetsEvolve(t.alts, u.alts)

(* No hit is left. *)
NoHits(set) == \A i \in 1..Len(set.conds) : set.conds[i].hits = 0
NoHitsIn(sets) == \A i \in 1..Len(sets) : NoHits(sets[i])
TriggerNoHits(t) == NoHits(t.core) /\ NoHitsIn(t.alts)
ResultOf(set, r) == DOMAIN r = {"set", "es", "ok"} /\ SetEvolves(set, r.set)
StepTests(at, a, set) ==
  [results |-> Append(a.results, TestCondset(set, a.es, at)), es |-> TestCondset(set, a.es, at).es]
HoldsTests(c, base, k, a) ==
  /\ DOMAIN a = {"results", "es"} /\ IsList(a.results) /\ Len(a.results) = k
StepSets(c, a, set) == StepTests(c.at, a, set)
HoldsSets(c, base, k, a) ==
  HoldsTests(c, base, k, a) /\ \A i \in 1..k : ResultOf(c.sets[i], a.results[i])
SetsTested(sets, at) ==
  FoldLeft(LAMBDA a, set : StepTests(at, a, set), [results |-> <<>>, es |-> NewEval], sets)
LiveStates == {"waiting", "active", "paused", "primed", "triggered"}
NewState(r) == IF r.result = "reset" THEN r.trigger.state ELSE r.result

(* What a trigger becomes: it triggers only if it was live and had once not been met. *)
TriggerMoved(t, r) ==
  /\ TriggerEvolves(t, r.trigger)
  /\ r.trigger.state \in LiveStates \cup {t.state}
  /\ ~TriggerStateActive(t.state) => r.trigger.state = t.state
  /\ NewState(r) = "triggered" => TriggerStateActive(t.state) /\ t.state # "waiting" /\ r.trigger.state = "triggered"
ValueEvolves(v, u) == DOMAIN u = {"sets", "cell"} /\ SetsEvolve(v.sets, u.sets)

(* What no hit precedes counts one hit at most. *)
AtMostOne(sets) == \A i \in 1..Len(sets) : \A j \in 1..Len(sets[i].conds) : sets[i].conds[j].hits <= 1
LboardShaped(l) == DOMAIN l = LboardFields /\ (\A f \in TriggerNames : TriggerShaped(l[f])) /\ ValuesShaped(l)
LboardEvolves(l, u) ==
  DOMAIN u = LboardFields /\ (\A f \in TriggerNames : TriggerEvolves(l[f], u[f])) /\ ValuesShaped(u)
BoardLive == {"waiting", "active", "started", "canceled", "triggered"}

(* What a leaderboard becomes: when it starts, what it had counted before is forgotten. *)
LboardMoved(l, r) ==
  /\ LboardEvolves(l, r.lboard)
  /\ r.lboard.state \in BoardLive \cup {l.state}
  /\ ~LboardStateActive(l.state) => r.lboard.state = l.state
  /\ r.result = "started" /\ l.state # "started" => AtMostOne(r.lboard.value.sets)
RichHolds(r) == VariablesShaped(r.values) /\ LinesShaped(r.displays)

(* A trigger as its definition makes it, with no hit past a target. *)
CondFits(c, raw) ==
  /\ CondShaped(c) /\ c.required = RawRequired(raw)
  /\ c.required \in Nat /\ c.hits \in Nat /\ (c.required # 0 => c.hits <= c.required)
SetFits(set, raws) ==
  /\ DOMAIN set = {"conds", "paused"} /\ IsList(set.conds) /\ Len(set.conds) = Len(raws)
  /\ \A i \in 1..Len(raws) : CondFits(set.conds[i], raws[i])
SetsFit(sets, groups) ==
  IsList(sets) /\ Len(sets) = Len(groups) /\ \A i \in 1..Len(groups) : SetFits(sets[i], groups[i])
TriggerFits(t, raw) == DOMAIN t = TriggerFields /\ SetFits(t.core, raw.core) /\ SetsFit(t.alts, raw.alts)
LboardFits(l, fields) ==
  DOMAIN l = LboardFields /\ (\A f \in TriggerNames : TriggerFits(l[f], FieldDef(fields, f))) /\ ValuesShaped(l)
RtFields == {"pool", "triggers", "lboards", "rich"}
EntryFits(e) ==
  /\ DOMAIN e = {"id", "def", "trigger", "invalid"} /\ e.id \in Ids /\ e.def \in DOMAIN Triggers
  /\ TriggerFits(e.trigger, Triggers[e.def])
BoardFits(e) ==
  /\ DOMAIN e = {"id", "def", "lboard", "value", "invalid"} /\ e.id \in Ids /\ e.def \in DOMAIN Lboards
  /\ LboardFits(e.lboard, Lboards[e.def])
Apart(list) == \A i, j \in DOMAIN list : list[i].id = list[j].id => i = j
EntriesFit(list) == IsList(list) /\ Apart(list) /\ \A i \in DOMAIN list : EntryFits(list[i])
BoardsFit(list) == IsList(list) /\ Apart(list) /\ \A i \in DOMAIN list : BoardFits(list[i])
RichFits(rich) == DOMAIN rich = {"def", "values", "displays"} /\ RichHolds(rich)
RtFits(rt) ==
  DOMAIN rt = RtFields /\ PoolFine(rt.pool) /\ EntriesFit(rt.triggers) /\ BoardsFit(rt.lboards) /\ RichFits(rt.rich)

\* the entries once an id was activated: its own, started over, and others that were there before
StartedAlone(list, id, now) ==
  \A j \in DOMAIN now : \/ now[j].id = id /\ now[j].trigger.state = "waiting"
                        \/ now[j].id # id /\ \E k \in DOMAIN list : now[j] = list[k]
BoardStartedAlone(list, id, now) ==
  \A j \in DOMAIN now : \/ now[j].id = id /\ now[j].lboard.state = "waiting"
                        \/ now[j].id # id /\ \E k \in DOMAIN list : now[j] = list[k]

\* an entry, and a leaderboard, that starts over
EntryRenewed(e, d) ==
  EntryFits(d) /\ d.id = e.id /\ d.def = e.def /\ d.trigger.state = "waiting" /\ TriggerNoHits(d.trigger)
BoardRenewed(e, d) ==
  /\ BoardFits(d) /\ d.id = e.id /\ d.def = e.def /\ d.lboard.state = "waiting"
  /\ \A f \in TriggerNames : TriggerNoHits(d.lboard[f])
Renewals(rt, now) ==
  /\ DOMAIN now.triggers = DOMAIN rt.triggers /\ \A i \in DOMAIN rt.triggers : EntryRenewed(rt.triggers[i], now.triggers[i])
  /\ DOMAIN now.lboards = DOMAIN rt.lboards /\ \A i \in DOMAIN rt.lboards : BoardRenewed(rt.lboards[i], now.lboards[i])

\* entries that are as they were or disabled
EntryLike(e, d) == EntryFits(d) /\ d.id = e.id /\ d.trigger.state \in {e.trigger.state, "disabled"}
BoardLike(e, d) == BoardFits(d) /\ d.id = e.id /\ d.lboard.state \in {e.lboard.state, "disabled"}
Weakens(rt, now) ==
  /\ RtFits(now)
  /\ DOMAIN now.triggers = DOMAIN rt.triggers /\ \A i \in DOMAIN rt.triggers : EntryLike(rt.triggers[i], now.triggers[i])
  /\ DOMAIN now.lboards = DOMAIN rt.lboards /\ \A i \in DOMAIN rt.lboards : BoardLike(rt.lboards[i], now.lboards[i])

\* what rc_runtime_invalidate_memref does to a trigger of a leaderboard
TurnedOff(t, ref) == IF TriggerContains(t, ref) THEN [t EXCEPT !.state = "disabled"] ELSE t

(* The references of bad addresses, one after another *)
StepInvalid(bad, a, ref) == IF ref.address \in bad THEN InvalidateMemref(a, ref) ELSE a
HoldsInvalid(bad, base, k, a) == RtFits(a) /\ Weakens(base, a)

(* What the entries of a list have told *)
StepTold(c, a, said) == said \o a
HoldsTold(told, base, k, a) ==
  IsList(a) /\ \A j \in DOMAIN a : \E i \in 1..k : \E m \in DOMAIN told[i] : a[j] = told[i][m]

\* events that tell nothing of the kinds a frame alone tells
Quiet(told) == \A j \in DOMAIN told : told[j].type \in {"disabled", "lboard_disabled"}

\* what a frame makes of an achievement's entry, and of a leaderboard's
EntryRan(e, d) ==
  /\ EntryFits(d) /\ d.id = e.id
  /\ d.trigger.state \in LiveStates \cup {e.trigger.state, "disabled"}
  /\ ~TriggerStateActive(e.trigger.state) => d.trigger.state \in {e.trigger.state, "disabled"}
BoardRan(e, d) == BoardFits(d) /\ d.id = e.id /\ d.lboard.state \in BoardLive \cup {e.lboard.state, "disabled"}

\* what an event says of the entry, or the leaderboard, it is about
TellsEntry(said, e, d) ==
  /\ said.id = e.id /\ said.type # "started"
  /\ said.type = "triggered" => /\ TriggerStateActive(e.trigger.state) /\ e.trigger.state # "waiting"
                                /\ d.trigger.state = "triggered"
TellsBoard(said, e, d) ==
  /\ said.id = e.id /\ said.type # "triggered"
  /\ said.type = "started" => AtMostOne(d.lboard.value.sets)

\* what a frame makes of a runtime, and what it tells
Ran(rt, now, told) ==
  /\ RtFits(now)
  /\ DOMAIN now.triggers = DOMAIN rt.triggers /\ \A i \in DOMAIN rt.triggers : EntryRan(rt.triggers[i], now.triggers[i])
  /\ DOMAIN now.lboards = DOMAIN rt.lboards /\ \A i \in DOMAIN rt.lboards : BoardRan(rt.lboards[i], now.lboards[i])
  /\ \A j \in DOMAIN told :
       \/ \E i \in DOMAIN rt.triggers : TellsEntry(told[j], rt.triggers[i], now.triggers[i])
       \/ \E i \in DOMAIN rt.lboards : TellsBoard(told[j], rt.lboards[i], now.lboards[i])

\* events each of which one of the frames of a list's entries told
ToldIn(all, list, t) ==
  \A j \in DOMAIN all : \E i \in DOMAIN list : \E m \in DOMAIN t[i].events : all[j] = t[i].events[m]

\* what is saved of a condition, a group, a trigger and a leaderboard, for the definition they were saved of
CondDataFits(d, raw) == d.hits \in Nat /\ (RawRequired(raw) # 0 => d.hits <= RawRequired(raw))
SetDataFits(data, raws) == \A i \in 1..Len(raws) : CondDataFits(data.conds[i], raws[i])
TriggerDataFits(data, raw) ==
  SetDataFits(data.core, raw.core) /\ \A i \in 1..Len(raw.alts) : SetDataFits(data.alts[i], raw.alts[i])
BoardDataFits(data, fields) == \A f \in TriggerNames : TriggerDataFits(data[f], FieldDef(fields, f))
ChunkFits(c) ==
  /\ c.kind = "achievement" =>
       c.def \in DOMAIN Triggers /\ TriggerDataFits(c.data, Triggers[c.def]) /\ c.data.state \in TriggerStates
  /\ c.kind = "leaderboard" =>
       c.def \in DOMAIN Lboards /\ BoardDataFits(c.data, Lboards[c.def]) /\ c.data.state \in BoardStates
ChunksFit(chunks) == IsList(chunks) /\ \A i \in DOMAIN chunks : ChunkFits(chunks[i])

\* between two calls
StatesFit(rt) ==
  /\ \A i \in DOMAIN rt.triggers : rt.triggers[i].trigger.state \in TriggerStates
  /\ \A i \in DOMAIN rt.lboards : rt.lboards[i].lboard.state \in BoardStates

(* Achievements are written one after another *)
StepWrite(rt, a, e) ==
  IF ~TriggerStateActive(e.trigger.state) THEN a
  ELSE Append(a, Chunk("achievement", e.id, e.def, WriteTrigger(e.trigger, rt.pool.at)))
HoldsWrite(rt, base, k, a) == ChunksFit(a)

(* And so are leaderboards *)
BoardData(l, at) ==
  [state |-> l.state, start |-> WriteTrigger(l.start, at), submit |-> WriteTrigger(l.submit, at),
   cancel |-> WriteTrigger(l.cancel, at), value |-> WriteVariable(l.value, at)]
StepBoard(rt, a, e) ==
  IF ~LboardStateActive(e.lboard.state) THEN a
  ELSE Append(a, Chunk("leaderboard", e.id, e.def, BoardData(e.lboard, rt.pool.at)))

\* what is read back of the references changes their cells alone
PoolLike(pool, now) == PoolFine(now) /\ now.plain = pool.plain /\ now.modified = pool.modified
HoldsPool(c, base, k, p) == PoolLike(base, p)
StepIndirect(c, p, i) ==
  PutCell(PutCell(p, c.set.conds[i].op1, c.data.conds[i].in1), c.set.conds[i].op2, c.data.conds[i].in2)
StepAlt(c, p, i) == ReadIndirect(p, c.t.alts[i], c.data.alts[i])

\* between the first chunk and the last: what a chunk was about has its state, what none was about yet is marked
EntryReadOn(e, d) ==
  /\ EntryFits(d) /\ d.id = e.id
  /\ d.trigger.state = e.trigger.state \/ (e.trigger.state = "unupdated" /\ d.trigger.state \in TriggerStates)
BoardReadOn(e, d) ==
  /\ BoardFits(d) /\ d.id = e.id
  /\ d.lboard.state = e.lboard.state \/ (e.lboard.state = "unupdated" /\ d.lboard.state \in BoardStates)
ReadInto(rt, now) ==
  /\ RtFits(now)
  /\ DOMAIN now.triggers = DOMAIN rt.triggers /\ \A i \in DOMAIN rt.triggers : EntryReadOn(rt.triggers[i], now.triggers[i])
  /\ DOMAIN now.lboards = DOMAIN rt.lboards /\ \A i \in DOMAIN rt.lboards : BoardReadOn(rt.lboards[i], now.lboards[i])

(* The readings of the variables are put back one variable after another. *)
StepNamed(entries, p, v) == ReadNamedCells(p, v, entries)
NamedCells(pool, values, entries) == FoldLeft(LAMBDA p, v : ReadNamedCells(p, v, entries), pool, values)

(* The readings of the lines are put back one line after another. *)
StepLine(c, p, i) == ReadTriggerCells(p, c.lines[i].trigger, c.data[i])

(* The chunks of a save state, one after another. *)
StepChunk(c, a, x) == ReadChunk(a, x)
HoldsRead(c, base, k, a) == RtFits(a) /\ ReadInto(base, a)

\* between two states: an achievement that was over is still so, or has started over
EntryRestored(e, d) ==
  /\ EntryFits(d) /\ d.id = e.id /\ d.trigger.state \in TriggerStates
  /\ ~TriggerStateActive(e.trigger.state) => d.trigger.state \in {e.trigger.state, "waiting"}
BoardRestored(e, d) == BoardFits(d) /\ d.id = e.id /\ d.lboard.state \in BoardStates
RuntimeRestored(rt, now) ==
  /\ RtFits(now)
  /\ DOMAIN now.triggers = DOMAIN rt.triggers /\ \A i \in DOMAIN rt.triggers : EntryRestored(rt.triggers[i], now.triggers[i])
  /\ DOMAIN now.lboards = DOMAIN rt.lboards /\ \A i \in DOMAIN rt.lboards : BoardRestored(rt.lboards[i], now.lboards[i])

\* and before what no chunk was about starts over
EntryHalfway(e, d) ==
  /\ EntryFits(d) /\ d.id = e.id /\ d.trigger.state \in TriggerStates \cup {"unupdated"}
  /\ ~TriggerStateActive(e.trigger.state) => d.trigger.state = e.trigger.state
BoardHalfway(e, d) == BoardFits(d) /\ d.id = e.id /\ d.lboard.state \in BoardStates \cup {"unupdated"}
Halfway(rt, now) ==
  /\ RtFits(now)
  /\ DOMAIN now.triggers = DOMAIN rt.triggers /\ \A i \in DOMAIN rt.triggers : EntryHalfway(rt.triggers[i], now.triggers[i])
  /\ DOMAIN now.lboards = DOMAIN rt.lboards /\ \A i \in DOMAIN rt.lboards : BoardHalfway(rt.lboards[i], now.lboards[i])

(* The inductive invariant. *)
\* an achievement that triggered is over until it is started over, and one that was started over has not run since
OverStays == \A i \in DOMAIN runtime.triggers :
  runtime.triggers[i].id \in fired => runtime.triggers[i].trigger.state \in {"triggered", "disabled"}
FreshWaits == \A i \in DOMAIN runtime.triggers :
  runtime.triggers[i].id \in fresh => runtime.triggers[i].trigger.state \in {"waiting", "disabled"}
SavedFits == DOMAIN saved = {"chunks", "complete"} /\ saved.complete \in BOOLEAN /\ ChunksFit(saved.chunks)
Counting == frames \in 0..MaxFrames /\ calls \in 0..MaxCalls
IInv ==
  /\ Counting
  /\ RtFits(runtime) /\ StatesFit(runtime)
  /\ fired \subseteq Ids /\ fresh \subseteq Ids
  /\ OverStays /\ FreshWaits /\ SavedFits

(* The first states. *)
\* of what was just started
AllWaiting(rt) ==
  /\ \A i \in DOMAIN rt.triggers : rt.triggers[i].trigger.state = "waiting"
  /\ \A i \in DOMAIN rt.lboards : rt.lboards[i].lboard.state = "waiting"
StepLine1(c, a, x) == ActivateAchievement(a, x.id, x.def)
StepLine2(c, a, x) == ActivateLboard(a, x.id, x.def)
HoldsLineUp(c, base, k, a) == RtFits(a) /\ AllWaiting(a)
EntriesLinedUp(rt, list) == FoldLeft(LAMBDA a, x : ActivateAchievement(a, x.id, x.def), rt, list)
BoardsLinedUp(rt, list) == FoldLeft(LAMBDA a, x : ActivateLboard(a, x.id, x.def), rt, list)

(* So do the frames of an earlier session. *)
StepPast(c, a, m) == DoFrame(a, m).rt
HoldsPast(c, base, k, a) == RtFits(a) /\ StatesFit(a)
PastRun(rt) == FoldLeft(LAMBDA a, m : DoFrame(a, m).rt, rt, Past)

\* what TriggersOnce and ValueCountsFromStart say of a step
OnceStep == Told(events', "triggered") \cap (fired \cup fresh) = {}
CountsStep ==
  \A i \in DOMAIN runtime'.lboards :
    runtime'.lboards[i].id \in Told(events', "started") =>
      \A c \in UNION {ToSet(g.conds) : g \in ToSet(runtime'.lboards[i].lboard.value.sets)} : c.hits <= 1

(* Two runs of the same conditions, of which none has a target, that differ in the hits counted so far: what is
   carried from one condition to the next agrees but for the hits added and for what was reset. *)
EsFields == DOMAIN NewEval
EsAgree(es, fs) ==
  /\ DOMAIN es = EsFields /\ DOMAIN fs = EsFields
  /\ es.isTrue = fs.isTrue /\ es.paused = fs.paused /\ es.stop = fs.stop
  /\ es.andNext = fs.andNext /\ es.orNext = fs.orNext /\ es.resetNext = fs.resetNext
  /\ es.wasReset = fs.wasReset
CondAgrees(c, d) == CondShaped(c) /\ CondShaped(d) /\ SameCondition(c, d) /\ c.required = 0
Agree(c, r, s) ==
  /\ DOMAIN r = {"c", "ok", "es"} /\ DOMAIN s = {"c", "ok", "es"}
  /\ r.c.type = c.type /\ s.c.type = c.type /\ r.c.required = 0 /\ s.c.required = 0
  /\ r.ok = s.ok /\ EsAgree(r.es, s.es)

\* two lists of conditions that agree
ListsAgree(s, t) ==
  AllShaped(s) /\ AllShaped(t) /\ Len(s) = Len(t) /\ \A i \in 1..Len(s) : CondAgrees(s[i], t[i])
RunsAgree(a, b) ==
  DOMAIN a = {"conds", "es"} /\ DOMAIN b = {"conds", "es"} /\ ListsAgree(a.conds, b.conds) /\ EsAgree(a.es, b.es)

\* two groups that agree
SetsAgree(g, h) == SetShaped(g) /\ SetShaped(h) /\ ListsAgree(g.conds, h.conds)
ResultsAgree(r, s) == r.ok = s.ok /\ EsAgree(r.es, s.es)
GroupsAgree(sets, others) ==
  /\ SetsShaped(sets) /\ SetsShaped(others) /\ Len(sets) = Len(others)
  /\ \A i \in 1..Len(sets) : SetsAgree(sets[i], others[i])
TriggersAgree(t, u) ==
  TriggerShaped(t) /\ TriggerShaped(u) /\ SetsAgree(t.core, u.core) /\ GroupsAgree(t.alts, u.alts)
PartOn(op, values) ==
  LET i == SelectInSeq(values, LAMBDA v : op.ref.name = v.name)
  IN  IF op.ref.kind = "variable" THEN CellValue(values[i].value.cell, "address") ELSE EvaluateOperand(op, runtime.pool.at)
NoText == [out |-> <<>>, ended |-> "none"]
StepText(c, acc, p) == ShowPart(acc, p, PartOn(p.op, c))
HoldsNone(c, base, k, a) == TRUE

(* The condition of a line is met: tested as if it were active, its trigger triggers. *)
Met(t, at) == LET g == TestGroups([t EXCEPT !.state = "active"], at) IN ~g.es.wasReset /\ g.ok

(* The conditions of a trigger that have a target. *)
Targeted(t) == {c \in UNION {ToSet(g.conds) : g \in GroupsOf(t)} : c.required # 0}

(* The lines of rich presence when it was asked: which conditions are met, and which line is shown. *)
Asked(lines, at) ==
  [i \in DOMAIN lines |-> IF lines[i].hasRequired \/ i = Len(lines) THEN lines[i].trigger
                          ELSE TestTrigger(lines[i].trigger, at).trigger]
MetLines(now) == {i \in DOMAIN now : i = Len(now) \/ now[i].state = "triggered"}
ShownLine(now) == CHOOSE i \in MetLines(now) : \A j \in MetLines(now) : i <= j
LinesAfter(lines, now, line) ==
  [i \in DOMAIN lines |-> IF i <= line THEN [lines[i] EXCEPT !.trigger = now[i]] ELSE lines[i]]
=============================================================================
