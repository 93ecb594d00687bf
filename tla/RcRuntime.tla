------------------------------ MODULE RcRuntime ------------------------------
(***************************************************************************)
(* The achievement runtime: the definitions it was given, the frames it    *)
(* runs and the events it raises (runtime.c), and the progress it writes   *)
(* into a save state and reads back (runtime_progress.c).                  *)
(*                                                                         *)
(* A definition is named, and its name stands for the checksum the code    *)
(* compares definitions by.  A saved progress is the sequence of its       *)
(* chunks, "complete" when the closing one with its checksum is there.     *)
(***************************************************************************)
EXTENDS RcRichPresence

CONSTANTS Triggers,     \* [name of a definition -> raw trigger]
          Lboards,      \* [name -> raw leaderboard]
          Scripts,      \* [name -> raw rich presence script]
          Addresses,    \* the addresses memory has
          Memories,     \* the contents memory may have, each a function from Addresses to bytes
          Past,         \* the memories an earlier session went through before its save state
          LineUps,      \* what may be active at the start: records [achievements, lboards, script]
          Activations,  \* the achievements that may be activated later, records [id, def]
          BoardActivations,  \* and the leaderboards
          Ids,          \* identifiers of achievements and of leaderboards
          MaxFrames,    \* bound: frames run
          MaxCalls      \* bound: calls other than frames

\* definitions as the parser is given them; the host gives only ids and definitions it has
ASSUME DefinitionsAssumption ==
    /\ \A def \in DOMAIN Triggers : IsRawTrigger(Triggers[def])
    /\ \A def \in DOMAIN Lboards : IsRawLboard(Lboards[def])
    /\ \A def \in DOMAIN Scripts : IsRawScript(Scripts[def])
ASSUME HostAssumption ==
    /\ MaxFrames \in Nat /\ MaxCalls \in Nat /\ IsList(Past)
    /\ Activations \subseteq [id : Ids, def : DOMAIN Triggers]
    /\ BoardActivations \subseteq [id : Ids, def : DOMAIN Lboards]
    /\ \A l \in LineUps :
        /\ IsList(l.achievements)
        /\ \A i \in DOMAIN l.achievements : l.achievements[i] \in [id : Ids, def : DOMAIN Triggers]
        /\ IsList(l.lboards)
        /\ \A i \in DOMAIN l.lboards : l.lboards[i] \in [id : Ids, def : DOMAIN Lboards]
        /\ l.script \in {"none"} \cup DOMAIN Scripts

VARIABLES runtime,  \* rc_runtime_t
          events,   \* the events the last call raised, in order
          saved,    \* the progress last serialized
          fired,    \* history: achievements that triggered since they were last started over
          fresh,    \* history: achievements no frame has run for since they were last started over
          frames, calls

vars == <<runtime, events, saved, fired, fresh, frames, calls>>

Event(type, id, value) == [type |-> type, id |-> id, value |-> value]
NoScript == "none"
NoRich == [def |-> NoScript, values |-> <<>>, displays |-> <<>>]
Rich(def, r) == [def |-> def, values |-> r.values, displays |-> r.displays]
EmptyRuntime == [pool |-> EmptyPool, triggers |-> <<>>, lboards |-> <<>>, rich |-> NoRich]

-----------------------------------------------------------------------------
(* Definitions come and go *)

IndexOf(list, id) == SelectInSeq(list, LAMBDA e : e.id = id)

\* rc_runtime_deactivate_trigger_by_index, rc_runtime_deactivate_lboard_by_index: the last one takes its place
Drop(list, i) == Front(IF i < Len(list) THEN [list EXCEPT ![i] = Last(list)] ELSE list)

\* rc_runtime_activate_achievement: an unchanged definition starts over; a changed one is replaced, or lost if it
\* does not parse.  (No trigger is ever kept without being active, so the search for one is left out.)
Without(rt, list, i) == IF i = 0 THEN rt ELSE [rt EXCEPT ![list] = Drop(@, i)]
Enter(rt, list, entry, pool) == [rt EXCEPT ![list] = Append(@, entry), !.pool = pool]
NewTrigger(rt, i, id, def, parsed) ==
    LET new == [id |-> id, def |-> def, trigger |-> ResetTrigger(parsed.trigger), invalid |-> NoRef]
    IN  IF parsed.ps.error # Ok THEN Without(rt, "triggers", i)
        ELSE Enter(Without(rt, "triggers", i), "triggers", new, parsed.ps.pool)
ActivateAchievement(rt, id, def) ==
    LET i == IndexOf(rt.triggers, id)
    IN  IF i # 0 /\ rt.triggers[i].def = def THEN [rt EXCEPT !.triggers[i].trigger = ResetTrigger(@)]
        ELSE NewTrigger(rt, i, id, def, ParseTrigger(Triggers[def], ParseState(rt.pool, FALSE)))

\* rc_runtime_deactivate_achievement
DeactivateAchievement(rt, id) == Without(rt, "triggers", IndexOf(rt.triggers, id))

\* rc_runtime_activate_lboard
NewLboard(rt, i, id, def, parsed) ==
    LET new == [id |-> id, def |-> def, lboard |-> ResetLboard(parsed.lboard), value |-> 0, invalid |-> NoRef]
    IN  IF parsed.ps.error # Ok THEN Without(rt, "lboards", i)
        ELSE Enter(Without(rt, "lboards", i), "lboards", new, parsed.ps.pool)
ActivateLboard(rt, id, def) ==
    LET i == IndexOf(rt.lboards, id)
    IN  IF i # 0 /\ rt.lboards[i].def = def THEN [rt EXCEPT !.lboards[i].lboard = ResetLboard(@)]
        ELSE NewLboard(rt, i, id, def, ParseLboard(Lboards[def], ParseState(rt.pool, FALSE)))

\* rc_runtime_deactivate_lboard
DeactivateLboard(rt, id) == Without(rt, "lboards", IndexOf(rt.lboards, id))

\* rc_runtime_activate_richpresence: a script that does not parse leaves the one before it
NewScript(rt, def, parsed) ==
    IF parsed.ps.error # Ok THEN rt
    ELSE [rt EXCEPT !.rich = Rich(def, ResetRichPresence(parsed.rich)), !.pool = parsed.ps.pool]
ActivateRichPresence(rt, def) ==
    IF rt.rich.def = def THEN [rt EXCEPT !.rich = Rich(def, ResetRichPresence(@))]
    ELSE NewScript(rt, def, ParseRichPresence(Scripts[def], ParseState(rt.pool, FALSE)))

ResetEntry(e) == [e EXCEPT !.trigger = ResetTrigger(@)]
ResetBoard(e) == [e EXCEPT !.lboard = ResetLboard(@)]

\* Mutant: leaderboards go on
ResetTriggersOnly(rt) == [rt EXCEPT !.triggers = [i \in DOMAIN @ |-> ResetEntry(@[i])]]

\* rc_runtime_reset
ResetRuntime(rt) ==
    [rt EXCEPT !.triggers = [i \in DOMAIN @ |-> ResetEntry(@[i])],
               !.lboards = [i \in DOMAIN @ |-> ResetBoard(@[i])],
               !.rich = Rich(@.def, ResetRichPresence(@))]

-----------------------------------------------------------------------------
(* A frame *)

\* the progress event of rc_runtime_do_frame: a percentage is told only when it changes
ProgressEvents(id, old, t, state) ==
    LET told == /\ t.measured # old /\ old # MeasuredUnknown /\ t.target # 0 /\ t.measured <= t.target
                /\ state \notin {"triggered", "inactive", "waiting"}
        percent(n) == (n * 100) \div t.target
    IN  CASE ~told -> <<>>
          [] told /\ t.percent /\ percent(old) = percent(t.measured) -> <<>>
          [] told /\ t.percent /\ percent(old) # percent(t.measured) -> <<Event("progress", id, percent(t.measured))>>
          [] OTHER -> <<Event("progress", id, t.measured)>>

\* the events for a change of state
StateEvents(id, old, new) ==
    (IF old = "primed" /\ new # old THEN <<Event("unprimed", id, 0)>> ELSE <<>>)
    \o (IF new # old /\ (new \in {"triggered", "paused", "primed"} \/ (new = "active" /\ old \in {"waiting", "paused"}))
        THEN <<Event(IF new = "active" THEN "activated" ELSE new, id, 0)>> ELSE <<>>)

\* rc_runtime_do_frame, one achievement: an invalid reference disables it, a reset is told apart from the state
TriggerEvents(e, r) ==
    LET new == IF r.result = "reset" THEN r.trigger.state ELSE r.result
        reset == IF r.result = "reset" THEN <<Event("reset", e.id, 0)>> ELSE <<>>
    IN  [entry |-> [e EXCEPT !.trigger = r.trigger],
         events |-> reset \o ProgressEvents(e.id, e.trigger.measured, r.trigger, new)
                    \o StateEvents(e.id, e.trigger.state, new)]
FrameTrigger(e, at) ==
    IF e.invalid = NoRef THEN TriggerEvents(e, EvaluateTrigger(e.trigger, at))
    ELSE [entry |-> [e EXCEPT !.trigger.state = "disabled", !.invalid = NoRef],
          events |-> <<Event("disabled", e.id, e.invalid.address)>>]

\* rc_runtime_do_frame, one leaderboard
LboardEvents(e, r) ==
    LET was == e.lboard.state
        valued == [e EXCEPT !.lboard = r.lboard, !.value = r.value]
        plain == [e EXCEPT !.lboard = r.lboard]
    IN  CASE r.result = "started" /\ was # "started" ->
               [entry |-> valued, events |-> <<Event("started", e.id, r.value)>>]
          [] r.result = "started" /\ was = "started" /\ r.value # e.value ->
               [entry |-> valued, events |-> <<Event("updated", e.id, r.value)>>]
          [] r.result = "canceled" /\ was # "canceled" -> [entry |-> plain, events |-> <<Event("canceled", e.id, 0)>>]
          [] r.result = "triggered" /\ was # "triggered" ->
               [entry |-> plain, events |-> <<Event("submitted", e.id, r.value)>>]
          [] OTHER -> [entry |-> plain, events |-> <<>>]
FrameLboard(e, at) ==
    IF e.invalid = NoRef THEN LboardEvents(e, EvaluateLboard(e.lboard, at))
    ELSE [entry |-> [e EXCEPT !.lboard.state = "disabled", !.invalid = NoRef],
          events |-> <<Event("lboard_disabled", e.id, e.invalid.address)>>]

\* what the entries of a list have told, the last entry first
FromLast(told) == FoldLeft(LAMBDA all, said : said \o all, <<>>, told)

\* rc_runtime_do_frame: memory first, then achievements and leaderboards from the last to the first
FrameResult(rt, pool, t, l, rich) ==
    LET told(list) == FromLast([i \in DOMAIN list |-> list[i].events])
    IN  [rt |-> [pool |-> pool, triggers |-> [i \in DOMAIN t |-> t[i].entry], lboards |-> [i \in DOMAIN l |-> l[i].entry],
                 rich |-> Rich(rt.rich.def, rich)],
         events |-> told(t) \o told(l)]
FrameOn(rt, pool) ==
    FrameResult(rt, pool, [i \in DOMAIN rt.triggers |-> FrameTrigger(rt.triggers[i], pool.at)],
                [i \in DOMAIN rt.lboards |-> FrameLboard(rt.lboards[i], pool.at)],
                UpdateRichPresence(rt.rich, pool.at))
DoFrame(rt, m) == FrameOn(rt, UpdateMemrefValues(rt.pool, m))

-----------------------------------------------------------------------------
(* Addresses the console does not have *)

\* rc_condset_contains_memref, rc_trigger_contains_memref, rc_value_contains_memref: named by a condition itself
CondsetContains(set, ref) ==
    \E i \in DOMAIN set.conds : \E op \in {set.conds[i].op1, set.conds[i].op2} : IsMemref(op) /\ op.ref = ref
TriggerContains(t, ref) == \E set \in {t.core} \cup ToSet(t.alts) : CondsetContains(set, ref)
ValueContains(v, ref)   == \E set \in ToSet(v.sets) : CondsetContains(set, ref)

\* rc_runtime_invalidate_memref
InvalidateMemref(rt, ref) ==
    LET trigger(e) == IF e.invalid = NoRef /\ TriggerContains(e.trigger, ref) THEN [e EXCEPT !.invalid = ref] ELSE e
        off(t) == IF TriggerContains(t, ref) THEN [t EXCEPT !.state = "disabled"] ELSE t
        hit(l) == ValueContains(l.value, ref) \/ \E t \in {l.start, l.cancel, l.submit} : TriggerContains(t, ref)
        lboard(e) ==
            IF e.invalid # NoRef \/ ~hit(e.lboard) THEN e
            ELSE [e EXCEPT !.invalid = ref, !.lboard.start = off(@), !.lboard.cancel = off(@), !.lboard.submit = off(@)]
    IN  [rt EXCEPT !.pool.at[ref].type = "none",
                   !.triggers = [i \in DOMAIN @ |-> trigger(@[i])],
                   !.lboards = [i \in DOMAIN @ |-> lboard(@[i])]]

\* every reference to one of the addresses
InvalidateAll(rt, bad) ==
    FoldLeft(LAMBDA acc, ref : IF ref.address \in bad THEN InvalidateMemref(acc, ref) ELSE acc, rt, rt.pool.plain)

\* rc_runtime_invalidate_address: told of at the next frame
InvalidateAddress(rt, address) == InvalidateAll(rt, {address})

\* rc_runtime_validate_addresses: told of at once
DisableInvalid(rt) ==
    LET off(e) == e.invalid # NoRef
        told(list, type) == FromLast([i \in DOMAIN list |->
            IF off(list[i]) THEN <<Event(type, list[i].id, list[i].invalid.address)>> ELSE <<>>])
        trigger(e) == IF off(e) THEN [e EXCEPT !.trigger.state = "disabled", !.invalid = NoRef] ELSE e
        lboard(e) == IF off(e) THEN [e EXCEPT !.lboard.state = "disabled", !.invalid = NoRef] ELSE e
    IN  [rt |-> [rt EXCEPT !.triggers = [i \in DOMAIN @ |-> trigger(@[i])], !.lboards = [i \in DOMAIN @ |-> lboard(@[i])]],
         events |-> told(rt.triggers, "disabled") \o told(rt.lboards, "lboard_disabled")]
ValidateAddresses(rt, bad) ==
    IF \A ref \in ToSet(rt.pool.plain) : ref.address \notin bad THEN [rt |-> rt, events |-> <<>>]
    ELSE DisableInvalid(InvalidateAll(rt, bad))

-----------------------------------------------------------------------------
(* Progress written *)

\* rc_runtime_progress_is_indirect_memref: a reading through a pointer is kept with the condition that makes it
IndirectCell(op, at) ==
    IF op.type \notin {"none", "const", "fp", "recall", "func"} /\ op.ref.kind = "modified" /\ op.ref.oper = "indirect"
    THEN <<at[op.ref]>> ELSE <<>>

\* rc_runtime_progress_write_condset, rc_runtime_progress_write_trigger
WriteCondset(set, at) ==
    [paused |-> set.paused,
     conds |-> [i \in DOMAIN set.conds |->
        LET c == set.conds[i]
        IN  [hits |-> c.hits, isTrue |-> c.isTrue, in1 |-> IndirectCell(c.op1, at), in2 |-> IndirectCell(c.op2, at)]]]
WriteTrigger(t, at) ==
    [state |-> t.state, measured |-> t.measured, core |-> WriteCondset(t.core, at),
     alts |-> [i \in DOMAIN t.alts |-> WriteCondset(t.alts[i], at)]]

\* rc_runtime_progress_should_serialize_variable_condset
KeepsConditions(set) ==
    \E i \in DOMAIN set.conds : set.conds[i].class = "pause" \/ set.conds[i].required > 0

\* rc_runtime_progress_write_variable: only the first of the sets a maximum is taken of
WriteVariable(v, at) ==
    [cell |-> v.cell, set |-> IF KeepsConditions(v.sets[1]) THEN <<WriteCondset(v.sets[1], at)>> ELSE <<>>]

Chunk(kind, id, def, data) == [kind |-> kind, id |-> id, def |-> def, data |-> data]

\* rc_runtime_progress_write_memrefs
WriteMemrefs(rt) ==
    IF rt.pool.plain = <<>> THEN <<>>
    ELSE <<Chunk("memrefs", 0, "", [i \in DOMAIN rt.pool.plain |->
                [ref |-> rt.pool.plain[i], cell |-> rt.pool.at[rt.pool.plain[i]]]])>>

\* rc_runtime_progress_write_variables
WriteVariables(rt) ==
    IF rt.rich.values = <<>> THEN <<>>
    ELSE <<Chunk("variables", 0, "", [i \in DOMAIN rt.rich.values |->
                [name |-> rt.rich.values[i].name, data |-> WriteVariable(rt.rich.values[i].value, rt.pool.at)]])>>

\* rc_runtime_progress_write_achievements: those that are over or were never active are left out
WriteAchievements(rt) ==
    FoldLeft(LAMBDA all, e : IF ~TriggerStateActive(e.trigger.state) THEN all
                             ELSE Append(all, Chunk("achievement", e.id, e.def, WriteTrigger(e.trigger, rt.pool.at))),
             <<>>, rt.triggers)

\* rc_runtime_progress_write_leaderboards: the measured progress of one is not kept
WriteLboards(rt) ==
    LET data(l) == [state |-> l.state, start |-> WriteTrigger(l.start, rt.pool.at),
                    submit |-> WriteTrigger(l.submit, rt.pool.at), cancel |-> WriteTrigger(l.cancel, rt.pool.at),
                    value |-> WriteVariable(l.value, rt.pool.at)]
    IN  FoldLeft(LAMBDA all, e : IF ~LboardStateActive(e.lboard.state) THEN all
                                 ELSE Append(all, Chunk("leaderboard", e.id, e.def, data(e.lboard))),
                 <<>>, rt.lboards)

\* rc_runtime_progress_write_rich_presence: the conditions of the conditional lines
WriteRichPresence(rt) ==
    IF Len(rt.rich.displays) < 2 THEN <<>>
    ELSE <<Chunk("rich", 0, rt.rich.def, [i \in 1..(Len(rt.rich.displays) - 1) |->
                WriteTrigger(rt.rich.displays[i].trigger, rt.pool.at)])>>

\* rc_runtime_progress_serialize_internal
Serialize(rt) ==
    WriteMemrefs(rt) \o WriteVariables(rt) \o WriteAchievements(rt) \o WriteLboards(rt) \o WriteRichPresence(rt)

-----------------------------------------------------------------------------
(* Progress read back *)

\* Mutant: the value alone is read back
RestoredValue(cell, from) == [cell EXCEPT !.value = from.value]

\* the value and the prior value of a cell, whose type is the reader's
Restored(cell, from) == [cell EXCEPT !.value = from.value, !.prior = from.prior, !.changed = from.changed]

\* rc_runtime_progress_update_modified_memrefs: what is computed from other references is computed again
Recombine(ref, type, parent, modifier) ==
    Ratio(Convert(IF ref.oper = "sub_parent" THEN SubtractFrom(parent, modifier) ELSE Combine(parent, modifier, ref.oper), type))
RecomputeCell(at, ref) ==
    LET before(op) == IF IsMemref(op) THEN [at EXCEPT ![op.ref].value = at[op.ref].prior] ELSE at
        moved(op) == IsMemref(op) /\ at[op.ref].changed
        result(view(_)) == Recombine(ref, at[ref].type, EvaluateOperand(ref.parent, view(ref.parent)),
                                     EvaluateOperand(ref.modifier, view(ref.modifier)))
    IN  IF ref.oper = "indirect" THEN [at EXCEPT ![ref].changed = FALSE]
        ELSE [at EXCEPT ![ref] = [@ EXCEPT !.value = result(LAMBDA op : at), !.prior = result(before),
                                           !.changed = moved(ref.parent) \/ moved(ref.modifier)]]

\* rc_runtime_progress_read_memrefs: a reference the runtime does not have is passed over
ReadMemrefs(pool, entries) ==
    LET read(at, e) == IF e.ref \in ToSet(pool.plain) THEN [at EXCEPT ![e.ref] = Restored(@, e.cell)] ELSE at
    IN  [pool EXCEPT !.at = FoldLeft(RecomputeCell, FoldLeft(read, pool.at, entries), pool.modified)]

\* rc_runtime_progress_read_condset, and the readings through pointers it puts back
ReadCondset(set, data) ==
    [paused |-> data.paused,
     conds |-> [i \in DOMAIN set.conds |->
        [set.conds[i] EXCEPT !.hits = data.conds[i].hits, !.isTrue = data.conds[i].isTrue]]]
PutCell(pool, op, cell) == IF cell = <<>> THEN pool ELSE [pool EXCEPT !.at[op.ref] = Restored(@, cell[1])]
ReadIndirect(pool, set, data) ==
    LET read(p, i) == PutCell(PutCell(p, set.conds[i].op1, data.conds[i].in1), set.conds[i].op2, data.conds[i].in2)
    IN  FoldLeft(read, pool, [i \in DOMAIN set.conds |-> i])

\* rc_runtime_progress_read_trigger: whether it had hits is not part of the data
ReadTrigger(t, data) ==
    [t EXCEPT !.state = data.state, !.measured = data.measured, !.core = ReadCondset(@, data.core),
              !.alts = [i \in DOMAIN t.alts |-> ReadCondset(t.alts[i], data.alts[i])]]
ReadTriggerCells(pool, t, data) ==
    FoldLeft(LAMBDA p, i : ReadIndirect(p, t.alts[i], data.alts[i]), ReadIndirect(pool, t.core, data.core),
             [i \in DOMAIN t.alts |-> i])

\* rc_runtime_progress_read_variable
ReadVariable(v, data) ==
    [v EXCEPT !.cell = Restored(@, data.cell),
              !.sets[1] = IF data.set = <<>> THEN ResetCondset(@) ELSE ReadCondset(@, data.set[1])]
ReadVariableCells(pool, v, data) ==
    IF data.set = <<>> THEN pool ELSE ReadIndirect(pool, v.sets[1], data.set[1])

\* rc_runtime_progress_read_variables: one that was not saved starts over
SavedAt(v, entries) == SelectInSeq(entries, LAMBDA e : e.name = v.name)
ReadNamed(v, entries) ==
    IF SavedAt(v, entries) = 0 THEN [v EXCEPT !.value = ResetValue(@)]
    ELSE [v EXCEPT !.value = ReadVariable(@, entries[SavedAt(v, entries)].data)]
ReadNamedCells(pool, v, entries) ==
    IF SavedAt(v, entries) = 0 THEN pool ELSE ReadVariableCells(pool, v.value, entries[SavedAt(v, entries)].data)
\* it stops at a saved one the script does not have: its data is not skipped but taken for names, which nothing has
Followed(rt, entries) ==
    LET lacking == SelectInSeq(entries, LAMBDA e : \A i \in DOMAIN rt.rich.values : rt.rich.values[i].name # e.name)
    IN  IF lacking = 0 THEN entries ELSE SubSeq(entries, 1, lacking - 1)
ReadVariables(rt, entries) ==
    [rt EXCEPT !.rich.values = [i \in DOMAIN @ |-> ReadNamed(@[i], entries)],
               !.pool = FoldLeft(LAMBDA p, v : ReadNamedCells(p, v, entries), @, rt.rich.values)]

\* Mutant: one that is over is restored too
ReadAnyAchievement(rt, c) ==
    LET i == IndexOf(rt.triggers, c.id)
    IN  IF i = 0 \/ rt.triggers[i].def # c.def THEN rt
        ELSE [rt EXCEPT !.triggers[i].trigger = ReadTrigger(@, c.data)]

\* rc_runtime_progress_read_achievement: only one still waiting to be restored, and only if its definition is the same
ReadAchievement(rt, c) ==
    LET i == IndexOf(rt.triggers, c.id)
    IN  IF i = 0 \/ rt.triggers[i].trigger.state # "unupdated" \/ rt.triggers[i].def # c.def THEN rt
        ELSE [rt EXCEPT !.triggers[i].trigger = ReadTrigger(@, c.data),
                        !.pool = ReadTriggerCells(@, rt.triggers[i].trigger, c.data)]

\* rc_runtime_progress_read_leaderboard
ReadBoard(l, data) ==
    [l EXCEPT !.start = ReadTrigger(@, data.start), !.submit = ReadTrigger(@, data.submit),
              !.cancel = ReadTrigger(@, data.cancel), !.value = ReadVariable(@, data.value), !.state = data.state]
ReadBoardCells(pool, l, data) ==
    LET started == ReadTriggerCells(pool, l.start, data.start)
        submitted == ReadTriggerCells(started, l.submit, data.submit)
    IN  ReadVariableCells(ReadTriggerCells(submitted, l.cancel, data.cancel), l.value, data.value)
ReadLboard(rt, c) ==
    LET i == IndexOf(rt.lboards, c.id)
        l == rt.lboards[i].lboard
    IN  IF i = 0 \/ l.state # "unupdated" \/ rt.lboards[i].def # c.def THEN rt
        ELSE [rt EXCEPT !.lboards[i].lboard = ReadBoard(@, c.data), !.pool = ReadBoardCells(@, l, c.data)]

\* rc_runtime_progress_read_rich_presence
ReadLine(d, data) == [d EXCEPT !.trigger = ReadTrigger(@, data)]
ReadLines(lines, data) == [i \in DOMAIN lines |-> IF i = Len(lines) THEN lines[i] ELSE ReadLine(lines[i], data[i])]
ReadLineCells(pool, lines, data) ==
    FoldLeft(LAMBDA p, i : ReadTriggerCells(p, lines[i].trigger, data[i]), pool, [i \in 1..(Len(lines) - 1) |-> i])
ReadRichPresence(rt, c) ==
    IF rt.rich.def = NoScript THEN rt
    ELSE IF rt.rich.def # c.def THEN [rt EXCEPT !.rich = Rich(@.def, ResetDisplays(@))]
    ELSE [rt EXCEPT !.rich.displays = ReadLines(@, c.data), !.pool = ReadLineCells(@, rt.rich.displays, c.data)]

ReadChunk(rt, c) ==
    CASE c.kind = "memrefs"     -> [rt EXCEPT !.pool = ReadMemrefs(@, c.data)]
      [] c.kind = "variables"   -> IF rt.rich.values = <<>> THEN rt ELSE ReadVariables(rt, Followed(rt, c.data))
      [] c.kind = "achievement" -> ReadAchievement(rt, c)
      [] c.kind = "leaderboard" -> ReadLboard(rt, c)
      [] OTHER                  -> ReadRichPresence(rt, c)

\* the first part of rc_runtime_deserialize_progress_sized: what is active is marked, and read back chunk by chunk
Marked(rt) ==
    LET trigger(e) == IF TriggerStateActive(e.trigger.state) THEN [e EXCEPT !.trigger.state = "unupdated"] ELSE e
        lboard(e) == IF LboardStateActive(e.lboard.state) THEN [e EXCEPT !.lboard.state = "unupdated"] ELSE e
    IN  [rt EXCEPT !.triggers = [i \in DOMAIN @ |-> trigger(@[i])], !.lboards = [i \in DOMAIN @ |-> lboard(@[i])]]
ReadChunks(rt, chunks) == FoldLeft(ReadChunk, Marked(rt), chunks)

\* Mutant: what no chunk was about is left as it was marked
DeserializeUnfinished(rt, chunks, intact) ==
    IF intact THEN ReadChunks(rt, chunks) ELSE ResetRuntime(ReadChunks(rt, chunks))

\* rc_runtime_deserialize_progress_sized: what no chunk was about starts over; damage is found at the end, and then
\* everything starts over but the memory references
StartOverUnread(read, seenRich) ==
    LET trigger(e) == IF e.trigger.state = "unupdated" THEN ResetEntry(e) ELSE e
        lboard(e) == IF e.lboard.state = "unupdated" THEN ResetBoard(e) ELSE e
    IN  [read EXCEPT !.triggers = [i \in DOMAIN @ |-> trigger(@[i])],
                     !.lboards = [i \in DOMAIN @ |-> lboard(@[i])],
                     !.rich = IF seenRich THEN @ ELSE Rich(@.def, ResetDisplays(@))]
FinishReading(read, intact, seenRich) == IF intact THEN StartOverUnread(read, seenRich) ELSE ResetRuntime(read)
Deserialize(rt, chunks, intact) ==
    FinishReading(ReadChunks(rt, chunks), intact, \E i \in DOMAIN chunks : chunks[i].kind = "rich")

-----------------------------------------------------------------------------
(* The machine *)

NothingSaved == [chunks |-> <<>>, complete |-> FALSE]

LineUp(l) ==
    LET achievements == FoldLeft(LAMBDA rt, a : ActivateAchievement(rt, a.id, a.def), EmptyRuntime, l.achievements)
        lboards == FoldLeft(LAMBDA rt, b : ActivateLboard(rt, b.id, b.def), achievements, l.lboards)
    IN  IF l.script = NoScript THEN lboards ELSE ActivateRichPresence(lboards, l.script)

TriggerIds(rt) == {rt.triggers[i].id : i \in DOMAIN rt.triggers}
Told(told, type) == {told[i].id : i \in {j \in DOMAIN told : told[j].type = type}}

\* the save state an earlier session would have written
EarlierProgress(started) ==
    [chunks |-> Serialize(FoldLeft(LAMBDA rt, m : DoFrame(rt, m).rt, started, Past)), complete |-> TRUE]

\* a runtime that was just given its definitions, and perhaps a save state of these or of other ones
Given(started) ==
    /\ runtime \in started
    /\ saved \in {NothingSaved} \cup {EarlierProgress(rt) : rt \in started}
Init ==
    /\ Given({LineUp(l) : l \in LineUps})
    /\ events = <<>> /\ frames = 0 /\ calls = 0
    /\ fired = {} /\ fresh = TriggerIds(runtime)

\* the achievements a call starts over
Renewed(ids) == fresh' = fresh \cup ids /\ fired' = fired \ ids

\* the emulator runs a frame, after which memory may hold anything
FrameRun(r) ==
    /\ runtime' = r.rt /\ events' = r.events
    /\ fired' = fired \cup Told(r.events, "triggered")
Frame(m) ==
    /\ frames < MaxFrames
    /\ FrameRun(DoFrame(runtime, m))
    /\ frames' = frames + 1 /\ fresh' = {}
    /\ UNCHANGED <<saved, calls>>

\* a call that is not a frame
Call(rt, told) ==
    /\ calls < MaxCalls /\ calls' = calls + 1
    /\ runtime' = rt /\ events' = told
    /\ UNCHANGED frames

Activate(id, def) ==
    Call(ActivateAchievement(runtime, id, def), <<>>) /\ Renewed({id}) /\ UNCHANGED saved
Deactivate(id) == Call(DeactivateAchievement(runtime, id), <<>>) /\ UNCHANGED <<saved, fired, fresh>>
ActivateBoard(id, def) == Call(ActivateLboard(runtime, id, def), <<>>) /\ UNCHANGED <<saved, fired, fresh>>
DeactivateBoard(id) == Call(DeactivateLboard(runtime, id), <<>>) /\ UNCHANGED <<saved, fired, fresh>>
ActivateScript(def) == Call(ActivateRichPresence(runtime, def), <<>>) /\ UNCHANGED <<saved, fired, fresh>>
Reset == Call(ResetRuntime(runtime), <<>>) /\ Renewed(TriggerIds(runtime)) /\ UNCHANGED saved
Invalidate(a) == Call(InvalidateAddress(runtime, a), <<>>) /\ UNCHANGED <<saved, fired, fresh>>
Validated(r) == Call(r.rt, r.events) /\ UNCHANGED <<saved, fired, fresh>>
Validate(bad) == Validated(ValidateAddresses(runtime, bad))

\* rc_runtime_get_richpresence: asking for the text tests the conditions that count no hits
Describe ==
    /\ runtime.rich.displays # <<>>
    /\ Call([runtime EXCEPT !.rich = Rich(@.def, DisplayString(@, runtime.pool.at).rich)], <<>>)
    /\ UNCHANGED <<saved, fired, fresh>>

\* a save state is written, once, or its last chunk does not fit the buffer it is given
Save(fits) ==
    LET chunks == Serialize(runtime)
    IN  /\ saved = NothingSaved
        /\ saved' = [chunks |-> IF fits THEN chunks ELSE Front(chunks), complete |-> fits]
        /\ events' = <<>>
        /\ UNCHANGED <<runtime, fired, fresh, frames, calls>>

\* a save state is loaded, possibly damaged; what it cannot restore starts over
Over(rt) == {rt.triggers[i].id : i \in {j \in DOMAIN rt.triggers : rt.triggers[j].trigger.state = "waiting"}}
RestoreTo(rt) == Call(rt, <<>>) /\ fresh' = Over(rt) /\ fired' = fired \ Over(rt) /\ UNCHANGED saved
\* what was over and is live again was started over; the rest goes on from what was saved
Restore(intact) == RestoreTo(Deserialize(runtime, saved.chunks, intact /\ saved.complete))

Next ==
    \/ \E m \in Memories : Frame(m)
    \/ \E a \in Activations : Activate(a.id, a.def)
    \/ \E b \in BoardActivations : ActivateBoard(b.id, b.def)
    \/ \E id \in Ids : Deactivate(id) \/ DeactivateBoard(id)
    \/ \E def \in DOMAIN Scripts : ActivateScript(def)
    \/ \E a \in Addresses : Invalidate(a)
    \/ \E bad \in SUBSET Addresses : Validate(bad)
    \/ Reset \/ Describe
    \/ \E fits \in BOOLEAN : Save(fits)
    \/ \E intact \in BOOLEAN : Restore(intact)

Spec == Init /\ [][Next]_vars

-----------------------------------------------------------------------------
(* Properties *)

TriggerStates == {"inactive", "waiting", "active", "paused", "reset", "triggered", "primed", "disabled"}
BoardStates == {"inactive", "waiting", "active", "started", "canceled", "triggered", "disabled"}
GroupsOf(t) == {t.core} \cup ToSet(t.alts)
Live(rt) == {rt.triggers[i].trigger : i \in DOMAIN rt.triggers}
AllGroups(rt) ==
    UNION {GroupsOf(t) : t \in Live(rt)
                                \cup UNION {{l.start, l.cancel, l.submit} : l \in {rt.lboards[i].lboard : i \in DOMAIN rt.lboards}}}
AllConds(rt) == UNION {ToSet(g.conds) : g \in AllGroups(rt)}

\* What the variables hold: no trigger or leaderboard is left between two states, "unupdated" least of all.
TypeOK ==
    /\ frames \in 0..MaxFrames /\ calls \in 0..MaxCalls
    /\ \A i \in DOMAIN runtime.triggers : /\ runtime.triggers[i].id \in Ids
                                           /\ runtime.triggers[i].trigger.state \in TriggerStates
    /\ \A i \in DOMAIN runtime.lboards : /\ runtime.lboards[i].id \in Ids
                                          /\ runtime.lboards[i].lboard.state \in BoardStates
    /\ fired \subseteq Ids /\ fresh \subseteq Ids /\ saved.complete \in BOOLEAN

\* A condition never counts past its target (rc_condset_evaluate_condition_no_add_hits), whatever is loaded into it:
\* a count past it would never again be "just met".
HitsWithinTarget == \A c \in AllConds(runtime) : c.required # 0 => c.hits <= c.required

\* The references computed from others come after them in the list rc_update_memref_values updates in one pass: one
\* that came before would be a frame late.
PoolInOrder ==
    LET list == runtime.pool.modified
        before(i, op) == IsMemref(op) /\ op.ref.kind = "modified" => \E j \in 1..(i - 1) : list[j] = op.ref
    IN  \A i \in DOMAIN list : before(i, list[i].parent) /\ before(i, list[i].modifier)

\* An achievement triggers once until it is started over, loading an earlier save state does not bring it back; and one
\* whose conditions hold when it starts does not trigger before they have once not held, so never in the first frame
\* after it was started (rc_evaluate_trigger, RC_TRIGGER_STATE_WAITING).
TriggersOnce == [][Told(events', "triggered") \cap (fired \cup fresh) = {}]_vars

\* A leaderboard measures from its start: what its value had counted before is forgotten when it starts.
ValueCountsFromStart ==
    [][\A i \in DOMAIN runtime'.lboards :
        runtime'.lboards[i].id \in Told(events', "started") =>
            \A c \in UNION {ToSet(g.conds) : g \in ToSet(runtime'.lboards[i].lboard.value.sets)} : c.hits <= 1]_vars

\* the same definitions, newly activated in another runtime
Renew(rt) == LineUp([achievements |-> rt.triggers, lboards |-> rt.lboards, script |-> rt.rich.def])

\* the events a restored runtime must raise as the one that was saved did.  A leaderboard's last reported value and
\* whether a trigger had hits are not part of a save state: an update, a reset, and the activation that a reset that
\* is told puts off, may differ.
Kept(told) == SelectSeq(told, LAMBDA e : e.type \notin {"reset", "activated", "updated"})
AllLive(rt) ==
    /\ \A i \in DOMAIN rt.triggers : TriggerStateActive(rt.triggers[i].trigger.state) /\ rt.triggers[i].invalid = NoRef
    /\ \A i \in DOMAIN rt.lboards : LboardStateActive(rt.lboards[i].lboard.state) /\ rt.lboards[i].invalid = NoRef
    /\ \A ref \in DOMAIN rt.pool.at : rt.pool.at[ref].type # "none"

\* A save state carries on: loaded into a runtime that was just given the same definitions, it raises in the next
\* frame what the saved one would have raised, whatever memory then holds.
CarriesOn(rt, chunks) ==
    \A m \in Memories :
        LET told == {Kept(DoFrame(r, m).events) : r \in {rt, Deserialize(Renew(rt), chunks, TRUE)}}
        IN  Cardinality(told) = 1
RestoreCarriesOn ==
    [][saved' # saved /\ saved'.complete /\ AllLive(runtime) => CarriesOn(runtime, saved'.chunks)]_vars

\* A save state that turns out damaged after its last chunk was read leaves nothing of itself behind: no hit, no
\* state but waiting (rc_runtime_deserialize_progress_sized, the checksum).
StartedOver(rt) ==
    /\ \A c \in AllConds(rt) : c.hits = 0
    /\ \A t \in Live(rt) : t.state = "waiting"
    /\ \A i \in DOMAIN rt.lboards : rt.lboards[i].lboard.state = "waiting"
DamagedStartsOver == StartedOver(Deserialize(runtime, saved.chunks, FALSE))

\* Asking what to display is no frame: asked again, it gives the same text and has counted no hit towards a target.
Counted(rich) ==
    [i \in DOMAIN rich.displays |->
        {c \in UNION {ToSet(g.conds) : g \in GroupsOf(rich.displays[i].trigger)} : c.required # 0}]
AskedAgain(once) ==
    /\ once.text = DisplayString(once.rich, runtime.pool.at).text
    /\ Counted(once.rich) = Counted(runtime.rich)
AskingCountsNothing ==
    runtime.rich.displays # <<>> => AskedAgain(DisplayString(runtime.rich, runtime.pool.at))

=============================================================================
