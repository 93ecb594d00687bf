--------------------------- MODULE RcRichPresence ---------------------------
(***************************************************************************)
(* Rich presence: the script of macros and display lines that says what    *)
(* the player is doing (richpresence.c), and the formats numbers are shown *)
(* in (format.c).                                                          *)
(*                                                                         *)
(* A script reaches the parser as a record [macros, displays]: a macro is  *)
(* a lookup [name, format, entries, default] or, with no entries, a named  *)
(* format; a display is [def, parts], def <<>> for the unconditional one,  *)
(* and a part [macro, value] or plain text [macro |-> "text", value].      *)
(***************************************************************************)
EXTENDS RcEvaluate

-----------------------------------------------------------------------------
(* Formats.  A formatted number is its style and its fields. *)

Shown(style, fields) == [style |-> style, fields |-> fields]

\* rc_format_value_minutes, rc_format_value_seconds, rc_format_value_centiseconds
HoursMinutes(n) == Shown("h", <<n \div 60, n % 60>>)
MinutesSeconds(n) ==
    IF n \div 60 < 60 THEN Shown("m:s", <<n \div 60, n % 60>>)
    ELSE Shown("h:m:s", <<n \div 3600, (n \div 60) % 60, n % 60>>)
Centiseconds(n) ==
    LET s == MinutesSeconds(n \div 100) IN [s EXCEPT !.fields = Append(@, n % 100)]

\* rc_format_value_fixed: whole and fraction, the sign only on the whole
Fixed(n, factor) == Shown("fixed", <<DivC(n, factor), AbsInt(n) % factor>>)

\* rc_format_typed_value: what each format makes of the value's type first
FormatInteger(u, i, format) ==
    LET factor == [tens |-> 10, hundreds |-> 100, thousands |-> 1000]
        places == [fixed1 |-> 10, fixed2 |-> 100, fixed3 |-> 1000]
    IN  CASE format = "frames"        -> Centiseconds(((u * 10) % Word) \div 6)
          [] format = "centisecs"     -> Centiseconds(u)
          [] format = "seconds"       -> MinutesSeconds(u)
          [] format = "secs_as_mins"  -> HoursMinutes(u \div 60)
          [] format = "minutes"       -> HoursMinutes(u)
          [] format \in DOMAIN places -> Fixed(i, places[format])
          [] format \in DOMAIN factor -> Shown("number", <<i * factor[format]>>)
          [] format \in {"unsigned", "unformatted"} -> Shown("number", <<u>>)
          [] OTHER                    -> Shown("number", <<i>>)
FormatFloat(f) == Shown("float", <<f.num, f.den>>)
FormatTyped(v, format) ==
    IF format = "float" THEN FormatFloat(Convert(v, "float"))
    ELSE FormatInteger(Convert(v, "unsigned").num, Convert(v, "signed").num, format)

-----------------------------------------------------------------------------
(* Lookups: a binary tree of ranges, a function from its places to what is  *)
(* there; a place is the way to it from the root.                          *)

Places == Seq({"left", "right"})
NoTree == <<>>
Node(first, last, label) == [first |-> first, last |-> last, label |-> label]

\* rc_insert_richpresence_lookup_item: a range next to one of the same label is joined to it, one that overlaps is refused
InsertLookup(tree, e) ==
    LET after(n) == e.first = n.last + 1 /\ e.label = n.label
        before(n) == e.last = n.first - 1 /\ e.label = n.label
        joined(n) == IF after(n) THEN [n EXCEPT !.last = e.last] ELSE [n EXCEPT !.first = e.first]
        from[p \in Places] ==
            CASE p \notin DOMAIN tree -> p
              [] after(tree[p]) \/ before(tree[p]) -> p
              [] e.first > tree[p].last -> from[Append(p, "right")]
              [] e.last < tree[p].first -> from[Append(p, "left")]
              [] OTHER -> p
        place == from[<<>>]
    IN  CASE place \notin DOMAIN tree -> [tree |-> tree @@ (place :> Node(e.first, e.last, e.label)), ok |-> TRUE]
          [] after(tree[place]) \/ before(tree[place]) -> [tree |-> [tree EXCEPT ![place] = joined(@)], ok |-> TRUE]
          [] OTHER -> [tree |-> tree, ok |-> FALSE]

\* rc_rebalance_richpresence_lookup_get_items
LookupItems(tree) ==
    LET from[p \in Places] == IF p \notin DOMAIN tree THEN <<>>
                              ELSE from[Append(p, "left")] \o <<tree[p]>> \o from[Append(p, "right")]
    IN  from[<<>>]

\* rc_rebalance_richpresence_lookup_rebuild
RebuildLookup(items, first, last) ==
    LET under(side, tree) == [p \in {<<side>> \o q : q \in DOMAIN tree} |-> tree[Tail(p)]]
        built[i, j \in Nat] ==
            LET mid == (i + j) \div 2
            IN  (<<>> :> items[mid]) @@ (IF mid = i THEN NoTree ELSE under("left", built[i, mid - 1]))
                                     @@ (IF mid = j THEN NoTree ELSE under("right", built[mid + 1, j]))
    IN  built[first, last]

\* rc_rebalance_richpresence_lookup
RebalanceLookup(tree) ==
    LET items == LookupItems(tree) IN IF Len(items) < 3 THEN tree ELSE RebuildLookup(items, 1, Len(items))

\* rc_parse_richpresence_lookup: the entries of all its lines, stopped by the first that overlaps
ParseLookup(entries) ==
    LET insert(acc, e) == IF acc.ok THEN InsertLookup(acc.tree, e) ELSE acc
        all == FoldLeft(insert, [tree |-> NoTree, ok |-> TRUE], entries)
    IN  [all EXCEPT !.tree = RebalanceLookup(@)]

\* the search of rc_evaluate_richpresence_display
LookupLabel(tree, n, default) ==
    LET from[p \in Places] ==
            CASE p \notin DOMAIN tree -> default
              [] n > tree[p].last     -> from[Append(p, "right")]
              [] n < tree[p].first    -> from[Append(p, "left")]
              [] OTHER                -> tree[p].label
    IN  from[<<>>]

-----------------------------------------------------------------------------
(* Parsing a script *)

\* a display line, which has a text, a condition or none, and macros that show a value
IsRawDisplay(d) ==
    /\ IsList(d.parts) /\ \A i \in DOMAIN d.parts : d.parts[i].macro = "text" \/ IsRawValue(d.parts[i].value)
    /\ d.def = <<>> \/ IsRawTrigger(d.def[1])
IsRawScript(script) == IsList(script.displays) /\ \A i \in DOMAIN script.displays : IsRawDisplay(script.displays[i])

BuiltinMacros ==
    [Number |-> "value", Score |-> "score", Centiseconds |-> "centisecs", Seconds |-> "seconds", Minutes |-> "minutes",
     SecondsAsMinutes |-> "secs_as_mins", ASCIIChar |-> "asciichar", UnicodeChar |-> "unicodechar", Float1 |-> "float",
     Fixed1 |-> "fixed1", Fixed2 |-> "fixed2", Fixed3 |-> "fixed3", Unsigned |-> "unsigned", Unformatted |-> "unformatted"]

\* a condition set that measures one thing and tests nothing else
Simple(sets) ==
    /\ Len(sets) = 1
    /\ \A i \in DOMAIN sets[1].conds : sets[1].conds[i].class \in {"measured", "indirect"}
    /\ Cardinality({i \in DOMAIN sets[1].conds : sets[1].conds[i].class = "measured"}) = 1
    /\ \E i \in DOMAIN sets[1].conds : sets[1].conds[i].type = "measured" /\ sets[1].conds[i].required = 0

VariableOperand(name) == Operand("address", "32", [kind |-> "variable", name |-> name], 0, 1)

\* rc_alloc_helper_variable_memref_value, rc_alloc_variable: a plain reference when the value is one, else a
\* variable, found again by its definition
HelperOf(def, acc, v, sets) ==
    LET measured == SelectInSeq(sets[1].conds, LAMBDA c : c.type = "measured")
        found == \E i \in DOMAIN acc.values : acc.values[i].name = def
    IN  IF v.ps.error # Ok THEN [acc EXCEPT !.ps = v.ps]
        ELSE IF Simple(sets) THEN [acc EXCEPT !.ps = v.ps, !.op = sets[1].conds[measured].op1]
        ELSE [acc EXCEPT !.ps = [v.ps EXCEPT !.target = acc.ps.target], !.op = VariableOperand(def),
                         !.values = IF found THEN @ ELSE Append(@, [name |-> def, value |-> v.value])]
HelperRead(def, acc, v) == HelperOf(def, acc, v, v.value.sets)
HelperValue(def, acc) == HelperRead(def, acc, ParseValueInternal(def, acc.ps))

\* one part of a display line: text, a macro of the script, a built-in macro, or a macro nobody defined
Shape(format, tree, default) == [format |-> format, tree |-> tree, default |-> default]
PartShape(macros, part) ==
    LET own == SelectInSeq(macros, LAMBDA m : m.name = part.macro)
    IN  IF part.macro = "text" THEN Shape("text", NoTree, part.value)
        ELSE IF own # 0 THEN Shape(macros[own].format, macros[own].tree, macros[own].default)
        ELSE IF part.macro \in DOMAIN BuiltinMacros THEN Shape(BuiltinMacros[part.macro], NoTree, "")
        ELSE Shape("unknown", NoTree, part.macro)
AddPart(acc, shape) ==
    [acc EXCEPT !.parts = Append(@, [format |-> shape.format, tree |-> shape.tree, default |-> shape.default, op |-> acc.op])]
PartOf(acc, shape, value) ==
    AddPart(IF shape.format \in {"text", "unknown"} THEN [acc EXCEPT !.op = NoOperand] ELSE HelperValue(value, acc), shape)
ParsePart(macros, acc, part) == IF acc.ps.error # Ok THEN acc ELSE PartOf(acc, PartShape(macros, part), part.value)

\* one display line: its parts, then the condition it is shown under; nothing may follow an unconditional line
AddDisplay(acc, t) ==
    [acc EXCEPT !.ps = t.ps, !.displays = Append(@, [parts |-> acc.parts, trigger |-> t.trigger,
                                                     hasRequired |-> t.ps.hasRequired])]
DisplayOf(parts, def) ==
    IF parts.ps.error # Ok THEN parts
    ELSE IF def = <<>>
         THEN [AddDisplay(parts, [trigger |-> NoTrigger, ps |-> [parts.ps EXCEPT !.hasRequired = FALSE]]) EXCEPT !.done = TRUE]
         ELSE AddDisplay(parts, ParseTrigger(def[1], parts.ps))
ParseDisplay(macros, acc, display) ==
    IF acc.ps.error # Ok \/ acc.done THEN acc
    ELSE IF display.parts = <<>> THEN [acc EXCEPT !.ps = Fail(@, "missing_display_string")]
    ELSE DisplayOf(FoldLeft(LAMBDA a, p : ParsePart(macros, a, p), [acc EXCEPT !.parts = <<>>], display.parts), display.def)

\* rc_parse_richpresence_internal: every macro first, wherever it is, then the display lines
RichOf(all) ==
    [rich |-> [values |-> all.values, displays |-> all.displays],
     ps |-> IF all.ps.error = Ok /\ ~all.done THEN Fail(all.ps, "missing_display_string") ELSE all.ps]
ParseDisplays(script, ps, lookups) ==
    LET macros == [i \in DOMAIN script.macros |->
                    [name |-> script.macros[i].name, format |-> script.macros[i].format,
                     tree |-> lookups[i].tree, default |-> script.macros[i].default]]
        bad == \E i \in DOMAIN lookups : ~lookups[i].ok
        start == [ps |-> IF bad THEN Fail(ps, "duplicated_value") ELSE ps, values |-> <<>>, displays |-> <<>>,
                  parts |-> <<>>, op |-> NoOperand, done |-> FALSE]
    IN  RichOf(FoldLeft(LAMBDA a, d : ParseDisplay(macros, a, d), start, script.displays))
ParseRichPresence(script, ps) ==
    ParseDisplays(script, ps, [i \in DOMAIN script.macros |-> ParseLookup(script.macros[i].entries)])

-----------------------------------------------------------------------------
(* Evaluation *)

\* rc_update_values: a helper variable takes the type of what it measured
KeepVariable(v, r) ==
    IF ~r.valid THEN [v EXCEPT !.value = r.value]
    ELSE [v EXCEPT !.value = [r.value EXCEPT !.cell = [UpdateCell(@, <<r.result.num, r.result.den>>)
                                                        EXCEPT !.type = r.result.type]]]
UpdateVariable(v, at) == KeepVariable(v, EvaluateValueTyped(v.value, at))

\* rc_update_richpresence_internal: only the conditions that count hits are tested every frame
UpdateRichPresence(rich, at) ==
    [values |-> [i \in DOMAIN rich.values |-> UpdateVariable(rich.values[i], at)],
     displays |-> [i \in DOMAIN rich.displays |->
        IF rich.displays[i].hasRequired THEN [rich.displays[i] EXCEPT !.trigger = TestTrigger(@, at).trigger]
        ELSE rich.displays[i]]]

\* what the operand of a part holds: a cell of the pool, or one of a helper variable
PartValue(op, rich, at) ==
    LET i == SelectInSeq(rich.values, LAMBDA v : op.ref.name = v.name)
    IN  IF op.ref.kind = "variable" THEN CellValue(rich.values[i].value.cell, "address") ELSE EvaluateOperand(op, at)

\* the characters rc_evaluate_richpresence_display can show: others become a replacement
CharCode(n, format) ==
    CASE format = "asciichar" -> IF n < 32 \/ n >= 127 THEN 63 ELSE n
      [] n < 32 \/ n > 65535 \/ n \in 55296..57343 -> 65533
      [] OTHER -> n

\* rc_evaluate_richpresence_display: a null character ends the run of character macros it is in
ShowPart(acc, p, raw) ==
    LET isChar == p.format \in {"asciichar", "unicodechar"}
        put(x) == [out |-> Append(acc.out, x), ended |-> "none"]
    IN  CASE p.format \in {"text", "unknown"} -> put(p.default)
          [] p.format = "lookup" -> put(LookupLabel(p.tree, Convert(raw, "unsigned").num, p.default))
          [] isChar /\ acc.ended = p.format -> acc
          [] isChar /\ raw.num = 0 -> [acc EXCEPT !.ended = p.format]
          [] isChar -> put(CharCode(raw.num, p.format))
          [] OTHER -> put(FormatTyped(raw, p.format))
EvaluateDisplay(parts, rich, at) ==
    FoldLeft(LAMBDA acc, p : ShowPart(acc, p, PartValue(p.op, rich, at)), [out |-> <<>>, ended |-> "none"], parts).out

\* what there is to display, once the condition of each line is known
Chosen(rich, line, now, at) ==
    [rich |-> [rich EXCEPT !.displays = [i \in DOMAIN @ |-> IF i <= line THEN [@[i] EXCEPT !.trigger = now[i]] ELSE @[i]]],
     line |-> line, text |-> EvaluateDisplay(rich.displays[line].parts, rich, at)]
DisplayFirst(rich, now, at) ==
    LET met == {i \in DOMAIN now : i = Len(now) \/ now[i].state = "triggered"}
    IN  Chosen(rich, CHOOSE i \in met : \A j \in met : i <= j, now, at)

\* Mutant: the lines that count hits are tested when asked too
DisplayTested(rich, at) ==
    DisplayFirst(rich, [i \in DOMAIN rich.displays |->
        IF i = Len(rich.displays) THEN rich.displays[i].trigger ELSE TestTrigger(rich.displays[i].trigger, at).trigger], at)

\* rc_get_richpresence_display_string: the first line whose condition is met, tested now unless it counts hits;
\* the lines after it keep their state
DisplayString(rich, at) ==
    DisplayFirst(rich, [i \in DOMAIN rich.displays |->
        IF rich.displays[i].hasRequired \/ i = Len(rich.displays) THEN rich.displays[i].trigger
        ELSE TestTrigger(rich.displays[i].trigger, at).trigger], at)

\* rc_reset_richpresence_triggers, rc_reset_richpresence
ResetDisplays(rich) ==
    [rich EXCEPT !.displays = [i \in DOMAIN rich.displays |-> [rich.displays[i] EXCEPT !.trigger = ResetTrigger(@)]]]
ResetRichPresence(rich) ==
    [ResetDisplays(rich) EXCEPT !.values = [i \in DOMAIN rich.values |-> [rich.values[i] EXCEPT !.value = ResetValue(@)]]]
=============================================================================
