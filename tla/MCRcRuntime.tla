----------------------------- MODULE MCRcRuntime -----------------------------
(***************************************************************************)
(* Small definitions for RcRuntime: achievements that count hits, reset,   *)
(* pause, prime, measure, read through a pointer and have alternatives; a  *)
(* leaderboard; a rich presence script with a lookup and a counted line.   *)
(***************************************************************************)
EXTENDS RcRuntime

Mem(a)   == RawMem("address", "8", a)
Delta(a) == RawMem("delta", "8", a)
Prior(a) == RawMem("prior", "8", a)
If(flag, left, oper, right, hits) == Raw(flag, left, oper, right, hits)
Std(left, n) == If("standard", left, "=", RawConst(n), 0)
Trigger(core, alts, percent) == [core |-> core, alts |-> alts, percent |-> percent]

MCTriggers ==
    [counted  |-> Trigger(<<If("standard", Mem(0), "=", RawConst(1), 2), If("reset_if", Mem(1), "=", RawConst(1), 0)>>,
                          <<>>, FALSE),
     primed   |-> Trigger(<<If("standard", Mem(0), ">=", RawConst(1), 1), If("standard", Prior(0), "!=", RawConst(0), 0),
                            If("trigger", Mem(1), "=", RawConst(1), 0)>>, <<>>, FALSE),
     measured |-> Trigger(<<If("measured", Mem(0), "=", RawConst(1), 3), If("pause_if", Mem(1), "=", RawConst(1), 0)>>,
                          <<>>, TRUE),
     pointer  |-> Trigger(<<If("add_address", Mem(1), "none", RawNone, 0), If("add_address", Mem(0), "none", RawNone, 0), If("standard", Delta(0), "<", Mem(0), 0)>>,
                          <<>>, FALSE),
     either   |-> Trigger(<<>>, <<<<Std(Mem(1), 1)>>, <<If("add_hits", Mem(0), "=", RawConst(1), 0),
                                                      If("measured", Mem(1), "=", RawConst(0), 3)>>>>, FALSE),
     broken   |-> Trigger(<<If("measured", Mem(0), "=", RawConst(1), 2), If("measured", Mem(1), "=", RawConst(1), 3)>>,
                          <<>>, FALSE)]

Value(groups) == [legacy |-> FALSE, groups |-> groups]
Hits == Value(<<<<If("measured", Mem(0), "=", RawConst(1), 0)>>>>)
Field(name, def) == [name |-> name, def |-> def]
Dash == <<Field("start", Trigger(<<Std(Mem(0), 1)>>, <<>>, FALSE)), Field("cancel", Trigger(<<Std(Mem(0), 0)>>, <<>>, FALSE)),
          Field("submit", Trigger(<<Std(Mem(0), 2)>>, <<>>, FALSE)), Field("value", Hits)>>
MCLboards ==
    [dash  |-> Dash,
     paced |-> Append(Dash, Field("progress", Value(<<<<If("measured", Mem(1), "none", RawNone, 0)>>>>))),
     short |-> <<Field("start", Trigger(<<Std(Mem(0), 1)>>, <<>>, FALSE)), Field("value", Hits)>>]

Entry(first, last, label) == [first |-> first, last |-> last, label |-> label]
Part(macro, value) == [macro |-> macro, value |-> value]
MCScripts ==
    [place |-> [macros |-> <<[name |-> "Place", format |-> "lookup", default |-> "?",
                              entries |-> <<Entry(0, 0, "home"), Entry(2, 2, "away"), Entry(1, 1, "road")>>]>>,
                displays |-> <<[def |-> <<Trigger(<<If("standard", Mem(0), "=", RawConst(1), 2)>>, <<>>, FALSE)>>,
                                parts |-> <<Part("Place", Value(<<<<If("measured", Mem(1), "none", RawNone, 0)>>>>))>>],
                               [def |-> <<Trigger(<<Std(Mem(1), 1)>>, <<>>, FALSE)>>,
                                parts |-> <<Part("text", "busy")>>],
                               [def |-> <<>>, parts |-> <<Part("Number", Hits), Part("Nobody", Hits)>>]>>],
     blank |-> [macros |-> <<>>, displays |-> <<>>]]

Byte(a, b) == (0 :> a) @@ (1 :> b)
MCMemories == {Byte(0, 0), Byte(1, 0), Byte(2, 1)}
Is(id, def) == [id |-> id, def |-> def]
MCPast == <<Byte(0, 0), Byte(1, 0), Byte(0, 0), Byte(0, 0)>>
MCLineUps ==
    {[achievements |-> <<Is(1, "counted"), Is(2, "primed")>>, lboards |-> <<>>, script |-> "none"],
     [achievements |-> <<Is(1, "measured"), Is(2, "pointer")>>, lboards |-> <<>>, script |-> "none"],
     [achievements |-> <<Is(1, "either")>>, lboards |-> <<Is(1, "dash")>>, script |-> "place"]}
MCActivations == {Is(1, "counted"), Is(1, "either"), Is(1, "broken")}
MCBoardActivations == {Is(1, "paced"), Is(1, "short")}
=============================================================================
