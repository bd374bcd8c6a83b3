--------------------------- MODULE MCAddressList ---------------------------
(* Three-row tables over two cells: a value and a script under a group     *)
(* that a plain record precedes, and a pointer record with hotkeys under a *)
(* group on the first row; and the empty table with a file to load.        *)
EXTENDS AddressList

Bound(ops) == [op \in HotkeyOps |-> IF op \in ops THEN {Key("named", 17), Key("digit", 5)} ELSE {}]
Text(pfx, digits) == [neg |-> FALSE, pfx |-> pfx, digits |-> digits]
Value(id, indent, cell, expr, keys) ==
  [NewEntry("value", id) EXCEPT !.indent = indent, !.addr = cell, !.expr = expr, !.keys = keys]

MCPlaces == {[cell |-> "a", expr |-> "none"], [cell |-> "b", expr |-> "pointer"]}
Nested == << Value(1, 0, "a", "none", NoKeys), NewEntry("group", 2), [NewEntry("script", 3) EXCEPT !.indent = 1] >>
Headed == << NewEntry("group", 1), Value(2, 1, "b", "pointer", Bound({"toggle", "increase"})) >>
Held == << [Value(1, 0, "b", "pointer", Bound({"set", "decrease"})) EXCEPT !.active = TRUE, !.cur = Text(FALSE, <<1, 6>>),
                !.frozen = Text(FALSE, <<1, 6>>), !.mode = "neverIncrease"] >>
Deep == << Value(1, 0, "a", "none", NoKeys), NewEntry("group", 2), [NewEntry("group", 3) EXCEPT !.indent = 1], Value(4, 2, "a", "none", NoKeys) >>
MCCombos == {{Key("named", 17), Key("fn", 1)}}

(* Files from elsewhere: a table of another Cheat Engine with form designs *)
(* and a script, whose group unchecks its rows and does not check them,    *)
(* the same with its end missing, and a protected one.                     *)
Shared == [BuildCheatTable([Nested EXCEPT ![2].carries = {FALSE}], [comment |-> 1, script |-> 1, notes |-> 0]) EXCEPT !.forms = 1]
Files == {SaveXml(Shared), [SaveXml(Shared) EXCEPT !.cut = TRUE], SaveProtected(Shared, "right"), [SaveProtected(Shared, "right") EXCEPT !.cut = TRUE]}
Start(table, steps) == [table |-> table, file |-> NoFile, steps |-> steps]
MCSessions ==
  {Start(Nested, 2), Start(Headed, 2), Start(Deep, 2), Start(Held, 3)} \cup {[table |-> <<>>, file |-> f, steps |-> 2] : f \in Files}
MCTyped == {Text(FALSE, <<1, 0>>)}
MCCodecs == {[op |-> "add", key |-> 7]}
=============================================================================
