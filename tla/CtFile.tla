------------------------------- MODULE CtFile -------------------------------
(* The cheat table as a file: src/core/ct_file.cpp (the XML, JSON and      *)
(* password-protected formats) and the conversions of src/gui/mainwindow.cpp *)
(* and src/scripting/lua_bindings.cpp between the list and a CheatTable.   *)
(*                                                                         *)
(* A CheatTable is its rows, each the record's fields with the identifier  *)
(* and the parent identifier the file gives it, and four texts: the        *)
(* comment, the table's Lua script, the disassembler notes and the form    *)
(* designs, 0 when absent.  A file is a format, its table, and whether its *)
(* end is missing.                                                         *)
EXTENDS CheatTable

(* ------------------------------- hotkeys ------------------------------- *)
(* A key of a combination: a named key by its code, a digit, letter or     *)
(* function key by its number, and a key that has no code.                 *)
Key(kind, n) == [kind |-> kind, n |-> n]
NoKeyToken == Key("none", 0)
Modifiers == {Key("named", vk) : vk \in {16, 17, 18, 91}}
NamedCodes == {16, 17, 18, 91, 8, 9, 13, 27, 32, 33, 34, 35, 36, 37, 38, 39, 40, 45, 46}

KeyTokenToVk(t) ==
  CASE t.kind = "named" /\ t.n \in NamedCodes -> t.n
    [] t.kind = "digit" -> 48 + t.n
    [] t.kind = "letter" -> 65 + t.n
    [] t.kind = "fn" /\ t.n \in 1..12 -> 111 + t.n
    [] OTHER -> 0
VkToKeyToken(vk) ==
  CASE vk = 92 -> Key("named", 91)
    [] vk \in NamedCodes -> Key("named", vk)
    [] vk \in 48..57 -> Key("digit", vk - 48)
    [] vk \in 65..90 -> Key("letter", vk - 65)
    [] vk \in 96..105 -> Key("digit", vk - 96)
    [] vk \in 112..123 -> Key("fn", vk - 111)
    [] OTHER -> NoKeyToken

(* keyStringToVKs: a key without a code is dropped.                        *)
KeyStringToVks(combo) == {KeyTokenToVk(t) : t \in combo} \ {0}
(* vksToKeyString: the modifiers and one key.                              *)
VksToKeyString(vks) ==
  LET known == {VkToKeyToken(vk) : vk \in vks} \ {NoKeyToken}
      plain == known \ Modifiers
  IN (known \cap Modifiers) \cup (IF plain = {} THEN {} ELSE {CHOOSE t \in plain : TRUE})

HotkeyOps == {"toggle", "increase", "decrease", "set"}
HotkeyStep == [neg |-> FALSE, pfx |-> FALSE, digits |-> <<1>>]
HotkeyValue == [neg |-> FALSE, pfx |-> FALSE, digits |-> <<7>>]
NoKeys == [op \in HotkeyOps |-> {}]
(* The nested hotkey list of an entry: one element per bound operation     *)
(* with its action code and a <Value> of its own (the number to set, or    *)
(* the step); codes 0 to 4 are all read as the toggle.                     *)
ActionOf(op) == CASE op = "toggle" -> 0 [] op = "set" -> 5 [] op = "increase" -> 6 [] op = "decrease" -> 7
HotkeyText(op) == CASE op = "toggle" -> Empty [] op = "set" -> HotkeyValue [] OTHER -> HotkeyStep
WriteHotkeys(keys) ==
  {[action |-> ActionOf(op), vks |-> KeyStringToVks(keys[op]), value |-> HotkeyText(op)] : op \in {o \in HotkeyOps : keys[o] # {}}}
ReadHotkeys(hks) ==
  [op \in HotkeyOps |->
    LET mine == {h \in hks : IF op = "toggle" THEN h.action < 5 ELSE h.action = ActionOf(op)}
    IN IF mine = {} THEN {} ELSE VksToKeyString((CHOOSE h \in mine : TRUE).vks)]

(* --------------------------- the list as a table ----------------------- *)
(* toJson's "parent", as buildCheatTable copies it: the last row one level *)
(* up, if no shallower row came in between.                                *)
ParentId(es, r) ==
  LET h == Header(es, r) IN IF h # 0 /\ es[h].indent = es[r].indent - 1 THEN h - 1 ELSE NoParent

Bare(e) == [e EXCEPT !.id = NoId, !.frozen = Empty, !.info = FALSE, !.codec = [op |-> "none", key |-> 0]]
(* buildCheatTable: the row number is the identifier; structures and form  *)
(* designs stay empty.                                                     *)
BuildCheatTable(es, extra) ==
  [rows |-> FoldLeftDomain(LAMBDA done, r : Append(done, [fields |-> Bare(es[r]), id |-> r - 1, parent |-> ParentId(es, r)]), <<>>, es),
   comment |-> extra.comment, script |-> extra.script, notes |-> extra.notes, forms |-> 0]
(* buildCheatTableFromList, from Lua: no nesting, no pointer, no mode, and *)
(* of the hotkeys the toggle.                                              *)
BuildCheatTableFromList(es) ==
  [rows |-> [k \in DOMAIN es |-> [fields |-> [Bare(es[k]) EXCEPT !.indent = 0, !.expr = "none", !.mode = "normal", !.collapsed = FALSE, !.carries = BOOLEAN,
                                                !.keys = [NoKeys EXCEPT !.toggle = es[k].keys.toggle]],
                                  id |-> es[k].id, parent |-> NoParent]],
   comment |-> 0, script |-> 0, notes |-> 0, forms |-> 0]

IndentAsParent(done, x) ==
  LET p == {k \in DOMAIN done : done[k].ct = x.parent}
  IN IF x.parent = NoParent \/ p = {} THEN 0 ELSE done[CHOOSE k \in p : TRUE].row.indent
(* cheatEntriesToJson: the indent is the parent's and one more.            *)
IndentBelowParent(done, x) ==
  LET p == {k \in DOMAIN done : done[k].ct = x.parent}
  IN IF x.parent = NoParent \/ p = {} THEN 0 ELSE done[CHOOSE k \in p : TRUE].row.indent + 1
(* The rows in file order, without an id of the list's own.                *)
CheatEntriesToJson(t) ==
  LET Read(done, x) == Append(done, [ct |-> x.id, row |-> [x.fields EXCEPT !.indent = IndentBelowParent(done, x)]])
      done == FoldLeft(Read, <<>>, t.rows)
  IN [k \in DOMAIN done |-> done[k].row]

(* ------------------------------- the XML form -------------------------- *)
(* save: the children of each row.  A row is found by its id, and id 0 is  *)
(* never entered in the index.                                             *)
Children(rows, r) == {i \in DOMAIN rows : rows[i].parent = rows[r].id /\ rows[r].id # 0 /\ i # r}

RECURSIVE WriteEntry(_, _, _)
WriteEntry(rows, r, parent) ==
  LET below == SetToSortSeq(Children(rows, r), <)
  IN << [rows[r] EXCEPT !.parent = parent] >> \o FlattenSeq([k \in DOMAIN below |-> WriteEntry(rows, below[k], rows[r].id)])

(* writeEntryFields: a value record has an <Address>, a script only a      *)
(* symbolic one, a group none; the shown text of a value record is its     *)
(* <Value>, left out when empty; the hotkeys go out as key codes, each     *)
(* with its own <Value>.                                                   *)
WriteEntryFields(e) ==
  [e EXCEPT !.cur = IF e.kind = "value" THEN @ ELSE Empty,
            !.addr = IF e.kind = "value" \/ e.expr # "none" THEN @ ELSE Null,
            !.keys = WriteHotkeys(@)]
(* getTag takes the first such tag in the entry, wherever it is: without a *)
(* <Value> of the record's own, that of the first hotkey that has one.     *)
FirstValue(f) ==
  LET valued == {h \in f.keys : h.value # Empty}
  IN IF f.cur # Empty \/ valued = {} THEN f.cur
     ELSE (CHOOSE h \in valued : \A g \in valued : h.action <= g.action).value
(* The text of <Address> becomes the record's address expression, a plain  *)
(* number too; the number is read from it, 0 when it is not one.           *)
ReadEntryFields(f) ==
  LET group == f.kind = "group"
  IN [f EXCEPT !.keys = ReadHotkeys(@), !.cur = IF group THEN Empty ELSE FirstValue(f),
               !.expr = IF group THEN "none" ELSE IF @ = "none" /\ f.kind = "value" THEN "number" ELSE @,
               !.addr = IF group \/ f.expr = "pointer" THEN Null ELSE @]

(* CheatTable::save: the roots in row order, each followed by its subtree. *)
SaveXml(t) ==
  LET nested == UNION {Children(t.rows, r) : r \in DOMAIN t.rows}
      roots == SetToSortSeq(DOMAIN t.rows \ nested, <)
      order == FlattenSeq([k \in DOMAIN roots |-> WriteEntry(t.rows, roots[k], NoParent)])
  IN [format |-> "xml", cut |-> FALSE,
      table |-> [t EXCEPT !.rows = [k \in DOMAIN order |-> [order[k] EXCEPT !.fields = WriteEntryFields(@)]]]]

(* loadFromString: the outermost entry list is found by its matching close *)
(* tag; without it the table is valid and has no entries.  The table's     *)
(* comment is the first <Comment> outside the entries, so without one of   *)
(* its own that of the first disassembler note that has one.               *)
LoadFromString(file) ==
  LET t == file.table
      read == [k \in DOMAIN t.rows |-> [t.rows[k] EXCEPT !.fields = ReadEntryFields(@)]]
      texts == [t EXCEPT !.comment = IF @ # 0 THEN @ ELSE t.notes]
  IN [ok |-> TRUE, table |-> IF file.cut THEN [texts EXCEPT !.rows = <<>>, !.forms = 0] ELSE [texts EXCEPT !.rows = read]]

(* ------------------------------ the JSON forms ------------------------- *)
(* saveJson: the number of the address only, no form designs, and nothing  *)
(* of what a group's check box carries along.                              *)
SaveJson(t) ==
  [format |-> "table", cut |-> FALSE,
   table |-> [t EXCEPT !.forms = 0, !.rows = [k \in DOMAIN t.rows |-> [t.rows[k] EXCEPT !.fields.expr = "none", !.fields.carries = BOOLEAN]]]]
(* loadJson: a text that is not a whole JSON object is refused.  The       *)
(* list's own JSON has other keys for the address, and a parent that is a  *)
(* row, not an id.                                                         *)
LoadJson(file) ==
  [ok |-> ~file.cut,
   table |-> IF file.format # "list" THEN file.table
             ELSE [rows |-> [k \in DOMAIN file.list |-> [fields |-> [file.list[k] EXCEPT !.id = NoId, !.addr = Null, !.expr = "none", !.carries = BOOLEAN],
                                                         id |-> file.list[k].id, parent |-> ParentId(file.list, k)]],
                   comment |-> 0, script |-> 0, notes |-> file.notes, forms |-> 0]]
(* The other way round: the list's reader on what saveJson wrote.          *)
ReadTableJson(t) == [k \in DOMAIN t.rows |-> [t.rows[k].fields EXCEPT !.id = t.rows[k].id, !.addr = Null]]

(* saveProtected: the JSON form under a password.                          *)
SaveProtected(t, password) == [format |-> "protected", cut |-> FALSE, table |-> SaveJson(t).table, password |-> password]
(* loadProtected: the password is compared by its hash, then the JSON is   *)
(* read as any other.                                                      *)
LoadProtected(file, password) ==
  LET json == LoadJson(file) IN [json EXCEPT !.ok = @ /\ file.password = password]

NoFile == [format |-> "none"]
DetectTableFormat(file) ==
  CASE file.format = "xml" -> "Xml" [] file.format \in {"list", "table"} -> "Json"
    [] file.format = "protected" -> "Protected" [] OTHER -> "Unknown"
(* loadAuto: the format is found in the contents; a protected table needs  *)
(* a password and is refused.                                              *)
LoadAuto(file) ==
  CASE DetectTableFormat(file) = "Xml" -> LoadFromString(file)
    [] DetectTableFormat(file) = "Json" -> LoadJson(file)
    [] OTHER -> [ok |-> FALSE]
=============================================================================
