---------------------------- MODULE AddressList ----------------------------
(* The cheat table of the main window: AddressListModel, its timers, the   *)
(* context menu, the hotkeys and the table files (src/gui/mainwindow.cpp). *)
(*                                                                         *)
(* User operations interleave with the 100 ms freeze timer, the 500 ms     *)
(* value refresh, the running target (which stores values and moves or     *)
(* breaks the pointer a pointer record follows) and the target's death.    *)
(* Auto-assembler scripts are abstracted to success or failure of a run    *)
(* (module AutoAssembler models them); value records are of type Byte.     *)
EXTENDS CtFile, TLC

CONSTANTS Cells,        \* addresses of the target a record can name
          Sessions,     \* the tables and the file to start with, and a bound on the user's and the target's steps from each
          Typed,        \* texts the user types into value fields
          Places,       \* addresses the user gives a record: plain, or the pointer's
          Codecs,       \* value codecs the user picks
          Modes,        \* freeze modes the user picks
          Combos,       \* key combinations the user binds
          Passwords,    \* passwords the user types for a protected table
          TargetValues, \* bytes the target itself stores
          MaxRows       \* bound on the table's length

ASSUME SessionAssumption == \A s \in Sessions : s.steps \in Nat /\ Len(s.table) <= MaxRows

VARIABLES entries, nextId, mem, ptr, proc, clip, file, extra, hot, left, last
vars == <<entries, nextId, mem, ptr, proc, clip, file, extra, hot, left, last>>
target == <<mem, ptr, proc>>
store == <<clip, file, extra>>

Broken == "broken"     \* the pointer chain does not resolve
Signed == TRUE

NewEntry(kind, id) ==
  [id |-> id, kind |-> kind, indent |-> 0, active |-> FALSE, addr |-> Null, expr |-> "none",
   cur |-> IF kind = "group" THEN Empty ELSE Unknown, frozen |-> Empty, mode |-> "normal", hex |-> FALSE,
   codec |-> [op |-> "none", key |-> 0], collapsed |-> FALSE, info |-> FALSE, carries |-> BOOLEAN, keys |-> NoKeys]

Rows == 1..Len(entries)
RowOfId(id) == IF \E r \in Rows : entries[r].id = id THEN CHOOSE r \in Rows : entries[r].id = id ELSE 0
Ids(es) == {es[i].id : i \in 1..Len(es)}

(* History: the operation just done, the rows it moved, and the cell it    *)
(* was to leave with which logical value.                                  *)
Note(op, ids, cell, want) == last' = [op |-> op, ids |-> ids, cell |-> cell, want |-> want]
Did(op) == Note(op, {}, Null, 0)
UserStep == left > 0 /\ left' = left - 1
TargetStep == proc /\ left > 0 /\ left' = left - 1

(* rebuildValueHotkeys: one binding per configured key, on the record's id. *)
Bindings(es) == UNION {{<<es[i].id, op>> : op \in {o \in HotkeyOps : es[i].keys[o] # {}}} : i \in {j \in 1..Len(es) : es[j].kind # "group"}}
(* modelReset, rowsInserted and rowsRemoved rebuild the hotkeys;           *)
(* dataChanged does not.                                                   *)
Structure(es) == entries' = es /\ hot' = Bindings(es)
Data(es) == entries' = es /\ UNCHANGED hot

(* ------------------------- values and the target ----------------------- *)
StaleAddress(e) == e.addr
(* reresolveAddress: a pointer record follows its chain; a chain that does *)
(* not resolve leaves the address it had.  An expression that is a plain   *)
(* number, as a .CT file leaves one, stands for that number.               *)
Resolved(e) == IF e.expr = "pointer" /\ proc /\ ptr # Broken THEN ptr ELSE e.addr
Write(m, cell, byte) == IF cell \in Cells THEN [m EXCEPT ![cell] = byte] ELSE m

(* The number a text means in a record, as the user reads it.              *)
Meant(e, text) == ParseIntField(text, e.hex)

(* setEntryValueTo and setValue: write, show, and freeze if active.        *)
ValueWritten(r, text) ==
  LET e == entries[r]
      cell == Resolved(e)
  IN /\ mem' = IF proc THEN Write(mem, cell, Stored(text, e.hex, e.codec)) ELSE mem
     /\ Data([entries EXCEPT ![r].addr = cell, ![r].cur = text, ![r].frozen = IF e.active THEN text ELSE @])
     /\ Note("set", {e.id}, IF proc THEN cell ELSE Null, Meant(e, text))

(* "Set value...": a group stands for its descendants.  The rows are       *)
(* written in order, so one cell named twice holds the last write.         *)
SetTargets(rows) ==
  {r \in rows \cup UNION {Descendants(entries, q) : q \in {x \in rows : entries[x].kind = "group"}} : entries[r].kind # "group"}
SetValue(rows, text) ==
  /\ UserStep /\ proc /\ SetTargets(rows) # {}
  /\ LET rs == SetTargets(rows)
         Put(m, r) == Write(m, Resolved(entries[r]), Stored(text, entries[r].hex, entries[r].codec))
         top == CHOOSE r \in rs : \A q \in rs : q <= r
     IN /\ mem' = FoldLeft(Put, mem, SetToSortSeq(rs, <))
        /\ Data([r \in Rows |-> IF r \notin rs THEN entries[r]
                 ELSE [entries[r] EXCEPT !.addr = Resolved(entries[r]), !.cur = text, !.frozen = IF entries[r].active THEN text ELSE @]])
        /\ Note("set", {entries[top].id}, Resolved(entries[top]), Meant(entries[top], text))
  /\ UNCHANGED <<nextId, ptr, proc, store>>

(* The text inline editing stores: a hex record turns what was typed into  *)
(* a bare decimal text, and shows the prefixed form.                       *)
EditText(e, text) ==
  IF e.hex /\ Parses([text EXCEPT !.pfx = TRUE], TRUE) /\ ~text.neg
  THEN LET n == Parse(text, TRUE)
       IN [write |-> [neg |-> FALSE, pfx |-> FALSE, digits |-> Digits(n, 10)],
           show |-> [neg |-> FALSE, pfx |-> TRUE, digits |-> Digits(n, 16)]]
  ELSE [write |-> text, show |-> text]
(* setData, value column.                                                  *)
EditValue(r, text) ==
  LET e == entries[r]
      t == EditText(e, text)
      cell == Resolved(e)
  IN /\ UserStep /\ e.kind = "value"
     /\ mem' = IF proc THEN Write(mem, cell, Stored(t.write, e.hex, e.codec)) ELSE mem
     /\ Data([entries EXCEPT ![r].addr = cell, ![r].cur = t.show, ![r].frozen = IF e.active THEN t.write ELSE @])
     /\ Note("edit", {e.id}, IF proc THEN cell ELSE Null, Meant(e, text))
     /\ UNCHANGED <<nextId, ptr, proc, store>>
(* setValue, from Lua by id: scripts are not refused.                      *)
LuaSetValue(r, text) ==
  UserStep /\ entries[r].kind # "group" /\ ValueWritten(r, text) /\ UNCHANGED <<nextId, ptr, proc, store>>

BareDecimal(v, e) == [Format(v, Signed, FALSE) EXCEPT !.pfx = FALSE]
(* adjustEntryValue: the new value is written in the record's own format.  *)
AdjustedText(v, e) == Format(v, Signed, e.hex)
(* adjustEntryValue: from memory, or from the shown text when memory       *)
(* cannot be read; refused when neither gives a number.                    *)
AdjustEntryValue(r, delta) ==
  LET e == entries[r]
      cell == Resolved(e)
      readable == cell \in Cells
      current == IF readable THEN Comparable(mem[cell], e.codec, Signed) ELSE Parse(e.cur, FALSE)
      text == AdjustedText(current + delta, e)
  IN /\ proc /\ e.kind # "group"
     /\ IF readable \/ Parses(e.cur, FALSE)
        THEN /\ mem' = Write(mem, cell, Stored(text, e.hex, e.codec))
             /\ Data([entries EXCEPT ![r].addr = cell, ![r].cur = text, ![r].frozen = IF e.active THEN text ELSE @])
             /\ Note("adjust", {e.id}, cell, (current + delta) % Modulus)
        ELSE /\ Data([entries EXCEPT ![r].addr = cell]) /\ UNCHANGED mem /\ Did("adjust")

(* updateValues: the 500 ms refresh skips groups and active records.       *)
Refresh ==
  /\ proc
  /\ Data([r \in Rows |->
            LET e == entries[r]
                cell == Resolved(e)
            IN IF e.kind = "group" \/ e.active THEN e
               ELSE [e EXCEPT !.addr = cell, !.cur = IF cell \in Cells THEN Format(Decode(e.codec, mem[cell]), Signed, e.hex) ELSE Unknown]])
  /\ Did("refresh") /\ UNCHANGED <<nextId, target, store, left>>

(* freezeWrite, one record: the directional modes compare first, and write *)
(* unconditionally when either side is no number.                          *)
FreezeOne(m, e) ==
  LET cell == Resolved(e)
      byte == Stored(e.frozen, e.hex, e.codec)
      compares == e.mode # "normal" /\ cell \in Cells /\ Parses(e.frozen, FALSE)
  IN IF e.kind = "group" \/ ~e.active \/ e.frozen = Empty THEN m
     ELSE IF compares /\ ~FreezeShouldWrite(e.mode, Comparable(m[cell], e.codec, Signed), Parse(e.frozen, FALSE)) THEN m
     ELSE Write(m, cell, byte)
(* onFreezeTimer, every 100 ms.                                            *)
Freeze ==
  /\ proc
  /\ mem' = FoldLeft(FreezeOne, mem, entries)
  /\ Data([r \in Rows |-> IF entries[r].kind # "group" /\ entries[r].active /\ entries[r].frozen # Empty
                          THEN [entries[r] EXCEPT !.addr = Resolved(entries[r])] ELSE entries[r]])
  /\ Did("freeze") /\ UNCHANGED <<nextId, ptr, proc, store, left>>

(* ---------------------------- activation ------------------------------- *)
(* setEntryActive: a script record runs its script, which may fail and     *)
(* leaves the record as it was; a value record freezes what it shows.      *)
SetEntryActive(es, r, on, failing) ==
  LET e == es[r]
  IN IF e.active = on \/ (e.kind = "script" /\ (~proc \/ r \in failing)) THEN es
     ELSE [es EXCEPT ![r].active = on, ![r].frozen = IF on THEN e.cur ELSE Empty,
                     ![r].info = e.kind = "script" /\ on]
SetMany(es, rows, On(_), failing) ==
  FoldLeft(LAMBDA acc, r : SetEntryActive(acc, r, On(r), failing), es, SetToSortSeq(rows, <))
Failing == SUBSET {r \in Rows : entries[r].kind = "script"}

(* setData, check box: a group carries its descendants along, if its       *)
(* options say so for this way (moActivateChildrenAsWell and its pair).    *)
Check(r, on) ==
  /\ UserStep
  /\ \E failing \in Failing :
       Data(SetMany(entries, {r} \cup (IF entries[r].kind = "group" /\ on \in entries[r].carries THEN Descendants(entries, r) ELSE {}), LAMBDA q : on, failing))
  /\ Did("check") /\ UNCHANGED <<nextId, target, store>>
(* toggleActive on every selected row (the space bar), groups excepted.    *)
ToggleActive(rows) ==
  /\ UserStep
  /\ \E failing \in Failing :
       Data(SetMany(entries, {r \in rows : entries[r].kind # "group"}, LAMBDA q : ~entries[q].active, failing))
  /\ Did("toggle") /\ UNCHANGED <<nextId, target, store>>
(* setAllActive: "Enable all", "Disable all".                              *)
SetAllActive(on) ==
  /\ UserStep
  /\ \E failing \in Failing : Data(SetMany(entries, {r \in Rows : entries[r].kind # "group"}, LAMBDA q : on, failing))
  /\ Did("all") /\ UNCHANGED <<nextId, target, store>>
(* setActive, from Lua by id: a group does not carry its rows along.       *)
LuaSetActive(r, on) ==
  /\ UserStep
  /\ \E failing \in Failing : Data(SetEntryActive(entries, r, on, failing))
  /\ Did("check") /\ UNCHANGED <<nextId, target, store>>
(* disableAllWithoutExecute, from Lua: scripts keep their DisableInfo.     *)
DisableAllWithoutExecute ==
  /\ UserStep
  /\ Data([r \in Rows |-> IF entries[r].kind = "group" THEN entries[r] ELSE [entries[r] EXCEPT !.active = FALSE, !.frozen = Empty]])
  /\ Did("disableAll") /\ UNCHANGED <<nextId, target, store>>

(* ------------------------- a record's settings ------------------------- *)
Setting(r, e) == UserStep /\ Data([entries EXCEPT ![r] = e]) /\ Did("setting") /\ UNCHANGED <<nextId, target, store>>
SetFreezeMode(r, mode) == Setting(r, [entries[r] EXCEPT !.mode = mode])
SetShowAsHex(r) == Setting(r, [entries[r] EXCEPT !.hex = ~@])
SetEntryCodec(r, codec) == Setting(r, [entries[r] EXCEPT !.codec = codec, !.cur = Empty])
(* setEntryAddress (inline) and setAddress / setAddressExpression (dialog):*)
(* only the inline edit clears the shown value.                            *)
SetEntryAddress(r, cell, expr) ==
  entries[r].kind = "value" /\ Setting(r, [entries[r] EXCEPT !.addr = cell, !.expr = expr, !.cur = Empty])
ChangeAddress(r, cell, expr) ==
  entries[r].kind = "value" /\ Setting(r, [entries[r] EXCEPT !.addr = cell, !.expr = expr])
ToggleGroupCollapse(r) == entries[r].kind = "group" /\ Setting(r, [entries[r] EXCEPT !.collapsed = ~@])
(* updateScriptEntryById: the text changes, the run it had does not.       *)
EditScript(r) == entries[r].kind = "script" /\ Setting(r, entries[r])
(* "Configure Hotkey...": dataChanged only.  "Configure Value Hotkeys...": *)
(* rebuilds the bindings.                                                  *)
SetHotkeyKeys(r, combo) == Setting(r, [entries[r] EXCEPT !.keys.toggle = combo])
SetValueHotkeys(r, combo) ==
  /\ UserStep
  /\ Structure([entries EXCEPT ![r].keys = [op \in HotkeyOps |-> IF op = "toggle" THEN @[op] ELSE combo]])
  /\ Did("setting") /\ UNCHANGED <<nextId, target, store>>

(* GlobalHotkeyManager::activated: the row is looked up when the key is    *)
(* pressed; a key whose record is gone does nothing.                       *)
PressKey(id, key) ==
  LET r == RowOfId(id)
  IN /\ UserStep /\ <<id, key>> \in hot
     /\ r # 0
     /\ \/ /\ key = "toggle" /\ entries[r].kind # "group"
           /\ \E failing \in Failing : Data(SetEntryActive(entries, r, ~entries[r].active, failing))
           /\ Did("key") /\ UNCHANGED mem
        \/ key = "increase" /\ AdjustEntryValue(r, Parse(HotkeyStep, FALSE))
        \/ key = "decrease" /\ AdjustEntryValue(r, -Parse(HotkeyStep, FALSE))
        \/ key = "set" /\ proc /\ ValueWritten(r, HotkeyValue)
     /\ UNCHANGED <<nextId, ptr, proc, store>>

(* ------------------------------ rows ----------------------------------- *)
Add(e) ==
  /\ UserStep /\ Len(entries) < MaxRows
  /\ Structure(Append(entries, e)) /\ nextId' = nextId + 1
  /\ Did("add") /\ UNCHANGED <<target, store>>
AddEntry(cell, expr) == Add([NewEntry("value", nextId) EXCEPT !.addr = cell, !.expr = expr])
AddScriptEntry == Add(NewEntry("script", nextId))
AddGroup == Add(NewEntry("group", nextId))

Kept(rows) == LET ks == SetToSortSeq(Rows \ rows, <) IN [k \in DOMAIN ks |-> entries[ks[k]]]
(* removeEntries: a removed active script is not disabled.                 *)
RemoveEntries(rows) ==
  /\ UserStep /\ Structure(Kept(ExpandGroupDeletion(entries, rows)))
  /\ Note("delete", Ids(entries), Null, 0) /\ UNCHANGED <<nextId, target, store>>
(* deleteById, from Lua: the row alone.                                    *)
DeleteById(r) ==
  /\ UserStep /\ Structure(Kept({r})) /\ Did("deleteById") /\ UNCHANGED <<nextId, target, store>>

(* moveEntry: a swap with the neighbour; the view is told of no reset.     *)
MoveEntry(r, q) ==
  /\ UserStep /\ Data([entries EXCEPT ![r] = entries[q], ![q] = entries[r]])
  /\ Did("move") /\ UNCHANGED <<nextId, target, store>>

IndentRows(rows) ==
  /\ UserStep
  /\ LET In(es, r) == IF r = 1 THEN es ELSE [es EXCEPT ![r].indent = Min({@, es[r - 1].indent}) + 1]
     IN Data(FoldLeft(In, entries, SetToSortSeq(rows, <)))
  /\ Did("indent") /\ UNCHANGED <<nextId, target, store>>
OutdentRows(rows) ==
  /\ UserStep
  /\ Data([r \in Rows |-> IF r \in rows /\ entries[r].indent > 0 THEN [entries[r] EXCEPT !.indent = @ - 1] ELSE entries[r]])
  /\ Did("outdent") /\ UNCHANGED <<nextId, target, store>>
(* setIndent, from Lua.                                                    *)
SetIndent(r, depth) == Setting(r, [entries[r] EXCEPT !.indent = depth])

Block(r) == {r} \cup (IF entries[r].kind = "group" THEN Descendants(entries, r) ELSE {})
(* moveEntryBlock: a group moves with its subtree, re-indented by the same *)
(* amount; a drop inside or next to the block changes nothing.             *)
MoveEntryBlock(r, dest, rootIndent) ==
  LET block == Block(r)
      shift == rootIndent - entries[r].indent
      placed == [i \in Rows |-> IF i \in block THEN [entries[i] EXCEPT !.indent = @ + shift] ELSE entries[i]]
  IN /\ UserStep /\ dest \notin r..(r + Cardinality(block))
     /\ Structure(MoveRange(placed, block, dest))
     /\ Note("drop", {entries[i].id : i \in block}, Null, 0)
     /\ UNCHANGED <<nextId, target, store>>
(* dropMimeData: between rows, onto a row, onto a group, past the end.     *)
Drop(r) ==
  \/ \E dest \in 1..(Len(entries) + 1) : MoveEntryBlock(r, dest, entries[r].indent)
  \/ \E g \in Rows \ {r} : entries[g].kind = "group" /\ MoveEntryBlock(r, g + 1, entries[g].indent + 1)

GroupSelectedRows(rows) ==
  /\ UserStep /\ Len(entries) < MaxRows
  /\ Structure(GroupSelection(entries, rows, NewEntry("group", nextId))) /\ nextId' = nextId + 1
  /\ Note("group", {entries[r].id : r \in rows}, Null, 0) /\ UNCHANGED <<target, store>>

(* ----------------------- clipboard and table files --------------------- *)
Copy(rows) ==
  /\ UserStep /\ clip' = [k \in 1..Cardinality(rows) |-> ToJson(entries)[SetToSortSeq(rows, <)[k]]]
  /\ Did("copy") /\ UNCHANGED <<entries, hot, nextId, target, file, extra>>

PasteWithIds(rows) == [k \in DOMAIN rows |-> [rows[k] EXCEPT !.active = FALSE]]
(* onPasteAddresses: inactive and without ids.                             *)
Pasted(rows) == [k \in DOMAIN rows |-> [rows[k] EXCEPT !.active = FALSE, !.id = NoId]]
(* onPasteAddresses: the whole list goes through its JSON form and back.   *)
Paste ==
  /\ UserStep /\ clip # <<>> /\ Len(entries) + Len(clip) <= MaxRows
  /\ LET loaded == FromJson(ToJson(entries) \o Pasted(clip), nextId)
     IN Structure(loaded.entries) /\ nextId' = loaded.next
  /\ Did("paste") /\ UNCHANGED <<target, store>>
(* The context menu's Paste over a selection: plain value records.         *)
PastePlain ==
  /\ UserStep /\ clip # <<>> /\ Len(entries) + Len(clip) <= MaxRows
  /\ Structure(entries \o [k \in DOMAIN clip |-> [NewEntry("value", nextId + k - 1) EXCEPT !.addr = clip[k].addr, !.expr = clip[k].expr]])
  /\ nextId' = nextId + Len(clip) /\ Did("paste") /\ UNCHANGED <<target, store>>

ListFile(rows, notes) == [format |-> "list", cut |-> FALSE, list |-> rows, notes |-> notes]
SaveTable(format) ==
  /\ UserStep
  /\ file' = CASE format = "list" -> ListFile(ToJson(entries), extra.notes)
                [] format = "xml" -> SaveXml(BuildCheatTable(entries, extra))
                [] format = "lua" -> SaveJson(BuildCheatTableFromList(entries))
  /\ Did("save") /\ UNCHANGED <<entries, hot, nextId, target, clip, extra>>

(* loadAddressEntries: active scripts run first, those that fail, or have  *)
(* no process, come in inactive; the DisableInfo of a run is dropped.      *)
Activated(rows, failing) ==
  [k \in DOMAIN rows |-> IF rows[k].kind = "script" /\ (~proc \/ k \in failing) THEN [rows[k] EXCEPT !.active = FALSE] ELSE rows[k]]
LoadAddressEntries(rows) ==
  \E failing \in SUBSET {k \in DOMAIN rows : rows[k].kind = "script" /\ rows[k].active} :
    LET loaded == FromJson(Activated(rows, failing), nextId)
    IN Structure(loaded.entries) /\ nextId' = loaded.next
(* loadCheatTableModel: the rows, then the texts.  The table's Lua script  *)
(* runs after the rows are in, if the user agrees (LuaOperation).          *)
LoadCheatTableModel(t) ==
  /\ LoadAddressEntries(CheatEntriesToJson(t))
  /\ extra' = [comment |-> t.comment, script |-> t.script, notes |-> t.notes]
(* A JSON file: the rows and the notes; the comment and the script stay.   *)
LoadJsonRoot ==
  /\ LoadAddressEntries(IF file.format = "list" THEN file.list ELSE ReadTableJson(file.table))
  /\ extra' = [extra EXCEPT !.notes = IF file.format = "list" THEN file.notes ELSE file.table.notes]
LoadTable ==
  /\ UserStep
  /\ \/ DetectTableFormat(file) = "Xml" /\ LoadCheatTableModel(LoadFromString(file).table)
     \/ DetectTableFormat(file) = "Json" /\ LoadJson(file).ok /\ LoadJsonRoot
     \/ /\ DetectTableFormat(file) = "Protected"
        /\ \E password \in Passwords : LoadProtected(file, password).ok /\ LoadCheatTableModel(LoadProtected(file, password).table)
  /\ Did("load") /\ UNCHANGED <<target, clip, file>>

(* The Comments and Lua script windows, and a viewer's new set of notes.   *)
Texts(e) == UserStep /\ extra' = e /\ Did("texts") /\ UNCHANGED <<entries, hot, nextId, target, clip, file>>
ShowComments(v) == Texts([extra EXCEPT !.comment = v])
ShowTableLuaScript(v) == Texts([extra EXCEPT !.script = v])
Annotate(v) == Texts([extra EXCEPT !.notes = v])

(* l_loadTable, from Lua: the records are appended one by one, and each    *)
(* value is written to the target before the record's base is set.         *)
LuaLoadTable ==
  /\ UserStep /\ LoadAuto(file).ok
  /\ LET rows == LoadAuto(file).table.rows
         done == FoldLeft(LAMBDA acc, x : Append(acc, [ct |-> x.id, row |-> [x.fields EXCEPT !.indent = IndentBelowParent(acc, x)]]), <<>>, rows)
         scripts == {k \in DOMAIN rows : rows[k].fields.kind = "script" /\ rows[k].fields.active}
         Created(k) == LET e == done[k].row
                       IN [e EXCEPT !.id = nextId + k - 1, !.keys = NoKeys, !.collapsed = FALSE, !.carries = BOOLEAN, !.active = FALSE, !.addr = Resolved(e),
                                    !.cur = IF e.kind # "group" /\ e.cur = Empty THEN Unknown ELSE @]
         new == [k \in DOMAIN rows |-> Created(k)]
         Put(m, k) == LET e == done[k].row
                      IN IF proc /\ e.kind # "group" /\ e.cur # Empty THEN Write(m, new[k].addr, Stored(e.cur, FALSE, e.codec)) ELSE m
         Turn(failing) == FoldLeft(LAMBDA es, k : IF rows[k].fields.active /\ es[k].kind # "group" THEN SetEntryActive(es, k, TRUE, failing) ELSE es,
                                   new, [k \in DOMAIN rows |-> k])
     IN /\ Len(entries) + Len(rows) <= MaxRows
        /\ \E failing \in SUBSET scripts : Structure(entries \o Turn(failing))
        /\ mem' = FoldLeft(Put, mem, [k \in DOMAIN rows |-> k]) /\ nextId' = nextId + Len(rows)
  /\ Did("luaLoad") /\ UNCHANGED <<ptr, proc, store>>

(* ----------------------------- the target ------------------------------ *)
TargetStore(cell, v) ==
  TargetStep /\ mem' = [mem EXCEPT ![cell] = v] /\ Did("target") /\ UNCHANGED <<entries, hot, nextId, ptr, proc, store>>
TargetPointer(p) ==
  TargetStep /\ ptr' = p /\ Did("target") /\ UNCHANGED <<entries, hot, nextId, mem, proc, store>>
(* The refresh timer finds the process gone and drops the handle.          *)
TargetDies ==
  TargetStep /\ proc' = FALSE /\ Did("target") /\ UNCHANGED <<entries, hot, nextId, mem, ptr, store>>

Selections == {s \in SUBSET Rows : s # {}}

Init ==
  /\ \E s \in Sessions : entries = s.table /\ file = s.file /\ left = s.steps
  /\ nextId = Len(entries) + 1
  /\ mem = [c \in Cells |-> 0] /\ ptr \in Cells /\ proc = TRUE
  /\ clip = <<>> /\ extra = [comment |-> 0, script |-> 0, notes |-> 0]
  /\ hot = Bindings(entries)
  /\ last = [op |-> "none", ids |-> {}, cell |-> Null, want |-> 0]

(* The row menu, the inline editors and drag and drop.                     *)
RowOperation ==
  \E r \in Rows :
    \/ \E text \in Typed : EditValue(r, text)
    \/ \E on \in BOOLEAN : Check(r, on)
    \/ \E combo \in Combos \cup {{}} : SetHotkeyKeys(r, combo) \/ SetValueHotkeys(r, combo)
    \/ \E mode \in Modes : SetFreezeMode(r, mode)
    \/ \E codec \in Codecs : SetEntryCodec(r, codec)
    \/ \E p \in Places : SetEntryAddress(r, p.cell, p.expr) \/ ChangeAddress(r, p.cell, p.expr)
    \/ SetShowAsHex(r) \/ ToggleGroupCollapse(r) \/ EditScript(r) \/ Drop(r)
    \/ \E q \in Rows \cap {r - 1, r + 1} : MoveEntry(r, q)
(* The selection menu and the shortcuts.                                   *)
SelectionOperation ==
  \E rows \in Selections :
    \/ \E text \in Typed : SetValue(rows, text)
    \/ ToggleActive(rows) \/ RemoveEntries(rows) \/ IndentRows(rows) \/ OutdentRows(rows)
    \/ GroupSelectedRows(rows) \/ Copy(rows)
TableOperation ==
  \/ \E on \in BOOLEAN : SetAllActive(on)
  \/ \E p \in Places : AddEntry(p.cell, p.expr)
  \/ \E format \in {"list", "xml"} : SaveTable(format)
  \/ \E v \in {0, 1} : ShowComments(v) \/ ShowTableLuaScript(v)
  \/ \E v \in {0, 2} : Annotate(v)
  \/ AddScriptEntry \/ AddGroup \/ Paste \/ PastePlain \/ LoadTable
  \/ \E b \in hot : PressKey(b[1], b[2])

(* A script's memory records: __newindex sets a property of the record its *)
(* id names, and does nothing when there is none.                          *)
LuaAssign(r) ==
  \/ \E text \in Typed : LuaSetValue(r, text)
  \/ \E on \in BOOLEAN : LuaSetActive(r, on)
  \/ \E mode \in Modes : SetFreezeMode(r, mode)
  \/ \E p \in Places : ChangeAddress(r, p.cell, p.expr)
  \/ \E depth \in 0..2 : SetIndent(r, depth)
  \/ SetShowAsHex(r)
LuaOperation ==
  \/ \E id \in Ids(entries) : LuaAssign(RowOfId(id)) \/ DeleteById(RowOfId(id))
  \/ DisableAllWithoutExecute \/ AddEntry(Null, "none") \/ AddGroup \/ SaveTable("lua") \/ LuaLoadTable
Environment ==
  \/ Refresh \/ Freeze \/ TargetDies
  \/ \E cell \in Cells, v \in TargetValues : TargetStore(cell, v)
  \/ \E p \in Cells \cup {Broken} : TargetPointer(p)
Next == RowOperation \/ SelectionOperation \/ TableOperation \/ LuaOperation \/ Environment
Spec == Init /\ [][Next]_vars

(* ----------------------------- properties ------------------------------ *)
(* Every record has an id of its own, whatever was pasted, grouped, saved  *)
(* and loaded: getMemoryRecordByID, the hotkeys and the script editor find *)
(* their record by it.                                                     *)
IdsUnique == \A i, j \in Rows : entries[i].id = entries[j].id => i = j

HeaderId(es, id) ==
  LET r == CHOOSE i \in 1..Len(es) : es[i].id = id
      h == Header(es, r)
  IN IF h = 0 THEN NoId ELSE es[h].id
(* Deleting rows leaves no child under another header, and a dragged or    *)
(* regrouped subtree keeps its inner structure.                            *)
KeepHeaders ==
  LET still == last'.ids \cap Ids(entries')
      inner == {id \in still : HeaderId(entries, id) \in last'.ids}
  IN CASE last'.op = "delete" -> \A id \in still : HeaderId(entries', id) = HeaderId(entries, id)
       [] last'.op \in {"drop", "group"} -> \A id \in inner : HeaderId(entries', id) = HeaderId(entries, id)
       [] OTHER -> TRUE
SubtreesTravel == [][KeepHeaders]_vars

(* The cell a record stands for in the target now.                         *)
Stands(e) == IF e.expr = "pointer" THEN ptr ELSE e.addr
Holds(op) ==
  (last.op \in op /\ last.cell \in Cells)
    => \A r \in Rows : (entries[r].id \in last.ids /\ Stands(entries[r]) # Broken)
                         => Decode(entries[r].codec, mem[Stands(entries[r])]) = last.want
(* A value set from the menu, a hotkey or Lua is in the cell the record    *)
(* stands for now, through its codec, as the record's display reads it.    *)
StoredAsShown == Holds({"set", "adjust"})

(* After a freeze tick the cell a frozen record stands for holds the       *)
(* frozen number, or lies on the allowed side of it.  Left out: a broken   *)
(* pointer, a cell two active records share, a frozen text that is not in  *)
(* the record's own format, and directional modes of hex records.          *)
Frozen(r) == entries[r].kind = "value" /\ entries[r].active /\ Stands(entries[r]) \in Cells
FreezeHolds ==
  last.op = "freeze" =>
    \A r \in Rows :
      LET e == entries[r]
          byte == mem[Stands(e)]
          alone == \A q \in Rows \ {r} : entries[q].active => Stands(entries[q]) # Stands(e)
          want == Parse(e.frozen, FALSE)
      IN (Frozen(r) /\ alone /\ Parses(e.frozen, FALSE) /\ e.frozen.pfx = e.hex) =>
           IF e.mode = "normal" THEN Decode(e.codec, byte) = want % Modulus
           ELSE ~e.hex => ~FreezeShouldWrite(e.mode, Comparable(byte, e.codec, Signed), want)

WellNested(es) == \A r \in 1..Len(es) : es[r].indent <= (IF r = 1 THEN 0 ELSE es[r - 1].indent + 1)
ValuedKeys(e) == \E op \in HotkeyOps : e.keys[op] # {} /\ HotkeyText(op) # Empty
SameRecord(a, b) ==
  /\ a.kind = b.kind /\ a.indent = b.indent /\ a.hex = b.hex /\ a.mode = b.mode /\ a.keys = b.keys
  /\ a.active = b.active /\ a.carries = b.carries
  /\ a.kind = "value" => /\ a.cur = b.cur \/ (b.cur = Empty /\ ValuedKeys(b))
                         /\ IF b.expr = "pointer" THEN a.expr = "pointer" ELSE a.expr # "pointer" /\ a.addr = b.addr
(* The table that comes back from a file that was saved as one.            *)
SavedXml(es) == LoadFromString(SaveXml(BuildCheatTable(es, extra))).table
SameRows(back, es) == Len(back) = Len(es) /\ \A r \in 1..Len(es) : SameRecord(back[r], es[r])
(* What survives a .CT file.  Of a well-nested table whose first row heads *)
(* no other: the same records in the same order, at the same depth, at the *)
(* same place, with their settings, their hotkeys and their text (but for  *)
(* an empty text of a record with a valued hotkey).  Of the texts: the     *)
(* script, the notes, and the comment unless it is empty and there are     *)
(* notes.  In the two cases left out getTag reads another element's text.  *)
TableSurvives ==
  /\ (WellNested(entries) /\ Descendants(entries, 1) = {}) => SameRows(CheatEntriesToJson(SavedXml(entries)), entries)
  /\ LET back == SavedXml(<<>>)
     IN /\ back.script = extra.script /\ back.notes = extra.notes
        /\ (extra.comment # 0 \/ extra.notes = 0) => back.comment = extra.comment
=============================================================================
