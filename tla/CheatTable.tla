----------------------------- MODULE CheatTable -----------------------------
(* The rows of the cheat table as a tree, and their JSON form:             *)
(* src/core/address_list.hpp and src/gui/mainwindow.cpp.  Module CtFile    *)
(* has the table as a file.                                                *)
(*                                                                         *)
(* A row's place in the tree is its indent alone.  Rows are numbered from  *)
(* 1; the identifiers a .CT file gives them are the code's, from 0.        *)
EXTENDS ValueText, FiniteSets

NoId == -1
NoParent == -1
Null == "null"         \* address 0, which no process maps

(* ------------------------ rows as a tree ------------------------------- *)
(* descendantRange: the contiguous deeper rows that follow.                *)
Descendants(es, r) == {i \in (r + 1)..Len(es) : \A j \in (r + 1)..i : es[j].indent > es[r].indent}

(* The row that heads a row: the nearest earlier one with a lesser indent. *)
Header(es, r) ==
  LET above == {i \in 1..(r - 1) : es[i].indent < es[r].indent}
  IN IF above = {} THEN 0 ELSE CHOOSE i \in above : \A j \in above : j <= i

ExpandSelectedOnly(es, rows) == rows
(* expandGroupDeletion: a deleted row takes its subtree along.             *)
ExpandGroupDeletion(es, rows) == rows \cup UNION {Descendants(es, r) : r \in rows}

(* moveRangePermutation: the block of rows, re-inserted before row dest.   *)
MoveRange(es, block, dest) ==
  LET At(ok(_)) == LET rows == SetToSortSeq({i \in 1..Len(es) : ok(i)}, <) IN [k \in DOMAIN rows |-> es[rows[k]]]
  IN At(LAMBDA i : i \notin block /\ i < dest) \o At(LAMBDA i : i \in block) \o At(LAMBDA i : i \notin block /\ i >= dest)

(* groupSelection: a new header at the first selected row, the selection   *)
(* gathered under it one level deeper, the other rows as they were.        *)
GroupSelection(es, rows, header) ==
  LET first == CHOOSE r \in rows : \A s \in rows : r <= s
      shallowest == CHOOSE d \in {es[r].indent : r \in rows} : \A r \in rows : d <= es[r].indent
      deeper == [i \in 1..Len(es) |-> IF i \in rows THEN [es[i] EXCEPT !.indent = @ + 1] ELSE es[i]]
      moved == MoveRange(deeper, rows, first)
  IN SubSeq(moved, 1, first - 1) \o <<[header EXCEPT !.indent = shallowest]>> \o SubSeq(moved, first, Len(es))

(* --------------------------- the JSON form ----------------------------- *)
(* toJson: a row without its frozen text and its DisableInfo.              *)
ToJson(es) == [i \in 1..Len(es) |-> [es[i] EXCEPT !.frozen = Empty, !.info = FALSE]]

(* fromJson: a row without id gets the next one, a row with one pushes the *)
(* counter past it; an active row freezes the text it was saved with.      *)
FromJson(rows, next) ==
  LET Load(acc, r) ==
        LET id == IF r.id = NoId THEN acc.next ELSE r.id
            cur == IF r.kind = "group" THEN Empty ELSE r.cur
        IN [entries |-> Append(acc.entries, [r EXCEPT !.id = id, !.cur = cur, !.frozen = IF r.active THEN cur ELSE Empty]),
            next |-> IF r.id = NoId \/ id >= acc.next THEN id + 1 ELSE acc.next]
  IN FoldLeft(Load, [entries |-> <<>>, next |-> next], rows)
=============================================================================
