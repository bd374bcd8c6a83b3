------------------------ MODULE DebuggerWindowProofs ------------------------
(***************************************************************************)
(* Proofs about DebuggerWindow, for any addresses, any conditions, any     *)
(* number of rows, debug registers and queued events: a checked row is a   *)
(* breakpoint the session has under the row's id, and a stop is never lost.*)
(*                                                                         *)
(* The session removes a breakpoint by its id and the window finds a row   *)
(* by its address, so the argument is about ids: a software breakpoint     *)
(* that no checked row owns was planted by a run to the cursor, and two    *)
(* rows share an id only if it came from there.                            *)
(***************************************************************************)
EXTENDS DebuggerWindow, SequenceTheorems, WellFoundedInduction, TLAPS

Ids == Nat \ {0}
Rows == [id : Ids, addr : Addrs, hw : BOOLEAN, on : BOOLEAN, cond : Conditions]
Watches == [id : Ids, addr : Addrs, armed : BOOLEAN]
Entries == [id : Ids, saved : {"insn", "int3"}]

\* The part of the state the properties speak of is well typed.
TypeOK ==
    /\ sess \in [at : BOOLEAN, stop : BOOLEAN]
    /\ rip \in Addrs
    /\ Planted \subseteq Addrs /\ table \in [Planted -> Entries]
    /\ code \in [Addrs -> {"insn", "int3"}]
    /\ hw \subseteq Watches
    /\ next \in [soft : Ids, hw : Ids]
    /\ bps \in Seq(Rows)
    /\ rtc \in [id : Nat, addr : Addrs \cup {NoAddr}]
    /\ events \in Seq({"bp", "exited", "other"})
    /\ ui \in {"stopped", "running", "exited"}
    /\ shown \in [regs : Addrs, code : Addrs]
    /\ modal \in BOOLEAN /\ resume \in BOOLEAN
    /\ temps \subseteq Ids

SoftRows == {i \in DOMAIN bps : ~bps[i].hw}
HardRows == {i \in DOMAIN bps : bps[i].hw}

\* Ids are handed out once: none in use reaches the next one.
FreshInv ==
    /\ \A a \in Planted : table[a].id < next.soft
    /\ \A b \in hw : b.id < next.hw
    /\ \A i \in SoftRows : bps[i].id < next.soft
    /\ \A i \in HardRows : bps[i].id < next.hw

\* An id names one address of the table and one debug register.
TableInv ==
    /\ \A a, b \in Planted : table[a].id = table[b].id => a = b
    /\ \A b, c \in hw : b.id = c.id => b = c

\* An address has one software row; two rows share an id only if a run to the cursor
\* had planted it.
RowsInv ==
    /\ \A i, j \in SoftRows : bps[i].addr = bps[j].addr => i = j
    /\ \A i, j \in SoftRows : bps[i].id = bps[j].id => i = j \/ bps[i].id \in temps
    /\ \A i, j \in HardRows : bps[i].id = bps[j].id => i = j

\* Who owns a software breakpoint: a run to the cursor, or a checked row.
OwnerInv ==
    Attached => \A a \in Planted :
        \/ table[a].id \in temps
        \/ \E i \in SoftRows : bps[i].on /\ bps[i].addr = a /\ bps[i].id = table[a].id

\* What the window will clear by itself came from a run to the cursor.
PendingInv == rtc.id > 0 => rtc.id \in temps

\* ChecksArePlanted, its two halves apart.
SoftPlanted ==
    Attached => \A i \in SoftRows :
        bps[i].on /\ bps[i].id \notin temps =>
            bps[i].addr \in Planted /\ table[bps[i].addr].id = bps[i].id
HardPlanted ==
    Attached => \A i \in HardRows :
        bps[i].on => \E b \in hw : b.id = bps[i].id /\ b.addr = bps[i].addr

\* The exit is reported after the session has ended.
ExitInv == \A i \in DOMAIN events : events[i] = "exited" => ~Attached

PlantInv == FreshInv /\ TableInv /\ RowsInv /\ OwnerInv /\ PendingInv /\ SoftPlanted /\ HardPlanted
Inv == TypeOK /\ PlantInv /\ ExitInv /\ StopShown
-----------------------------------------------------------------------------
(* Rows                                                                    *)

\* A set of numbers has a least one.
LEMMA LeastNumber ==
    ASSUME NEW T, T \subseteq Nat, T # {}
    PROVE  \E x \in T : \A y \in T : x <= y
<1> DEFINE R == OpToRel(<, Nat)
<1>1. IsWellFoundedOn(R, Nat)
  BY NatLessThanWellFounded
<1>2. ASSUME NEW x \in Nat, NEW y \in Nat, y < x
      PROVE  <<y, x>> \in R
  BY <1>2 DEF OpToRel
<1> HIDE DEF R
<1>3. PICK x \in T : \A y \in T : ~(<<y, x>> \in R)
  BY <1>1, WFMin
<1>4. \A y \in T : ~(y < x)
  BY <1>2, <1>3
<1>5. x \in Nat /\ \A y \in T : y \in Nat
  OBVIOUS
<1> QED
  BY <1>4, <1>5

\* The row found at an address is one at that address.
LEMMA RowFound ==
    ASSUME NEW a, bps \in Seq(Rows), RowsAt(a) # {}
    PROVE  RowAt(a) \in DOMAIN bps /\ bps[RowAt(a)].addr = a
<1>1. RowsAt(a) \subseteq Nat
  BY DEF RowsAt
<1>2. \E i \in RowsAt(a) : \A j \in RowsAt(a) : i <= j
  BY <1>1, LeastNumber
<1>3. RowAt(a) \in RowsAt(a)
  BY <1>2 DEF RowAt
<1> QED
  BY <1>3 DEF RowsAt

\* What a handler may do to the list of rows.
Appends(r) == bps' = Append(bps, r)
NewIndex(m, row) == /\ DOMAIN bps' = DOMAIN bps \cup {m} /\ m \notin DOMAIN bps
                    /\ \A i \in DOMAIN bps : bps'[i] = bps[i]
                    /\ bps'[m] = row
Erases(i) == bps' = RemoveAt(bps, i)

\* Erasing a row moves the rows behind it up by one.
LEMMA RowErased ==
    ASSUME NEW s \in Seq(Rows), NEW i \in DOMAIN s
    PROVE  /\ RemoveAt(s, i) \in Seq(Rows)
           /\ \A j \in DOMAIN RemoveAt(s, i) :
                \E k \in DOMAIN s \ {i} : /\ RemoveAt(s, i)[j] = s[k]
                                          /\ k = IF j < i THEN j ELSE j + 1
           /\ \A k \in DOMAIN s \ {i} : \E j \in DOMAIN RemoveAt(s, i) : RemoveAt(s, i)[j] = s[k]
<1> DEFINE n == Len(s)
           p == SubSeq(s, 1, i - 1)
           q == SubSeq(s, i + 1, n)
<1>1. n \in Nat /\ i \in 1 .. n /\ \A j \in 1 .. n : s[j] \in Rows
  BY ElementOfSeq
<1>2. DOMAIN s = 1 .. n
  OBVIOUS
<1> HIDE DEF n
<1>3. /\ p \in Seq(Rows) /\ Len(p) = i - 1
      /\ \A j \in 1 .. i - 1 : p[j] = s[j]
  BY <1>1, SubSeqProperties
<1>4. /\ q \in Seq(Rows) /\ Len(q) = n - i
      /\ \A j \in 1 .. n - i : q[j] = s[i + j]
  BY <1>1, SubSeqProperties
<1> HIDE DEF p, q
<1>5. /\ p \o q \in Seq(Rows) /\ Len(p \o q) = n - 1
      /\ \A j \in 1 .. n - 1 : (p \o q)[j] = IF j <= i - 1 THEN p[j] ELSE q[j - (i - 1)]
  <2>1. /\ p \o q \in Seq(Rows)
        /\ Len(p \o q) = Len(p) + Len(q)
        /\ \A j \in 1 .. Len(p) + Len(q) :
                (p \o q)[j] = IF j <= Len(p) THEN p[j] ELSE q[j - Len(p)]
    BY <1>3, <1>4, ConcatProperties
  <2>2. Len(p) + Len(q) = n - 1
    BY <1>1, <1>3, <1>4
  <2>3. ASSUME NEW j \in 1 .. n - 1
        PROVE  (p \o q)[j] = IF j <= i - 1 THEN p[j] ELSE q[j - (i - 1)]
    BY <1>3, <2>1, <2>2
  <2> QED
    BY <2>1, <2>2, <2>3
<1>6. ASSUME NEW j \in 1 .. n - 1
      PROVE  (p \o q)[j] = s[IF j < i THEN j ELSE j + 1]
  <2>1. CASE j < i
    BY <1>1, <1>3, <1>5, <2>1
  <2>2. CASE ~(j < i)
    <3>1. j - (i - 1) \in 1 .. n - i /\ i + (j - (i - 1)) = j + 1
      BY <1>1, <2>2
    <3>2. (p \o q)[j] = q[j - (i - 1)]
      BY <1>1, <1>5, <2>2
    <3>3. q[j - (i - 1)] = s[i + (j - (i - 1))]
      BY <1>4, <3>1
    <3> QED
      BY <2>2, <3>1, <3>2, <3>3
  <2> QED
    BY <2>1, <2>2
<1>7. RemoveAt(s, i) = p \o q
  BY DEF RemoveAt, p, q, n
<1>8. DOMAIN RemoveAt(s, i) = 1 .. n - 1
  BY <1>1, <1>5, <1>7
<1>9. ASSUME NEW k \in DOMAIN s \ {i}
      PROVE  \E j \in 1 .. n - 1 : k = IF j < i THEN j ELSE j + 1
  <2>1. CASE k < i
    BY <1>1, <1>2, <2>1
  <2>2. CASE k > i
    <3>1. k - 1 \in 1 .. n - 1 /\ k = (k - 1) + 1 /\ ~(k - 1 < i)
      BY <1>1, <1>2, <2>2
    <3> QED
      BY <3>1
  <2> QED
    BY <1>1, <1>2, <2>1, <2>2
<1>10. ASSUME NEW j \in 1 .. n - 1
       PROVE  (IF j < i THEN j ELSE j + 1) \in (1 .. n) \ {i}
  BY <1>1
<1>11. RemoveAt(s, i) \in Seq(Rows)
  BY <1>5, <1>7
<1>12. \A j \in 1 .. n - 1 : RemoveAt(s, i)[j] = s[IF j < i THEN j ELSE j + 1]
  BY <1>6, <1>7
<1> HIDE DEF RemoveAt
<1> QED
  BY <1>2, <1>8, <1>9, <1>10, <1>11, <1>12
-----------------------------------------------------------------------------
(* Types                                                                   *)

LEMMA PublishType ==
    ASSUME TypeOK, NEW type \in {"bp", "exited", "other"}, NEW a, Publish(type, a)
    PROVE  events' \in Seq({"bp", "exited", "other"})
  BY AppendProperties DEF TypeOK, Publish

LEMMA SetIdType ==
    ASSUME TypeOK, NEW a \in Addrs
    PROVE  SetId(a) \in Nat /\ (IsStopped => SetId(a) \in Ids)
  BY DEF TypeOK, SetId, IsStopped, Attached, Planted, Entries, Ids

LEMMA SetSoftType ==
    ASSUME TypeOK, NEW a \in Addrs, DoSetSoftBp(a)
    PROVE  /\ DOMAIN table' \subseteq Addrs /\ table' \in [DOMAIN table' -> Entries]
           /\ code' \in [Addrs -> {"insn", "int3"}]
           /\ next' \in [soft : Ids, hw : Ids]
<1>1. CASE Attached /\ IsStopped /\ a \notin Planted
  <2>1. /\ table' = [x \in Planted \cup {a} |->
                        IF x = a THEN [id |-> next.soft, saved |-> code[a]] ELSE table[x]]
        /\ code' = [code EXCEPT ![a] = "int3"]
        /\ next' = [next EXCEPT !.soft = next.soft + 1]
    BY <1>1 DEF DoSetSoftBp
  <2>2. [id |-> next.soft, saved |-> code[a]] \in Entries
    BY DEF TypeOK, Entries
  <2>3. DOMAIN table' = Planted \cup {a} /\ table' \in [DOMAIN table' -> Entries]
    BY <2>1, <2>2 DEF TypeOK
  <2>4. next' \in [soft : Ids, hw : Ids]
    BY <2>1 DEF TypeOK, Ids
  <2> QED
    BY <2>1, <2>3, <2>4 DEF TypeOK
<1>2. CASE ~(Attached /\ IsStopped /\ a \notin Planted)
  BY <1>2 DEF DoSetSoftBp, TypeOK, Planted
<1> QED
  BY <1>1, <1>2

LEMMA RemoveSoftType ==
    ASSUME TypeOK, NEW id, DoRemoveSoftBp(id)
    PROVE  /\ DOMAIN table' \subseteq Addrs /\ table' \in [DOMAIN table' -> Entries]
           /\ code' \in [Addrs -> {"insn", "int3"}]
<1> DEFINE gone == {a \in Planted : table[a].id = id}
<1>1. CASE Attached
  <2>1. /\ table' = [a \in Planted \ gone |-> table[a]]
        /\ code' = [a \in Addrs |-> IF a \in gone /\ IsStopped THEN table[a].saved ELSE code[a]]
    BY <1>1 DEF DoRemoveSoftBp
  <2>2. \A a \in gone : table[a].saved \in {"insn", "int3"}
    BY DEF TypeOK, Entries
  <2> HIDE DEF gone
  <2> QED
    BY <2>1, <2>2 DEF TypeOK
<1>2. CASE ~Attached
  BY <1>2 DEF DoRemoveSoftBp, TypeOK, Planted
<1> QED
  BY <1>1, <1>2

LEMMA UnplantType ==
    ASSUME TypeOK, NEW b, Unplant(b)
    PROVE  /\ DOMAIN table' \subseteq Addrs /\ table' \in [DOMAIN table' -> Entries]
           /\ code' \in [Addrs -> {"insn", "int3"}]
           /\ hw' \subseteq Watches
<1>1. CASE b.hw
  BY <1>1 DEF Unplant, DoRemoveHwBp, TypeOK, Planted
<1>2. CASE ~b.hw
  BY <1>2, RemoveSoftType DEF Unplant, TypeOK
<1> QED
  BY <1>1, <1>2

LEMMA SetHwType ==
    ASSUME TypeOK, NEW a \in Addrs, DoSetHwBp(a)
    PROVE  hw' \subseteq Watches /\ next' \in [soft : Ids, hw : Ids]
<1>1. /\ hw' = hw \cup {[id |-> next.hw, addr |-> a, armed |-> IsStopped]}
      /\ next' = [next EXCEPT !.hw = next.hw + 1]
  BY DEF DoSetHwBp
<1>2. [id |-> next.hw, addr |-> a, armed |-> IsStopped] \in Watches
  BY DEF TypeOK, Watches, IsStopped
<1> QED
  BY <1>1, <1>2 DEF TypeOK, Ids

LEMMA RefreshType ==
    ASSUME TypeOK, rip' \in Addrs, RefreshStopped
    PROVE  ui' \in {"stopped", "running", "exited"} /\ shown' \in [regs : Addrs, code : Addrs]
  BY DEF RefreshStopped, UpdateDisassembly, UpdateRegisters, TypeOK

LEMMA RenderType ==
    ASSUME TypeOK, RenderIfStopped
    PROVE  shown' \in [regs : Addrs, code : Addrs]
  BY DEF RenderIfStopped, UpdateDisassembly, TypeOK

LEMMA RowType ==
    ASSUME NEW id \in Ids, NEW a \in Addrs, NEW hard \in BOOLEAN, NEW cond \in Conditions
    PROVE  NewRow(id, a, hard, cond) \in Rows
  BY DEF NewRow, Rows

\* A row of the list with some fields replaced.
LEMMA RowChanged ==
    ASSUME TypeOK, NEW i \in DOMAIN bps
    PROVE  /\ bps[i] \in Rows
           /\ \A cond \in Conditions : [bps EXCEPT ![i].cond = cond] \in Seq(Rows)
           /\ [bps EXCEPT ![i].on = FALSE] \in Seq(Rows)
           /\ \A id \in Ids : [bps EXCEPT ![i].id = id, ![i].on = TRUE] \in Seq(Rows)
<1>1. bps \in Seq(Rows) /\ i \in 1 .. Len(bps)
  BY DEF TypeOK
<1>2. bps[i] \in Rows
  BY <1>1, ElementOfSeq
<1>3. \A r \in Rows : [bps EXCEPT ![i] = r] \in Seq(Rows)
  BY <1>1, ExceptSeq
<1>4. ASSUME NEW cond \in Conditions
      PROVE  [bps EXCEPT ![i].cond = cond] \in Seq(Rows)
  <2>1. [bps[i] EXCEPT !.cond = cond] \in Rows
    BY <1>2 DEF Rows
  <2> QED
    BY <1>3, <2>1
<1>5. [bps EXCEPT ![i].on = FALSE] \in Seq(Rows)
  <2>1. [bps[i] EXCEPT !.on = FALSE] \in Rows
    BY <1>2 DEF Rows
  <2> QED
    BY <1>3, <2>1
<1>6. ASSUME NEW id \in Ids
      PROVE  [bps EXCEPT ![i].id = id, ![i].on = TRUE] \in Seq(Rows)
  <2>1. [[bps[i] EXCEPT !.id = id] EXCEPT !.on = TRUE] \in Rows
    BY <1>2 DEF Rows
  <2>2. [bps EXCEPT ![i].id = id, ![i].on = TRUE]
          = [bps EXCEPT ![i] = [[bps[i] EXCEPT !.id = id] EXCEPT !.on = TRUE]]
    BY <1>1
  <2> QED
    BY <1>3, <2>1, <2>2
<1> QED
  BY <1>2, <1>4, <1>5, <1>6
-----------------------------------------------------------------------------
(* Breakpoints and rows                                                    *)

LEMMA Typed ==
    ASSUME TypeOK
    PROVE  /\ \A i \in DOMAIN bps : bps[i] \in Rows
           /\ \A a \in Planted : table[a] \in Entries /\ a \in Addrs
           /\ \A b \in hw : b \in Watches
           /\ next.soft \in Nat /\ next.hw \in Nat
<1>1. \A i \in 1 .. Len(bps) : bps[i] \in Rows
  BY ElementOfSeq DEF TypeOK
<1> QED
  BY <1>1 DEF TypeOK, Ids, Planted

\* A step that leaves ids, addresses and check marks alone.
LEMMA QuietStep ==
    ASSUME PlantInv, UNCHANGED <<table, hw, rtc, temps>>, next' = next,
           DOMAIN bps' = DOMAIN bps,
           \A i \in DOMAIN bps : /\ bps'[i].id = bps[i].id /\ bps'[i].addr = bps[i].addr
                                /\ bps'[i].hw = bps[i].hw /\ bps'[i].on = bps[i].on,
           Attached' => Attached
    PROVE  PlantInv'
<1>1. SoftRows' = SoftRows /\ HardRows' = HardRows
  BY DEF SoftRows, HardRows
<1>2. FreshInv' /\ TableInv' /\ RowsInv'
  BY <1>1 DEF PlantInv, FreshInv, TableInv, RowsInv, SoftRows, HardRows, Planted
<1>3. OwnerInv' /\ PendingInv' /\ SoftPlanted' /\ HardPlanted'
  BY <1>1 DEF PlantInv, OwnerInv, PendingInv, SoftPlanted, HardPlanted, SoftRows, HardRows, Planted
<1> QED
  BY <1>2, <1>3 DEF PlantInv

\* The breakpoint a row or a run to the cursor gets is either one that a run to the
\* cursor planted, or has an id nobody holds.
LEMMA SetSoftPlants ==
    ASSUME TypeOK, PlantInv, NEW a \in Addrs, IsStopped, DoSetSoftBp(a),
           \A i \in SoftRows : bps[i].addr = a => ~bps[i].on
    PROVE  /\ (SetId(a) \in temps /\ a \in Planted) \/ (SetId(a) = next.soft /\ a \notin Planted)
           /\ SetId(a) > 0
           /\ SetId(a) < next'.soft
           /\ next.soft <= next'.soft /\ next'.hw = next.hw
           /\ DOMAIN table' = Planted \cup {a}
           /\ \A x \in Planted : table'[x] = table[x]
           /\ table'[a].id = SetId(a)
<1>1. Attached
  BY DEF IsStopped, Attached
<1>2. next.soft \in Nat \ {0} /\ next \in [soft : Ids, hw : Ids]
  BY DEF TypeOK, Ids
<1>3. CASE a \in Planted
  <2>1. UNCHANGED <<table, next>>
    BY <1>3 DEF DoSetSoftBp
  <2>2. SetId(a) = table[a].id
    BY <1>1, <1>3 DEF SetId
  <2>3. table[a].id \in temps
    BY <1>1, <1>3 DEF PlantInv, OwnerInv
  <2>4. table[a].id < next.soft /\ table[a].id \in Nat \ {0}
    BY <1>3, Typed DEF PlantInv, FreshInv, Entries, Ids
  <2> QED
    BY <1>2, <1>3, <2>1, <2>2, <2>3, <2>4 DEF Planted
<1>4. CASE a \notin Planted
  <2>1. SetId(a) = next.soft
    BY <1>1, <1>4 DEF SetId
  <2>2. table' = [x \in Planted \cup {a} |->
                    IF x = a THEN [id |-> next.soft, saved |-> code[a]] ELSE table[x]]
    BY <1>1, <1>4 DEF DoSetSoftBp
  <2>3. next' = [next EXCEPT !.soft = next.soft + 1]
    BY <1>1, <1>4 DEF DoSetSoftBp
  <2>4. next'.soft = next.soft + 1 /\ next'.hw = next.hw
    BY <1>2, <2>3
  <2> QED
    BY <1>2, <1>4, <2>1, <2>2, <2>4
<1> QED
  BY <1>3, <1>4

\* Removing a breakpoint by its id.
LEMMA RemoveSoftUnplants ==
    ASSUME NEW id, Attached, DoRemoveSoftBp(id)
    PROVE  /\ DOMAIN table' = {x \in Planted : table[x].id # id}
           /\ \A x \in DOMAIN table' : table'[x] = table[x]
  BY DEF DoRemoveSoftBp

\* A new row m for the breakpoint id at a, which no row has so far.
LEMMA RowJoins ==
    ASSUME TypeOK, PlantInv, NEW a \in Addrs, NEW id \in Ids, NEW m,
           (id \in temps /\ a \in Planted) \/ (id = next.soft /\ a \notin Planted),
           id < next'.soft, next.soft <= next'.soft, next'.soft \in Nat, next'.hw = next.hw,
           DOMAIN table' = Planted \cup {a},
           \A x \in Planted : table'[x] = table[x],
           table'[a].id = id,
           SoftRows' = SoftRows \cup {m}, m \notin SoftRows, HardRows' = HardRows,
           \A i \in SoftRows : bps'[i] = bps[i] /\ bps[i].addr # a,
           \A i \in HardRows : bps'[i] = bps[i],
           bps'[m].id = id, bps'[m].addr = a, bps'[m].on,
           UNCHANGED <<sess, hw, rtc, temps>>
    PROVE  PlantInv'
<1>1. \A x \in Planted : table[x].id \in Nat
  BY Typed DEF Entries, Ids
<1>2. \A i \in SoftRows : bps[i].id \in Nat
  BY Typed DEF Rows, Ids, SoftRows
<1>3. next.soft \in Nat /\ id \in Nat /\ id > 0
  BY Typed DEF Ids
<1>4. FreshInv'
  BY <1>1, <1>2, <1>3 DEF PlantInv, FreshInv, Planted
<1>5. TableInv'
  <2>1. ASSUME NEW x \in Planted, table'[x].id = table'[a].id
        PROVE  x = a
    BY <1>1, <1>3, <2>1 DEF PlantInv, FreshInv, TableInv
  <2> QED
    BY <2>1 DEF PlantInv, TableInv, Planted
<1>6. RowsInv'
  <2>1. ASSUME NEW i \in SoftRows, bps[i].id = id
        PROVE  id \in temps
    BY <1>2, <1>3, <2>1 DEF PlantInv, FreshInv
  <2> QED
    BY <2>1 DEF PlantInv, RowsInv
<1>7. OwnerInv'
  BY DEF PlantInv, OwnerInv, Planted, Attached
<1>8. SoftPlanted'
  BY DEF PlantInv, SoftPlanted, Planted, Attached
<1>9. HardPlanted' /\ PendingInv'
  BY DEF PlantInv, HardPlanted, PendingInv, Attached
<1> QED
  BY <1>4, <1>5, <1>6, <1>7, <1>8, <1>9 DEF PlantInv

\* A row is appended.
LEMMA RowAppended ==
    ASSUME bps \in Seq(Rows), NEW row \in Rows, Appends(row)
    PROVE  /\ bps' \in Seq(Rows)
           /\ \E m : NewIndex(m, row)
<1> DEFINE n == Len(bps)
<1>1. n \in Nat /\ DOMAIN bps = 1 .. n
  OBVIOUS
<1>2. /\ bps' \in Seq(Rows) /\ Len(bps') = n + 1
      /\ \A i \in 1 .. n : bps'[i] = bps[i]
      /\ bps'[n + 1] = row
  BY AppendProperties DEF Appends
<1> HIDE DEF n
<1>3. DOMAIN bps' = 1 .. n + 1
  BY <1>2
<1>4. DOMAIN bps' = DOMAIN bps \cup {n + 1} /\ n + 1 \notin DOMAIN bps
  BY <1>1, <1>3
<1> QED
  BY <1>1, <1>2, <1>4 DEF NewIndex

\* AddBreakpointAt, with a new row.
LEMMA AddRowStep ==
    ASSUME TypeOK, PlantInv, NEW a \in Addrs, NEW cond \in Conditions, IsStopped,
           RowsAt(a) = {}, DoSetSoftBp(a), Appends(NewRow(SetId(a), a, FALSE, cond)),
           UNCHANGED <<sess, hw, rtc, temps>>
    PROVE  bps' \in Seq(Rows) /\ PlantInv'
<1> DEFINE id == SetId(a)
           row == NewRow(id, a, FALSE, cond)
<1>1. /\ (id \in temps /\ a \in Planted) \/ (id = next.soft /\ a \notin Planted)
      /\ id > 0 /\ id < next'.soft /\ next.soft <= next'.soft /\ next'.hw = next.hw
      /\ DOMAIN table' = Planted \cup {a}
      /\ \A x \in Planted : table'[x] = table[x]
      /\ table'[a].id = id
  BY SetSoftPlants DEF RowsAt, SoftRows
<1>2. id \in Ids
  BY SetIdType
<1>3. bps \in Seq(Rows) /\ row \in Rows
  BY <1>2, RowType DEF TypeOK
<1>4. next'.soft \in Nat
  BY SetSoftType DEF Ids
<1>5. row.id = id /\ row.addr = a /\ ~row.hw /\ row.on
  BY DEF NewRow
<1>6. Appends(row)
  OBVIOUS
<1> HIDE DEF id, row
<1>7. bps' \in Seq(Rows) /\ \E m : NewIndex(m, row)
  BY <1>3, <1>6, RowAppended
<1>0. PICK m : NewIndex(m, row)
  BY <1>7
<1>8. /\ DOMAIN bps' = DOMAIN bps \cup {m} /\ m \notin DOMAIN bps
      /\ \A i \in DOMAIN bps : bps'[i] = bps[i]
      /\ bps'[m] = row
  BY <1>0 DEF NewIndex
<1>9. SoftRows' = SoftRows \cup {m} /\ m \notin SoftRows /\ HardRows' = HardRows
  BY <1>5, <1>8 DEF SoftRows, HardRows
<1>10. /\ \A i \in SoftRows : bps'[i] = bps[i] /\ bps[i].addr # a
       /\ \A i \in HardRows : bps'[i] = bps[i]
  BY <1>8 DEF SoftRows, HardRows, RowsAt
<1>11. PlantInv'
  BY <1>1, <1>2, <1>4, <1>5, <1>8, <1>9, <1>10, RowJoins
<1> QED
  BY <1>7, <1>11

\* What Unplant of a row takes out of the table and the debug registers.
LEMMA UnplantEffect ==
    ASSUME NEW b, Attached, Unplant(b)
    PROVE  /\ DOMAIN table' = {x \in Planted : b.hw \/ table[x].id # b.id}
           /\ \A x \in DOMAIN table' : table'[x] = table[x]
           /\ hw' = {w \in hw : ~b.hw \/ w.id # b.id}
<1>1. CASE b.hw
  BY <1>1 DEF Unplant, DoRemoveHwBp, Planted
<1>2. CASE ~b.hw
  BY <1>2, RemoveSoftUnplants DEF Unplant
<1> QED
  BY <1>1, <1>2

\* A row loses its breakpoint: it is erased, or it stays without a check mark.
LEMMA RowLeaves ==
    ASSUME TypeOK, PlantInv, NEW i \in DOMAIN bps, Unplant(bps[i]),
           UNCHANGED <<sess, rtc, temps>>, next' = next,
           NEW old, \A j \in DOMAIN bps' :
                        /\ old[j] \in DOMAIN bps /\ bps'[j].hw = bps[old[j]].hw
                        /\ bps'[j].id = bps[old[j]].id /\ bps'[j].addr = bps[old[j]].addr
                        /\ bps'[j].on => bps[old[j]].on /\ old[j] # i,
           \A j, k \in DOMAIN bps' : old[j] = old[k] => j = k,
           \A k \in DOMAIN bps \ {i} :
                \E j \in DOMAIN bps' : bps'[j] = bps[k]
    PROVE  PlantInv'
<1>1. \A j \in SoftRows' : old[j] \in SoftRows
  BY DEF SoftRows
<1>2. \A j \in HardRows' : old[j] \in HardRows
  BY DEF HardRows
<1>3. DOMAIN table' \subseteq Planted /\ \A x \in DOMAIN table' : table'[x] = table[x]
  <2>1. CASE Attached
    BY <2>1, UnplantEffect
  <2>2. CASE ~Attached
    BY <2>2 DEF Unplant, DoRemoveSoftBp, Planted
  <2> QED
    BY <2>1, <2>2
<1>4. hw' \subseteq hw
  BY DEF Unplant, DoRemoveHwBp
<1>5. FreshInv' /\ TableInv'
  BY <1>1, <1>2, <1>3, <1>4 DEF PlantInv, FreshInv, TableInv, SoftRows, HardRows, Planted
<1>6. RowsInv'
  BY <1>1, <1>2 DEF PlantInv, RowsInv, SoftRows, HardRows
<1>7. PendingInv'
  BY DEF PlantInv, PendingInv
<1>8. ASSUME Attached
      PROVE  OwnerInv' /\ SoftPlanted' /\ HardPlanted'
  <2>1. /\ DOMAIN table' = {x \in Planted : bps[i].hw \/ table[x].id # bps[i].id}
        /\ \A x \in DOMAIN table' : table'[x] = table[x]
        /\ hw' = {w \in hw : ~bps[i].hw \/ w.id # bps[i].id}
    BY <1>8, UnplantEffect
  <2>2. OwnerInv'
    <3> SUFFICES ASSUME NEW x \in DOMAIN table', table'[x].id \notin temps
                 PROVE  \E j \in SoftRows' : /\ bps'[j].on /\ bps'[j].addr = x
                                             /\ bps'[j].id = table'[x].id
      BY DEF OwnerInv, Planted
    <3>1. PICK k \in SoftRows : bps[k].on /\ bps[k].addr = x /\ bps[k].id = table[x].id
      BY <1>8, <2>1 DEF PlantInv, OwnerInv, Planted
    <3>2. k # i
      BY <2>1, <3>1 DEF SoftRows
    <3>3. PICK j \in DOMAIN bps' : bps'[j] = bps[k]
      BY <3>1, <3>2 DEF SoftRows
    <3> QED
      BY <2>1, <3>1, <3>3 DEF SoftRows
  <2>3. SoftPlanted'
    <3> SUFFICES ASSUME NEW j \in SoftRows', bps'[j].on, bps'[j].id \notin temps
                 PROVE  /\ bps'[j].addr \in DOMAIN table'
                        /\ table'[bps'[j].addr].id = bps'[j].id
      BY DEF SoftPlanted, Planted
    <3> DEFINE k == old[j]
    <3>1. /\ k \in SoftRows /\ k # i /\ bps[k].on
          /\ bps'[j].id = bps[k].id /\ bps'[j].addr = bps[k].addr
      BY <1>1 DEF SoftRows
    <3> HIDE DEF k
    <3>2. bps[k].addr \in Planted /\ table[bps[k].addr].id = bps[k].id
      BY <1>8, <3>1 DEF PlantInv, SoftPlanted
    <3>3. bps[i].hw \/ bps[i].id # bps[k].id
      BY <3>1 DEF PlantInv, RowsInv, SoftRows
    <3> QED
      BY <2>1, <3>1, <3>2, <3>3
  <2>4. HardPlanted'
    <3> SUFFICES ASSUME NEW j \in HardRows', bps'[j].on
                 PROVE  \E b \in hw' : b.id = bps'[j].id /\ b.addr = bps'[j].addr
      BY DEF HardPlanted
    <3> DEFINE k == old[j]
    <3>1. /\ k \in HardRows /\ k # i /\ bps[k].on
          /\ bps'[j].id = bps[k].id /\ bps'[j].addr = bps[k].addr
      BY <1>2 DEF HardRows
    <3> HIDE DEF k
    <3>2. PICK b \in hw : b.id = bps[k].id /\ b.addr = bps[k].addr
      BY <1>8, <3>1 DEF PlantInv, HardPlanted
    <3>3. ~bps[i].hw \/ bps[i].id # bps[k].id
      BY <3>1 DEF PlantInv, RowsInv, HardRows
    <3> QED
      BY <2>1, <3>1, <3>2, <3>3
  <2> QED
    BY <2>2, <2>3, <2>4
<1>9. ASSUME ~Attached
      PROVE  OwnerInv' /\ SoftPlanted' /\ HardPlanted'
  <2>1. ~Attached'
    BY <1>9 DEF Attached
  <2> QED
    BY <2>1 DEF OwnerInv, SoftPlanted, HardPlanted
<1> QED
  BY <1>5, <1>6, <1>7, <1>8, <1>9 DEF PlantInv

\* EraseRow.
LEMMA EraseStep ==
    ASSUME TypeOK, PlantInv, NEW i \in DOMAIN bps, Unplant(bps[i]), Erases(i),
           UNCHANGED <<sess, rtc, temps>>, next' = next
    PROVE  bps' \in Seq(Rows) /\ PlantInv'
<1> DEFINE old == [j \in DOMAIN bps' |-> IF j < i THEN j ELSE j + 1]
<1>1. bps \in Seq(Rows)
  BY DEF TypeOK
<1>2. /\ bps' \in Seq(Rows)
      /\ \A j \in DOMAIN bps' :
            \E k \in DOMAIN bps \ {i} : bps'[j] = bps[k] /\ k = IF j < i THEN j ELSE j + 1
      /\ \A k \in DOMAIN bps \ {i} : \E j \in DOMAIN bps' : bps'[j] = bps[k]
  BY <1>1, RowErased DEF Erases
<1>3. i \in Nat /\ \A j \in DOMAIN bps' : j \in Nat
  BY <1>1, <1>2
<1>4. \A j \in DOMAIN bps' : old[j] = IF j < i THEN j ELSE j + 1
  OBVIOUS
<1> HIDE DEF old
<1>5. ASSUME NEW j \in DOMAIN bps'
      PROVE  old[j] \in DOMAIN bps /\ old[j] # i /\ bps'[j] = bps[old[j]]
  <2>1. PICK k \in DOMAIN bps \ {i} : bps'[j] = bps[k] /\ k = IF j < i THEN j ELSE j + 1
    BY <1>2
  <2> QED
    BY <1>4, <2>1
<1>6. \A j, k \in DOMAIN bps' : old[j] = old[k] => j = k
  BY <1>3, <1>4
<1>7. \A j \in DOMAIN bps' :
        /\ old[j] \in DOMAIN bps /\ bps'[j].hw = bps[old[j]].hw
        /\ bps'[j].id = bps[old[j]].id /\ bps'[j].addr = bps[old[j]].addr
        /\ bps'[j].on => bps[old[j]].on /\ old[j] # i
  BY <1>5
<1>8. \A k \in DOMAIN bps \ {i} : \E j \in DOMAIN bps' : bps'[j] = bps[k]
  BY <1>2
<1>9. PlantInv'
  BY <1>6, <1>7, <1>8, RowLeaves
<1> QED
  BY <1>2, <1>9

\* Disable.
LEMMA DisableStep ==
    ASSUME TypeOK, PlantInv, NEW i \in DOMAIN bps, Unplant(bps[i]),
           bps' = [bps EXCEPT ![i].on = FALSE],
           UNCHANGED <<sess, rtc, temps>>, next' = next
    PROVE  PlantInv'
<1> DEFINE old == [j \in DOMAIN bps |-> j]
<1>1. \A j \in DOMAIN bps : bps[j] \in Rows
  BY Typed
<1>2. DOMAIN bps' = DOMAIN bps /\ \A j \in DOMAIN bps \ {i} : bps'[j] = bps[j]
  OBVIOUS
<1>3. /\ bps'[i].hw = bps[i].hw /\ bps'[i].id = bps[i].id
      /\ bps'[i].addr = bps[i].addr /\ ~bps'[i].on
  BY <1>1 DEF Rows
<1>4. \A j \in DOMAIN bps : old[j] = j
  OBVIOUS
<1> HIDE DEF old
<1> QED
  BY <1>2, <1>3, <1>4, RowLeaves

\* A row that was unchecked gets the breakpoint id at its address.
LEMMA RowReplanted ==
    ASSUME TypeOK, PlantInv, NEW i \in SoftRows, NEW a, NEW id \in Ids, a = bps[i].addr, Attached,
           (id \in temps /\ a \in Planted) \/ (id = next.soft /\ a \notin Planted),
           id < next'.soft, next.soft <= next'.soft, next'.soft \in Nat, next'.hw = next.hw,
           DOMAIN table' = Planted \cup {a},
           \A x \in Planted : table'[x] = table[x],
           table'[a].id = id,
           SoftRows' = SoftRows, HardRows' = HardRows,
           \A j \in SoftRows \ {i} : bps'[j] = bps[j],
           \A j \in HardRows : bps'[j] = bps[j],
           bps'[i].id = id, bps'[i].addr = a, bps'[i].on,
           UNCHANGED <<sess, hw, rtc, temps>>
    PROVE  PlantInv'
<1>1. /\ \A x \in Planted : table[x].id \in Nat
      /\ \A j \in SoftRows : bps[j].id \in Nat
  BY Typed DEF Entries, Rows, Ids, SoftRows
<1>2. next.soft \in Nat /\ id \in Nat
  BY Typed DEF Ids
<1>3. \A j \in SoftRows : bps[j].addr = a => j = i
  BY DEF PlantInv, RowsInv
<1>4. FreshInv'
  BY <1>1, <1>2 DEF PlantInv, FreshInv, Planted
<1>5. TableInv'
  <2>1. ASSUME NEW x \in Planted, table'[x].id = table'[a].id
        PROVE  x = a
    BY <1>1, <1>2, <2>1 DEF PlantInv, FreshInv, TableInv
  <2> QED
    BY <2>1 DEF PlantInv, TableInv, Planted
<1>6. RowsInv'
  <2>1. ASSUME NEW j \in SoftRows, bps[j].id = id
        PROVE  id \in temps
    BY <1>1, <1>2, <2>1 DEF PlantInv, FreshInv
  <2>2. \A j, k \in SoftRows : bps'[j].addr = bps'[k].addr => j = k
    BY <1>3 DEF PlantInv, RowsInv
  <2>3. \A j, k \in SoftRows : bps'[j].id = bps'[k].id => j = k \/ bps'[j].id \in temps
    BY <2>1 DEF PlantInv, RowsInv
  <2> QED
    BY <2>2, <2>3 DEF PlantInv, RowsInv
<1>7. OwnerInv'
  <2> SUFFICES ASSUME NEW x \in DOMAIN table', table'[x].id \notin temps
               PROVE  \E j \in SoftRows : /\ bps'[j].on /\ bps'[j].addr = x
                                          /\ bps'[j].id = table'[x].id
    BY DEF OwnerInv, Planted
  <2>1. CASE x = a
    BY <2>1
  <2>2. CASE x # a
    <3>1. PICK j \in SoftRows : bps[j].on /\ bps[j].addr = x /\ bps[j].id = table[x].id
      BY <2>2 DEF PlantInv, OwnerInv
    <3> QED
      BY <2>2, <3>1
  <2> QED
    BY <2>1, <2>2
<1>8. SoftPlanted'
  BY DEF PlantInv, SoftPlanted, Planted, Attached
<1>9. HardPlanted' /\ PendingInv'
  BY DEF PlantInv, HardPlanted, PendingInv, Attached
<1> QED
  BY <1>4, <1>5, <1>6, <1>7, <1>8, <1>9 DEF PlantInv

\* Enable, of a software breakpoint.
LEMMA EnableSoftStep ==
    ASSUME TypeOK, PlantInv, NEW i \in DOMAIN bps, ~bps[i].hw, ~bps[i].on, IsStopped,
           DoSetSoftBp(bps[i].addr),
           bps' = [bps EXCEPT ![i].id = SetId(bps[i].addr), ![i].on = TRUE],
           UNCHANGED <<sess, hw, rtc, temps>>
    PROVE  PlantInv'
<1> DEFINE a == bps[i].addr
           id == SetId(a)
<1>1. \A j \in DOMAIN bps : bps[j] \in Rows
  BY Typed
<1>2. a \in Addrs /\ i \in SoftRows
  BY <1>1 DEF Rows, SoftRows
<1>3. \A j \in SoftRows : bps[j].addr = a => j = i
  BY <1>2 DEF PlantInv, RowsInv
<1>4. /\ (id \in temps /\ a \in Planted) \/ (id = next.soft /\ a \notin Planted)
      /\ id > 0 /\ id < next'.soft /\ next.soft <= next'.soft /\ next'.hw = next.hw
      /\ DOMAIN table' = Planted \cup {a}
      /\ \A x \in Planted : table'[x] = table[x]
      /\ table'[a].id = id
  BY <1>2, <1>3, SetSoftPlants
<1>5. id \in Ids /\ next.soft \in Nat /\ next'.soft \in Nat
  BY <1>2, SetIdType, SetSoftType, Typed DEF Ids
<1>6. DOMAIN bps' = DOMAIN bps /\ \A j \in DOMAIN bps \ {i} : bps'[j] = bps[j]
  OBVIOUS
<1>7. bps'[i].hw = bps[i].hw /\ bps'[i].id = id /\ bps'[i].addr = a /\ bps'[i].on
  BY <1>1 DEF Rows
<1> HIDE DEF id, a
<1>9. SoftRows' = SoftRows /\ HardRows' = HardRows
      /\ \A j \in HardRows : bps'[j] = bps[j]
  BY <1>2, <1>6, <1>7 DEF SoftRows, HardRows
<1>10. \A j \in SoftRows \ {i} : bps'[j] = bps[j]
  BY <1>6 DEF SoftRows
<1>11. Attached /\ a = bps[i].addr
  BY DEF IsStopped, Attached, a
<1> QED
  BY <1>2, <1>4, <1>5, <1>7, <1>9, <1>10, <1>11, RowReplanted

\* A data breakpoint is armed for row i, whose old id nobody else has.
LEMMA RowRewatched ==
    ASSUME TypeOK, PlantInv, NEW i, NEW a \in Addrs, DoSetHwBp(a),
           HardRows' = HardRows \cup {i}, SoftRows' = SoftRows,
           \A j \in HardRows \ {i} : bps'[j] = bps[j],
           \A j \in SoftRows : bps'[j] = bps[j],
           bps'[i].id = next.hw, bps'[i].addr = a,
           UNCHANGED <<sess, table, rtc, temps>>
    PROVE  PlantInv'
<1>1. /\ hw' = hw \cup {[id |-> next.hw, addr |-> a, armed |-> IsStopped]}
      /\ next'.hw = next.hw + 1 /\ next'.soft = next.soft
  BY DEF DoSetHwBp, TypeOK
<1>2. next.hw \in Nat
  BY Typed
<1>3. \A b \in hw : b.id \in Nat /\ b.id < next.hw
  BY Typed DEF PlantInv, FreshInv, Watches, Ids
<1>4. \A j \in HardRows : bps[j].id \in Nat /\ bps[j].id < next.hw
  BY Typed DEF PlantInv, FreshInv, HardRows, Rows, Ids
<1>5. FreshInv'
  BY <1>1, <1>2, <1>3, <1>4 DEF PlantInv, FreshInv, Planted
<1>6. TableInv'
  BY <1>1, <1>2, <1>3 DEF PlantInv, TableInv, Planted
<1>7. RowsInv'
  <2>1. \A j \in HardRows \ {i} : bps'[j].id # bps'[i].id
    BY <1>2, <1>4
  <2> QED
    BY <2>1 DEF PlantInv, RowsInv
<1>8. OwnerInv' /\ SoftPlanted' /\ PendingInv'
  BY DEF PlantInv, OwnerInv, SoftPlanted, PendingInv, Planted, Attached
<1>9. HardPlanted'
  <2> SUFFICES ASSUME Attached', NEW j \in HardRows', bps'[j].on
               PROVE  \E b \in hw' : b.id = bps'[j].id /\ b.addr = bps'[j].addr
    BY DEF HardPlanted
  <2>1. CASE j = i
    <3> DEFINE b == [id |-> next.hw, addr |-> a, armed |-> IsStopped]
    <3>1. b \in hw' /\ b.id = next.hw /\ b.addr = a
      BY <1>1
    <3> HIDE DEF b
    <3> QED
      BY <2>1, <3>1
  <2>2. CASE j # i
    BY <1>1, <2>2 DEF PlantInv, HardPlanted, Attached
  <2> QED
    BY <2>1, <2>2
<1> QED
  BY <1>5, <1>6, <1>7, <1>8, <1>9 DEF PlantInv

\* Enable, of a data breakpoint.
LEMMA EnableHardStep ==
    ASSUME TypeOK, PlantInv, NEW i \in DOMAIN bps, bps[i].hw, DoSetHwBp(bps[i].addr),
           bps' = [bps EXCEPT ![i].id = next.hw, ![i].on = TRUE],
           UNCHANGED <<sess, table, rtc, temps>>
    PROVE  PlantInv'
<1>1. \A j \in DOMAIN bps : bps[j] \in Rows
  BY Typed
<1>2. bps[i].addr \in Addrs /\ i \in HardRows
  BY <1>1 DEF Rows, HardRows
<1>3. DOMAIN bps' = DOMAIN bps /\ \A j \in DOMAIN bps \ {i} : bps'[j] = bps[j]
  OBVIOUS
<1>4. bps'[i].hw /\ bps'[i].id = next.hw /\ bps'[i].addr = bps[i].addr
  BY <1>1 DEF Rows
<1>5. SoftRows' = SoftRows /\ HardRows' = HardRows \cup {i}
  BY <1>2, <1>3, <1>4 DEF SoftRows, HardRows
<1>6. /\ \A j \in HardRows \ {i} : bps'[j] = bps[j]
      /\ \A j \in SoftRows : bps'[j] = bps[j]
  BY <1>2, <1>3 DEF SoftRows, HardRows
<1> QED
  BY <1>2, <1>4, <1>5, <1>6, RowRewatched

\* onAddDataBreakpoint, with a new row.
LEMMA AddWatchStep ==
    ASSUME TypeOK, PlantInv, NEW a \in Addrs, DoSetHwBp(a), Appends(NewRow(next.hw, a, TRUE, "")),
           UNCHANGED <<sess, table, rtc, temps>>
    PROVE  bps' \in Seq(Rows) /\ PlantInv'
<1> DEFINE row == NewRow(next.hw, a, TRUE, "")
<1>1. bps \in Seq(Rows) /\ row \in Rows
  BY RowType, ConditionsAssumption DEF TypeOK
<1>2. row.id = next.hw /\ row.addr = a /\ row.hw
  BY DEF NewRow
<1>3. Appends(row)
  OBVIOUS
<1> HIDE DEF row
<1>4. bps' \in Seq(Rows) /\ \E m : NewIndex(m, row)
  BY <1>1, <1>3, RowAppended
<1>5. PICK m : NewIndex(m, row)
  BY <1>4
<1>6. /\ DOMAIN bps' = DOMAIN bps \cup {m} /\ m \notin DOMAIN bps
      /\ \A i \in DOMAIN bps : bps'[i] = bps[i]
      /\ bps'[m] = row
  BY <1>5 DEF NewIndex
<1>7. SoftRows' = SoftRows /\ HardRows' = HardRows \cup {m}
  BY <1>2, <1>6 DEF SoftRows, HardRows
<1>8. /\ \A i \in SoftRows : bps'[i] = bps[i]
      /\ \A i \in HardRows \ {m} : bps'[i] = bps[i]
  BY <1>6 DEF SoftRows, HardRows
<1>9. PlantInv'
  BY <1>2, <1>6, <1>7, <1>8, RowRewatched
<1> QED
  BY <1>4, <1>9

\* runToAddress, where no row is.
LEMMA RunToStep ==
    ASSUME TypeOK, PlantInv, NEW a \in Addrs, IsStopped, RowsAt(a) = {}, DoSetSoftBp(a),
           rtc' = [id |-> SetId(a), addr |-> a], temps' = temps \cup {SetId(a)},
           sess'.at = sess.at, UNCHANGED <<hw, bps>>
    PROVE  PlantInv'
<1> DEFINE id == SetId(a)
<1>1. /\ (id \in temps /\ a \in Planted) \/ (id = next.soft /\ a \notin Planted)
      /\ id > 0 /\ id < next'.soft /\ next.soft <= next'.soft /\ next'.hw = next.hw
      /\ DOMAIN table' = Planted \cup {a}
      /\ \A x \in Planted : table'[x] = table[x]
      /\ table'[a].id = id
  BY SetSoftPlants DEF RowsAt, SoftRows
<1>2. id \in Nat /\ next.soft \in Nat /\ next'.soft \in Nat
  BY SetIdType, SetSoftType, Typed DEF Ids
<1>3. /\ \A x \in Planted : table[x].id \in Nat
      /\ \A j \in SoftRows : bps[j].id \in Nat
  BY Typed DEF Entries, Rows, Ids, SoftRows
<1>4. rtc'.id = id /\ temps' = temps \cup {id}
  OBVIOUS
<1> HIDE DEF id
<1>5. SoftRows' = SoftRows /\ HardRows' = HardRows
  BY DEF SoftRows, HardRows
<1>6. FreshInv'
  BY <1>1, <1>2, <1>3, <1>5 DEF PlantInv, FreshInv, Planted
<1>7. TableInv'
  <2>1. ASSUME NEW x \in Planted, table'[x].id = id
        PROVE  x = a
    BY <1>1, <1>2, <1>3, <2>1 DEF PlantInv, FreshInv, TableInv
  <2> QED
    BY <1>1, <2>1 DEF PlantInv, TableInv, Planted
<1>8. RowsInv' /\ PendingInv'
  BY <1>4, <1>5 DEF PlantInv, RowsInv, PendingInv
<1>9. OwnerInv'
  BY <1>1, <1>4, <1>5 DEF PlantInv, OwnerInv, Planted, Attached
<1>10. SoftPlanted' /\ HardPlanted'
  BY <1>1, <1>4, <1>5 DEF PlantInv, SoftPlanted, HardPlanted, Planted, Attached
<1> QED
  BY <1>6, <1>7, <1>8, <1>9, <1>10 DEF PlantInv

\* OnDetach, of a session that is attached.
LEMMA DetachStep ==
    ASSUME TypeOK, PlantInv, DetachSession, UNCHANGED <<next, bps, rtc, temps>>
    PROVE  PlantInv'
<1>1. ~Attached'
  BY DEF DetachSession, Attached, TypeOK
<1>2. hw' = {} /\ DOMAIN table' = {}
  BY DEF DetachSession
<1>3. SoftRows' = SoftRows /\ HardRows' = HardRows
  BY DEF SoftRows, HardRows
<1>4. FreshInv' /\ TableInv' /\ RowsInv'
  BY <1>2, <1>3 DEF PlantInv, FreshInv, TableInv, RowsInv, Planted
<1>5. OwnerInv' /\ SoftPlanted' /\ HardPlanted' /\ PendingInv'
  BY <1>1 DEF PlantInv, OwnerInv, SoftPlanted, HardPlanted, PendingInv
<1> QED
  BY <1>4, <1>5 DEF PlantInv

\* The handler clears the breakpoint of a run to the cursor.
LEMMA AutoClearStep ==
    ASSUME TypeOK, PlantInv, NEW type, AutoClear(type), UNCHANGED <<sess, hw, next, bps, temps>>
    PROVE  PlantInv'
<1>1. CASE ~ClearsRtc(type)
  BY <1>1, QuietStep DEF AutoClear, Attached
<1>2. CASE ClearsRtc(type)
  <2>1. rtc.id \in temps
    BY <1>2 DEF ClearsRtc, PlantInv, PendingInv
  <2>2. DoRemoveSoftBp(rtc.id) /\ rtc' = NoRtc
    BY <1>2 DEF AutoClear
  <2>3. /\ DOMAIN table' \subseteq Planted
        /\ \A x \in DOMAIN table' : table'[x] = table[x]
        /\ \A x \in Planted \ DOMAIN table' : table[x].id \in temps
    <3>1. CASE Attached
      BY <2>1, <2>2, <3>1, RemoveSoftUnplants
    <3>2. CASE ~Attached
      BY <2>2, <3>2 DEF DoRemoveSoftBp, Planted
    <3> QED
      BY <3>1, <3>2
  <2>4. SoftRows' = SoftRows /\ HardRows' = HardRows
    BY DEF SoftRows, HardRows
  <2>5. FreshInv' /\ TableInv' /\ RowsInv'
    BY <2>3, <2>4 DEF PlantInv, FreshInv, TableInv, RowsInv, Planted
  <2>6. OwnerInv' /\ SoftPlanted' /\ HardPlanted'
    BY <2>3, <2>4 DEF PlantInv, OwnerInv, SoftPlanted, HardPlanted, Planted, Attached
  <2>7. PendingInv'
    BY <2>2 DEF PendingInv, NoRtc
  <2> QED
    BY <2>5, <2>6, <2>7 DEF PlantInv
<1> QED
  BY <1>1, <1>2
-----------------------------------------------------------------------------
(* Every step keeps the types.                                             *)

LEMMA AddBreakpointType ==
    ASSUME TypeOK, NEW a \in Addrs, NEW cond \in Conditions, AddBreakpointAt(a, cond)
    PROVE  /\ DOMAIN table' \subseteq Addrs /\ table' \in [DOMAIN table' -> Entries]
           /\ code' \in [Addrs -> {"insn", "int3"}]
           /\ next' \in [soft : Ids, hw : Ids]
           /\ bps' \in Seq(Rows)
           /\ shown' \in [regs : Addrs, code : Addrs]
<1>1. CASE ~IsStopped
  BY <1>1 DEF AddBreakpointAt, TypeOK, Planted
<1>2. CASE IsStopped /\ RowsAt(a) # {}
  <2>1. RowAt(a) \in DOMAIN bps
    BY <1>2, RowFound DEF TypeOK
  <2>2. [bps EXCEPT ![RowAt(a)].cond = cond] \in Seq(Rows)
    BY <2>1, RowChanged
  <2> QED
    BY <1>2, <2>2 DEF AddBreakpointAt, TypeOK, Planted
<1>3. CASE IsStopped /\ RowsAt(a) = {}
  <2>1. SetId(a) \in Ids
    BY <1>3, SetIdType
  <2>2. NewRow(SetId(a), a, FALSE, cond) \in Rows
    BY <2>1, RowType
  <2>3. DoSetSoftBp(a) /\ RenderIfStopped
    BY <1>3 DEF AddBreakpointAt
  <2>4. bps' = Append(bps, NewRow(SetId(a), a, FALSE, cond)) \/ bps' = bps
    BY <1>3 DEF AddBreakpointAt
  <2>5. bps \in Seq(Rows)
    BY DEF TypeOK
  <2>6. bps' \in Seq(Rows)
    <3>1. \A r \in Rows : Append(bps, r) \in Seq(Rows)
      BY <2>5, AppendProperties
    <3>2. CASE bps' = bps
      BY <2>5, <3>2
    <3>3. CASE bps' = Append(bps, NewRow(SetId(a), a, FALSE, cond))
      BY <2>2, <3>1, <3>3
    <3> QED
      BY <2>4, <3>2, <3>3
  <2> QED
    BY <2>3, <2>6, SetSoftType, RenderType
<1> QED
  BY <1>1, <1>2, <1>3

LEMMA EraseType ==
    ASSUME TypeOK, NEW i \in DOMAIN bps, EraseRow(i)
    PROVE  /\ DOMAIN table' \subseteq Addrs /\ table' \in [DOMAIN table' -> Entries]
           /\ code' \in [Addrs -> {"insn", "int3"}]
           /\ hw' \subseteq Watches /\ next' = next
           /\ bps' \in Seq(Rows)
           /\ shown' \in [regs : Addrs, code : Addrs]
<1>1. bps \in Seq(Rows)
  BY DEF TypeOK
<1>2. Unplant(bps[i]) /\ bps' = RemoveAt(bps, i) /\ next' = next /\ RenderIfStopped
  BY DEF EraseRow
<1>3. bps' \in Seq(Rows)
  BY <1>1, <1>2, RowErased
<1> QED
  BY <1>2, <1>3, UnplantType, RenderType

LEMMA ItemType ==
    ASSUME TypeOK, NEW i \in DOMAIN bps, IsStopped, Disable(i) \/ Enable(i)
    PROVE  /\ DOMAIN table' \subseteq Addrs /\ table' \in [DOMAIN table' -> Entries]
           /\ code' \in [Addrs -> {"insn", "int3"}]
           /\ hw' \subseteq Watches /\ next' \in [soft : Ids, hw : Ids]
           /\ bps' \in Seq(Rows)
           /\ shown' \in [regs : Addrs, code : Addrs]
<1>1. bps[i] \in Rows /\ bps[i].addr \in Addrs
  BY Typed DEF Rows
<1>2. CASE Disable(i)
  <2>1. bps' \in Seq(Rows)
    BY <1>2, RowChanged DEF Disable
  <2> QED
    BY <1>2, <2>1, UnplantType, RenderType DEF Disable, TypeOK
<1>3. CASE Enable(i) /\ bps[i].hw
  <2>1. CASE ~FreeRegister
    BY <1>3, <2>1 DEF Enable, TypeOK, Planted
  <2>2. CASE FreeRegister
    <3>1. /\ DoSetHwBp(bps[i].addr) /\ UNCHANGED <<table, code>> /\ RenderIfStopped
          /\ bps' = [bps EXCEPT ![i].id = next.hw, ![i].on = TRUE]
      BY <1>3, <2>2 DEF Enable
    <3>2. next.hw \in Ids
      BY DEF TypeOK
    <3>3. bps' \in Seq(Rows)
      BY <3>1, <3>2, RowChanged
    <3> QED
      BY <1>1, <3>1, <3>3, SetHwType, RenderType DEF TypeOK, Planted
  <2> QED
    BY <2>1, <2>2
<1>4. CASE Enable(i) /\ ~bps[i].hw
  <2>1. /\ DoSetSoftBp(bps[i].addr) /\ UNCHANGED hw /\ RenderIfStopped
        /\ bps' = [bps EXCEPT ![i].id = SetId(bps[i].addr), ![i].on = TRUE]
    BY <1>4 DEF Enable
  <2>2. SetId(bps[i].addr) \in Ids
    BY <1>1, SetIdType
  <2>3. bps' \in Seq(Rows)
    BY <2>1, <2>2, RowChanged
  <2> QED
    BY <1>1, <2>1, <2>3, SetSoftType, RenderType DEF TypeOK
<1> QED
  BY <1>2, <1>3, <1>4

\* A stop published by the tracer thread.
LEMMA StopsType ==
    ASSUME TypeOK, NEW r \in Addrs, NEW type \in {"bp", "other"}, NEW a, Stops(r, type, a)
    PROVE  TypeOK'
<1>1. /\ sess' = [sess EXCEPT !.stop = TRUE] /\ rip' = r
      /\ UNCHANGED <<code, table, hw, next, bps, rtc, ui, shown, modal, resume, temps>>
  BY DEF Stops, window
<1>2. events' \in Seq({"bp", "exited", "other"})
  BY PublishType DEF Stops
<1>3. sess' \in [at : BOOLEAN, stop : BOOLEAN]
  BY <1>1 DEF TypeOK
<1> QED
  BY <1>1, <1>2, <1>3 DEF TypeOK, Planted

LEMMA AutoClearType ==
    ASSUME TypeOK, NEW type, AutoClear(type)
    PROVE  /\ DOMAIN table' \subseteq Addrs /\ table' \in [DOMAIN table' -> Entries]
           /\ code' \in [Addrs -> {"insn", "int3"}]
           /\ rtc' \in [id : Nat, addr : Addrs \cup {NoAddr}]
<1>1. CASE ClearsRtc(type)
  <2>1. DoRemoveSoftBp(rtc.id) /\ rtc' = [id |-> 0, addr |-> NoAddr]
    BY <1>1 DEF AutoClear, NoRtc
  <2> QED
    BY <2>1, RemoveSoftType
<1>2. CASE ~ClearsRtc(type)
  BY <1>2 DEF AutoClear, TypeOK, Planted
<1> QED
  BY <1>1, <1>2

LEMMA TypeStep == TypeOK /\ [Next]_vars => TypeOK'
<1> SUFFICES ASSUME TypeOK, [Next]_vars
             PROVE  TypeOK'
  OBVIOUS
<1>1. ASSUME NEW a \in Addrs, HitsBreakpoint(a)
      PROVE  TypeOK'
  BY <1>1, StopsType DEF HitsBreakpoint
<1>2. ASSUME NEW b \in hw, NEW r \in Addrs, HitsWatch(b, r)
      PROVE  TypeOK'
  BY <1>2, StopsType DEF HitsWatch
<1>3. ASSUME NEW r \in Addrs, TakesSignal(r)
      PROVE  TypeOK'
  BY <1>3, StopsType DEF TakesSignal
<1>4. CASE TargetExits
  <2>1. events' \in Seq({"bp", "exited", "other"})
    BY <1>4, PublishType DEF TargetExits
  <2>2. sess' \in [at : BOOLEAN, stop : BOOLEAN]
    BY <1>4 DEF TargetExits, TypeOK
  <2> QED
    BY <1>4, <2>1, <2>2 DEF TargetExits, TypeOK, Planted, window
<1>5. ASSUME NEW a \in Addrs, OnAddBreakpoint(a)
      PROVE  TypeOK'
  BY <1>5, AddBreakpointType, ConditionsAssumption DEF OnAddBreakpoint, TypeOK, Planted
<1>6. ASSUME NEW i \in DOMAIN bps, OnRemoveBreakpoint(i)
      PROVE  TypeOK'
  BY <1>6, EraseType DEF OnRemoveBreakpoint, TypeOK, Planted
<1>7. ASSUME NEW a \in Addrs, ToggleBreakpointAtCursor(a)
      PROVE  TypeOK'
  <2>1. CASE RowsAt(a) # {}
    <3>1. RowAt(a) \in DOMAIN bps
      BY <2>1, RowFound DEF TypeOK
    <3> QED
      BY <1>7, <2>1, <3>1, EraseType DEF ToggleBreakpointAtCursor, TypeOK, Planted
  <2>2. CASE RowsAt(a) = {}
    BY <1>7, <2>2, AddBreakpointType, ConditionsAssumption
    DEF ToggleBreakpointAtCursor, TypeOK, Planted
  <2> QED
    BY <2>1, <2>2
<1>8. ASSUME NEW i \in DOMAIN bps, ItemChanged(i)
      PROVE  TypeOK'
  BY <1>8, ItemType DEF ItemChanged, TypeOK, Planted
<1>9. ASSUME NEW a \in Addrs, NEW c \in Conditions, SetConditionalBreakpoint(a, c)
      PROVE  TypeOK'
  BY <1>9, AddBreakpointType DEF SetConditionalBreakpoint, TypeOK, Planted
<1>10. ASSUME NEW i \in DOMAIN bps, NEW c \in Conditions, EditBreakpointCondition(i, c)
       PROVE  TypeOK'
  <2>1. bps' \in Seq(Rows)
    BY <1>10, RowChanged DEF EditBreakpointCondition
  <2> QED
    BY <1>10, <2>1 DEF EditBreakpointCondition, TypeOK, Planted, target
<1>11. CASE OpenDataBreakpoint \/ CancelDataBreakpoint
  BY <1>11 DEF OpenDataBreakpoint, CancelDataBreakpoint, TypeOK, Planted, target
<1>12. ASSUME NEW a \in Addrs, AddDataBreakpoint(a)
       PROVE  TypeOK'
  <2>1. /\ UNCHANGED <<sess, rip, code, table, rtc, events, evAddr, ui, shown, resume, temps>>
        /\ modal' = FALSE
    BY <1>12 DEF AddDataBreakpoint
  <2>2. hw' \subseteq Watches /\ next' \in [soft : Ids, hw : Ids] /\ bps' \in Seq(Rows)
    <3>1. CASE UNCHANGED <<hw, next, bps>>
      BY <3>1 DEF TypeOK
    <3>2. CASE DoSetHwBp(a) /\ bps' = Append(bps, NewRow(next.hw, a, TRUE, ""))
      <4>1. bps \in Seq(Rows) /\ next.hw \in Ids
        BY DEF TypeOK
      <4>2. NewRow(next.hw, a, TRUE, "") \in Rows
        BY <4>1, RowType, ConditionsAssumption
      <4>3. \A r \in Rows : Append(bps, r) \in Seq(Rows)
        BY <4>1, AppendProperties
      <4> QED
        BY <3>2, <4>2, <4>3, SetHwType
    <3> QED
      BY <1>12, <3>1, <3>2 DEF AddDataBreakpoint
  <2> QED
    BY <2>1, <2>2 DEF TypeOK, Planted
<1>13. CASE OnContinue
  BY <1>13 DEF OnContinue, DoContinue, TypeOK, Planted
<1>14. CASE OnStep
  <2>1. rip' \in Addrs /\ events' \in Seq({"bp", "exited", "other"})
    BY <1>14, PublishType DEF OnStep
  <2>2. RefreshStopped
    BY <1>14 DEF OnStep
  <2>3. ui' \in {"stopped", "running", "exited"} /\ shown' \in [regs : Addrs, code : Addrs]
    BY <2>1, <2>2, RefreshType
  <2> QED
    BY <1>14, <2>1, <2>3 DEF OnStep, TypeOK, Planted
<1>15. ASSUME NEW a \in Addrs, RunToAddress(a)
       PROVE  TypeOK'
  <2>1. /\ ui' = "running" /\ sess' = [sess EXCEPT !.stop = FALSE] /\ IsStopped
        /\ UNCHANGED <<rip, hw, bps, events, shown, modal, resume>>
    BY <1>15 DEF RunToAddress, DoContinue
  <2>2. sess' \in [at : BOOLEAN, stop : BOOLEAN]
    BY <2>1 DEF TypeOK
  <2>3. CASE RowsAt(a) # {}
    BY <1>15, <2>1, <2>2, <2>3 DEF RunToAddress, TypeOK, Planted
  <2>4. CASE RowsAt(a) = {}
    <3>1. /\ DoSetSoftBp(a) /\ rtc' = [id |-> SetId(a), addr |-> a]
          /\ temps' = temps \cup {SetId(a)}
      BY <1>15, <2>4 DEF RunToAddress
    <3>2. SetId(a) \in Ids
      BY <2>1, SetIdType
    <3>3. rtc' \in [id : Nat, addr : Addrs \cup {NoAddr}] /\ temps' \subseteq Ids
      BY <3>1, <3>2 DEF TypeOK, Ids
    <3> QED
      BY <2>1, <2>2, <3>1, <3>3, SetSoftType DEF TypeOK, Planted
  <2> QED
    BY <2>3, <2>4
<1>16. CASE OnDetach
  <2>1. UNCHANGED <<rip, next, bps, rtc, events, shown, modal, resume, temps>> /\ ui' = "exited"
    BY <1>16 DEF OnDetach
  <2>2. CASE Attached
    <3>1. DetachSession
      BY <1>16, <2>2 DEF OnDetach
    <3>2. sess' \in [at : BOOLEAN, stop : BOOLEAN] /\ hw' \subseteq Watches
      BY <3>1 DEF DetachSession, TypeOK
    <3>3. code' \in [Addrs -> {"insn", "int3"}]
      <4>1. \A x \in Planted : table[x].saved \in {"insn", "int3"}
        BY Typed DEF Entries
      <4> QED
        BY <3>1, <4>1 DEF DetachSession, TypeOK
    <3>4. DOMAIN table' \subseteq Addrs /\ table' \in [DOMAIN table' -> Entries]
      BY <3>1 DEF DetachSession
    <3> QED
      BY <2>1, <3>2, <3>3, <3>4 DEF TypeOK, Planted
  <2>3. CASE ~Attached
    BY <1>16, <2>1, <2>3 DEF OnDetach, TypeOK, Planted
  <2> QED
    BY <2>2, <2>3
<1>17. ASSUME NEW r \in Addrs, OnThreadSelected(r)
       PROVE  TypeOK'
  <2>1. ui' \in {"stopped", "running", "exited"} /\ shown' \in [regs : Addrs, code : Addrs]
    BY <1>17, RefreshType DEF OnThreadSelected
  <2> QED
    BY <1>17, <2>1 DEF OnThreadSelected, TypeOK, Planted
<1>18. ASSUME NEW r \in Addrs, OnRegisterEdited(r)
       PROVE  TypeOK'
  BY <1>18 DEF OnRegisterEdited, UpdateRegisters, TypeOK, Planted
<1>19. ASSUME NEW a \in Addrs, NopInstructionAtCursor(a)
       PROVE  TypeOK'
  <2>1. code' \in [Addrs -> {"insn", "int3"}]
    BY <1>19 DEF NopInstructionAtCursor, TypeOK
  <2> QED
    BY <1>19, <2>1, RenderType DEF NopInstructionAtCursor, TypeOK, Planted
<1>20. CASE SetComments
  BY <1>20, RenderType DEF SetComments, TypeOK, Planted, target
<1>21. CASE OnDebugEvent
  <2>1. /\ UNCHANGED <<sess, rip, hw, next, bps, modal, temps>>
        /\ events # << >> /\ events' = Tail(events)
    BY <1>21 DEF OnDebugEvent
  <2>2. events' \in Seq({"bp", "exited", "other"})
    <3>1. events \in Seq({"bp", "exited", "other"})
      BY DEF TypeOK
    <3> QED
      BY <2>1, <3>1, HeadTailProperties
  <2>3. CASE Head(events) = "exited"
    BY <1>21, <2>1, <2>2, <2>3 DEF OnDebugEvent, TypeOK, Planted
  <2>4. CASE Head(events) # "exited"
    <3>1. AutoClear(Head(events))
      BY <1>21, <2>4 DEF OnDebugEvent
    <3>2. \/ ui' = "running" /\ resume' = TRUE /\ UNCHANGED shown
          \/ RefreshStopped /\ UNCHANGED resume
      BY <1>21, <2>4 DEF OnDebugEvent, ShowStop
    <3>3. rip' \in Addrs
      BY <2>1 DEF TypeOK
    <3>4. /\ ui' \in {"stopped", "running", "exited"} /\ shown' \in [regs : Addrs, code : Addrs]
          /\ resume' \in BOOLEAN
      BY <3>2, <3>3, RefreshType DEF TypeOK
    <3> QED
      BY <2>1, <2>2, <3>1, <3>4, AutoClearType DEF TypeOK, Planted
  <2> QED
    BY <2>3, <2>4
<1>22. CASE ResumeSilently
  BY <1>22 DEF ResumeSilently, DoContinue, TypeOK, Planted
<1>23. CASE UNCHANGED vars
  BY <1>23 DEF vars, TypeOK, Planted
<1> QED
  BY <1>1, <1>2, <1>3, <1>4, <1>5, <1>6, <1>7, <1>8, <1>9, <1>10, <1>11, <1>12, <1>13, <1>14,
     <1>15, <1>16, <1>17, <1>18, <1>19, <1>20, <1>21, <1>22, <1>23
  DEF Next
-----------------------------------------------------------------------------
(* Every step keeps the ownership of breakpoints.                          *)

\* A row gets another condition.
LEMMA ConditionStep ==
    ASSUME TypeOK, PlantInv, NEW i \in DOMAIN bps, NEW cond,
           bps' = [bps EXCEPT ![i].cond = cond],
           UNCHANGED <<sess, table, hw, next, rtc, temps>>
    PROVE  PlantInv'
<1>1. \A j \in DOMAIN bps : bps[j] \in Rows
  BY Typed
<1>2. DOMAIN bps' = DOMAIN bps /\ \A j \in DOMAIN bps \ {i} : bps'[j] = bps[j]
  OBVIOUS
<1>3. /\ bps'[i].id = bps[i].id /\ bps'[i].addr = bps[i].addr
      /\ bps'[i].hw = bps[i].hw /\ bps'[i].on = bps[i].on
  BY <1>1 DEF Rows
<1>4. \A j \in DOMAIN bps : /\ bps'[j].id = bps[j].id /\ bps'[j].addr = bps[j].addr
                            /\ bps'[j].hw = bps[j].hw /\ bps'[j].on = bps[j].on
  BY <1>2, <1>3
<1>5. Attached' => Attached
  BY DEF Attached
<1> QED
  BY <1>2, <1>4, <1>5, QuietStep

LEMMA AddBreakpointStep ==
    ASSUME TypeOK, PlantInv, NEW a \in Addrs, NEW cond \in Conditions, AddBreakpointAt(a, cond),
           UNCHANGED <<sess, hw, rtc, temps>>
    PROVE  PlantInv'
<1>1. CASE ~IsStopped
  <2>1. UNCHANGED <<table, next, bps>> /\ (Attached' => Attached)
    BY <1>1 DEF AddBreakpointAt, Attached
  <2> QED
    BY <2>1, QuietStep
<1>2. CASE IsStopped /\ RowsAt(a) # {}
  <2>1. RowAt(a) \in DOMAIN bps
    BY <1>2, RowFound DEF TypeOK
  <2>2. bps' = [bps EXCEPT ![RowAt(a)].cond = cond] /\ UNCHANGED <<table, next>>
    BY <1>2 DEF AddBreakpointAt
  <2> QED
    BY <2>1, <2>2, ConditionStep
<1>3. CASE IsStopped /\ RowsAt(a) = {}
  <2>1. SetId(a) \in Ids
    BY <1>3, SetIdType
  <2>2. SetId(a) > 0
    BY <2>1 DEF Ids
  <2>3. DoSetSoftBp(a) /\ Appends(NewRow(SetId(a), a, FALSE, cond))
    BY <1>3, <2>2 DEF AddBreakpointAt, Appends
  <2> QED
    BY <1>3, <2>3, AddRowStep
<1> QED
  BY <1>1, <1>2, <1>3

LEMMA ErasesRow ==
    ASSUME TypeOK, PlantInv, NEW i \in DOMAIN bps, EraseRow(i), UNCHANGED <<sess, rtc, temps>>
    PROVE  PlantInv'
<1>1. Unplant(bps[i]) /\ Erases(i) /\ next' = next
  BY DEF EraseRow, Erases
<1> QED
  BY <1>1, EraseStep

LEMMA PlantStep == TypeOK /\ PlantInv /\ [Next]_vars => PlantInv'
<1> SUFFICES ASSUME TypeOK, PlantInv, [Next]_vars
             PROVE  PlantInv'
  OBVIOUS
<1>1. CASE \/ \E a \in Addrs : HitsBreakpoint(a)
           \/ \E b \in hw, r \in Addrs : HitsWatch(b, r)
           \/ \E r \in Addrs : TakesSignal(r)
           \/ TargetExits
  <2>1. UNCHANGED <<table, hw, next, bps, rtc, temps>>
    BY <1>1 DEF HitsBreakpoint, HitsWatch, TakesSignal, Stops, TargetExits, window
  <2>2. Attached' => Attached
    BY <1>1 DEF HitsBreakpoint, HitsWatch, TakesSignal, Stops, TargetExits, Attached
  <2> QED
    BY <2>1, <2>2, QuietStep
<1>2. ASSUME NEW a \in Addrs, OnAddBreakpoint(a)
      PROVE  PlantInv'
  BY <1>2, AddBreakpointStep, ConditionsAssumption DEF OnAddBreakpoint
<1>3. ASSUME NEW i \in DOMAIN bps, OnRemoveBreakpoint(i)
      PROVE  PlantInv'
  BY <1>3, ErasesRow DEF OnRemoveBreakpoint
<1>4. ASSUME NEW a \in Addrs, ToggleBreakpointAtCursor(a)
      PROVE  PlantInv'
  <2>1. CASE RowsAt(a) # {}
    <3>1. RowAt(a) \in DOMAIN bps
      BY <2>1, RowFound DEF TypeOK
    <3> QED
      BY <1>4, <2>1, <3>1, ErasesRow DEF ToggleBreakpointAtCursor
  <2>2. CASE RowsAt(a) = {}
    BY <1>4, <2>2, AddBreakpointStep, ConditionsAssumption DEF ToggleBreakpointAtCursor
  <2> QED
    BY <2>1, <2>2
<1>5. ASSUME NEW i \in DOMAIN bps, ItemChanged(i)
      PROVE  PlantInv'
  <2>1. IsStopped /\ UNCHANGED <<sess, rtc, temps>>
    BY <1>5 DEF ItemChanged
  <2>2. CASE bps[i].on
    <3>1. Unplant(bps[i]) /\ bps' = [bps EXCEPT ![i].on = FALSE] /\ next' = next
      BY <1>5, <2>2 DEF ItemChanged, Disable
    <3> QED
      BY <2>1, <3>1, DisableStep
  <2>3. CASE ~bps[i].on /\ ~bps[i].hw
    <3>1. /\ DoSetSoftBp(bps[i].addr) /\ UNCHANGED hw
          /\ bps' = [bps EXCEPT ![i].id = SetId(bps[i].addr), ![i].on = TRUE]
      BY <1>5, <2>3 DEF ItemChanged, Enable
    <3> QED
      BY <2>1, <2>3, <3>1, EnableSoftStep
  <2>4. CASE ~bps[i].on /\ bps[i].hw /\ FreeRegister
    <3>1. /\ DoSetHwBp(bps[i].addr) /\ UNCHANGED table
          /\ bps' = [bps EXCEPT ![i].id = next.hw, ![i].on = TRUE]
      BY <1>5, <2>4 DEF ItemChanged, Enable
    <3> QED
      BY <2>1, <2>4, <3>1, EnableHardStep
  <2>5. CASE ~bps[i].on /\ bps[i].hw /\ ~FreeRegister
    <3>1. UNCHANGED <<table, hw, next, bps>> /\ (Attached' => Attached)
      BY <1>5, <2>1, <2>5 DEF ItemChanged, Enable, Attached
    <3> QED
      BY <2>1, <3>1, QuietStep
  <2> QED
    BY <2>2, <2>3, <2>4, <2>5
<1>6. ASSUME NEW a \in Addrs, NEW c \in Conditions, SetConditionalBreakpoint(a, c)
      PROVE  PlantInv'
  BY <1>6, AddBreakpointStep DEF SetConditionalBreakpoint
<1>7. ASSUME NEW i \in DOMAIN bps, NEW c \in Conditions, EditBreakpointCondition(i, c)
      PROVE  PlantInv'
  BY <1>7, ConditionStep DEF EditBreakpointCondition, target
<1>8. ASSUME NEW a \in Addrs, AddDataBreakpoint(a)
      PROVE  PlantInv'
  <2>1. UNCHANGED <<sess, table, rtc, temps>>
    BY <1>8 DEF AddDataBreakpoint
  <2>2. CASE UNCHANGED <<hw, next, bps>>
    <3>1. Attached' => Attached
      BY <2>1 DEF Attached
    <3> QED
      BY <2>1, <2>2, <3>1, QuietStep
  <2>3. CASE DoSetHwBp(a) /\ bps' = Append(bps, NewRow(next.hw, a, TRUE, ""))
    <3>1. Appends(NewRow(next.hw, a, TRUE, ""))
      BY <2>3 DEF Appends
    <3> QED
      BY <2>1, <2>3, <3>1, AddWatchStep
  <2> QED
    BY <1>8, <2>2, <2>3 DEF AddDataBreakpoint
<1>9. ASSUME NEW a \in Addrs, RunToAddress(a)
      PROVE  PlantInv'
  <2>1. /\ IsStopped /\ sess' = [sess EXCEPT !.stop = FALSE] /\ UNCHANGED <<hw, bps>>
    BY <1>9 DEF RunToAddress, DoContinue
  <2>2. sess'.at = sess.at
    BY <2>1 DEF TypeOK
  <2>3. CASE RowsAt(a) # {}
    <3>1. UNCHANGED <<table, next, rtc, temps>> /\ (Attached' => Attached)
      BY <1>9, <2>2, <2>3 DEF RunToAddress, Attached
    <3> QED
      BY <2>1, <3>1, QuietStep
  <2>4. CASE RowsAt(a) = {}
    <3>1. /\ DoSetSoftBp(a) /\ rtc' = [id |-> SetId(a), addr |-> a]
          /\ temps' = temps \cup {SetId(a)}
      BY <1>9, <2>4 DEF RunToAddress
    <3> QED
      BY <2>1, <2>2, <2>4, <3>1, RunToStep
  <2> QED
    BY <2>3, <2>4
<1>10. CASE OnDetach
  <2>1. UNCHANGED <<next, bps, rtc, temps>>
    BY <1>10 DEF OnDetach
  <2>2. CASE Attached
    BY <1>10, <2>1, <2>2, DetachStep DEF OnDetach
  <2>3. CASE ~Attached
    <3>1. UNCHANGED <<table, hw>> /\ (Attached' => Attached)
      BY <1>10, <2>3 DEF OnDetach, Attached
    <3> QED
      BY <2>1, <3>1, QuietStep
  <2> QED
    BY <2>2, <2>3
<1>11. CASE OnDebugEvent
  <2>1. UNCHANGED <<sess, hw, next, bps, temps>>
    BY <1>11 DEF OnDebugEvent
  <2>2. CASE Head(events) = "exited"
    <3>1. UNCHANGED <<table, rtc>> /\ (Attached' => Attached)
      BY <1>11, <2>1, <2>2 DEF OnDebugEvent, Attached
    <3> QED
      BY <2>1, <3>1, QuietStep
  <2>3. CASE Head(events) # "exited"
    BY <1>11, <2>1, <2>3, AutoClearStep DEF OnDebugEvent
  <2> QED
    BY <2>2, <2>3
<1>12. CASE \/ OpenDataBreakpoint \/ CancelDataBreakpoint \/ OnContinue \/ OnStep
            \/ \E r \in Addrs : OnThreadSelected(r) \/ OnRegisterEdited(r) \/ NopInstructionAtCursor(r)
            \/ SetComments \/ ResumeSilently \/ UNCHANGED vars
  <2>1. UNCHANGED <<table, hw, next, bps, rtc, temps>>
    BY <1>12 DEF OpenDataBreakpoint, CancelDataBreakpoint, OnContinue, OnStep, OnThreadSelected,
                 OnRegisterEdited, NopInstructionAtCursor, SetComments, ResumeSilently, vars, target
  <2>2. sess' = sess \/ DoContinue
    BY <1>12 DEF OpenDataBreakpoint, CancelDataBreakpoint, OnContinue, OnStep, OnThreadSelected,
                 OnRegisterEdited, NopInstructionAtCursor, SetComments, ResumeSilently, vars, target
  <2>3. Attached' => Attached
    BY <2>2 DEF DoContinue, Attached, TypeOK
  <2> QED
    BY <2>1, <2>3, QuietStep
<1> QED
  BY <1>1, <1>2, <1>3, <1>4, <1>5, <1>6, <1>7, <1>8, <1>9, <1>10, <1>11, <1>12
  DEF Next

LEMMA PlantedHolds == PlantInv => ChecksArePlanted
  BY DEF PlantInv, SoftPlanted, HardPlanted, ChecksArePlanted, SoftRows, HardRows
-----------------------------------------------------------------------------
(* Every step keeps the stop shown.                                        *)

\* A step that changes neither the session nor the queue nor what is shown of them.
LEMMA SameShown ==
    ASSUME ExitInv, StopShown, UNCHANGED <<sess, rip, events, ui, resume>>,
           shown'.regs = shown.regs
    PROVE  ExitInv' /\ StopShown'
  BY DEF ExitInv, StopShown, IsStopped, Attached

\* An event is queued, and the exit's only by a session that has ended.
LEMMA PublishedShown ==
    ASSUME TypeOK, ExitInv, NEW type \in {"bp", "exited", "other"}, NEW a, Publish(type, a),
           type = "exited" \/ sess'.at = sess.at, type = "exited" => ~Attached'
    PROVE  ExitInv' /\ StopShown'
<1>1. events \in Seq({"bp", "exited", "other"}) /\ events' = Append(events, type)
  BY DEF TypeOK, Publish
<1>2. /\ events' # << >>
      /\ \A i \in DOMAIN events' : (i \in DOMAIN events /\ events'[i] = events[i]) \/ events'[i] = type
  BY <1>1, AppendProperties
<1>3. ASSUME NEW i \in DOMAIN events', events'[i] = "exited"
      PROVE  ~Attached'
  <2>1. CASE type = "exited"
    BY <2>1
  <2>2. CASE type # "exited"
    BY <1>2, <1>3, <2>2 DEF ExitInv, Attached
  <2> QED
    BY <2>1, <2>2
<1> QED
  BY <1>2, <1>3 DEF ExitInv, StopShown

LEMMA StopsShownStep ==
    ASSUME TypeOK, ExitInv, NEW r, NEW type \in {"bp", "other"}, NEW a, Stops(r, type, a)
    PROVE  ExitInv' /\ StopShown'
<1>1. Publish(type, a) /\ sess' = [sess EXCEPT !.stop = TRUE] /\ type # "exited"
  BY DEF Stops
<1>2. sess'.at = sess.at
  BY <1>1 DEF TypeOK
<1> QED
  BY <1>1, <1>2, PublishedShown

\* Rendering the disassembly leaves the registers shown.
LEMMA RendersCode ==
    ASSUME TypeOK, RenderIfStopped
    PROVE  shown'.regs = shown.regs
  BY DEF RenderIfStopped, UpdateDisassembly, TypeOK

LEMMA AddBreakpointShows ==
    ASSUME TypeOK, NEW a, NEW cond, AddBreakpointAt(a, cond)
    PROVE  shown'.regs = shown.regs
  BY RendersCode DEF AddBreakpointAt

LEMMA ShownStep == TypeOK /\ ExitInv /\ StopShown /\ [Next]_vars => ExitInv' /\ StopShown'
<1> SUFFICES ASSUME TypeOK, ExitInv, StopShown, [Next]_vars
             PROVE  ExitInv' /\ StopShown'
  OBVIOUS
<1> USE DEF Idle
<1>1. ASSUME NEW a \in Addrs, HitsBreakpoint(a)
      PROVE  ExitInv' /\ StopShown'
  BY <1>1, StopsShownStep DEF HitsBreakpoint
<1>2. ASSUME NEW b \in hw, NEW r \in Addrs, HitsWatch(b, r)
      PROVE  ExitInv' /\ StopShown'
  BY <1>2, StopsShownStep DEF HitsWatch
<1>3. ASSUME NEW r \in Addrs, TakesSignal(r)
      PROVE  ExitInv' /\ StopShown'
  BY <1>3, StopsShownStep DEF TakesSignal
<1>4. CASE TargetExits
  <2>1. Publish("exited", NoAddr) /\ ~Attached'
    BY <1>4 DEF TargetExits, Attached, TypeOK
  <2> QED
    BY <2>1, PublishedShown
<1>5. CASE \/ \E a \in Addrs : OnAddBreakpoint(a) \/ ToggleBreakpointAtCursor(a)
                               \/ AddDataBreakpoint(a) \/ NopInstructionAtCursor(a)
           \/ \E i \in DOMAIN bps : OnRemoveBreakpoint(i) \/ ItemChanged(i)
           \/ \E a \in Addrs, c \in Conditions \ {""} : SetConditionalBreakpoint(a, c)
           \/ \E i \in DOMAIN bps, c \in Conditions : EditBreakpointCondition(i, c)
           \/ OpenDataBreakpoint \/ CancelDataBreakpoint \/ SetComments \/ UNCHANGED vars
  <2>1. UNCHANGED <<sess, rip, events, ui, resume>>
    BY <1>5 DEF OnAddBreakpoint, ToggleBreakpointAtCursor, AddDataBreakpoint,
                NopInstructionAtCursor, OnRemoveBreakpoint, ItemChanged,
                SetConditionalBreakpoint, EditBreakpointCondition, OpenDataBreakpoint,
                CancelDataBreakpoint, SetComments, vars, target
  <2>2. \/ shown' = shown \/ RenderIfStopped
        \/ \E a, c : AddBreakpointAt(a, c)
    BY <1>5 DEF OnAddBreakpoint, ToggleBreakpointAtCursor, AddDataBreakpoint,
                NopInstructionAtCursor, OnRemoveBreakpoint, ItemChanged, EraseRow, Disable, Enable,
                SetConditionalBreakpoint, EditBreakpointCondition, OpenDataBreakpoint,
                CancelDataBreakpoint, SetComments, vars
  <2>3. shown'.regs = shown.regs
    BY <2>2, RendersCode, AddBreakpointShows
  <2> QED
    BY <2>1, <2>3, SameShown
<1>6. CASE OnContinue \/ \E a \in Addrs : RunToAddress(a)
  <2>1. sess' = [sess EXCEPT !.stop = FALSE] /\ UNCHANGED events
    BY <1>6 DEF OnContinue, RunToAddress, DoContinue
  <2>2. ~IsStopped' /\ sess'.at = sess.at
    BY <2>1 DEF IsStopped, TypeOK
  <2> QED
    BY <2>1, <2>2 DEF ExitInv, StopShown, Attached
<1>7. CASE OnStep
  <2>1. PICK r \in Addrs : Publish("other", r)
    BY <1>7 DEF OnStep
  <2>2. sess' = sess
    BY <1>7 DEF OnStep
  <2> QED
    BY <2>1, <2>2, PublishedShown
<1>8. CASE OnDetach
  <2>1. UNCHANGED events /\ ~sess'.at
    BY <1>8 DEF OnDetach, DetachSession, Attached, TypeOK
  <2> QED
    BY <2>1 DEF ExitInv, StopShown, IsStopped, Attached
<1>9. ASSUME NEW r \in Addrs, OnThreadSelected(r)
      PROVE  ExitInv' /\ StopShown'
  <2>1. Attached /\ RefreshStopped /\ UNCHANGED <<sess, events>>
    BY <1>9 DEF OnThreadSelected, IsStopped, Attached
  <2>2. ui' = "stopped" /\ shown'.regs = rip'
    BY <2>1 DEF RefreshStopped, UpdateDisassembly, UpdateRegisters, TypeOK
  <2> QED
    BY <2>1, <2>2 DEF ExitInv, StopShown, Attached
<1>10. ASSUME NEW r \in Addrs, OnRegisterEdited(r)
       PROVE  ExitInv' /\ StopShown'
  <2>1. /\ UNCHANGED <<sess, events, ui, resume>> /\ rip' = r /\ IsStopped
        /\ shown' = [shown EXCEPT !.regs = r]
    BY <1>10 DEF OnRegisterEdited, UpdateRegisters
  <2>2. shown'.regs = rip'
    BY <2>1 DEF TypeOK
  <2> QED
    BY <2>1, <2>2 DEF ExitInv, StopShown, Attached
<1>11. CASE OnDebugEvent
  <2>1. UNCHANGED <<sess, rip>> /\ events # << >> /\ events' = Tail(events)
    BY <1>11 DEF OnDebugEvent
  <2>2. events \in Seq({"bp", "exited", "other"})
    BY DEF TypeOK
  <2>3. ExitInv'
    <3>1. \A i \in DOMAIN events' : \E j \in DOMAIN events : events'[i] = events[j]
      <4>1. ASSUME NEW i \in DOMAIN events'
            PROVE  i + 1 \in DOMAIN events /\ events'[i] = events[i + 1]
        BY <2>1, <2>2
      <4> QED
        BY <4>1
    <3> QED
      BY <2>1, <3>1 DEF ExitInv, Attached
  <2>4. StopShown'
    <3>1. CASE Head(events) = "exited"
      <4>1. 1 \in DOMAIN events /\ Head(events) = events[1]
        BY <2>1, <2>2
      <4>2. ~Attached
        BY <3>1, <4>1 DEF ExitInv
      <4> QED
        BY <2>1, <4>2 DEF StopShown, IsStopped, Attached
    <3>2. CASE Head(events) # "exited"
      <4>1. resume' = TRUE \/ RefreshStopped
        BY <1>11, <3>2 DEF OnDebugEvent, ShowStop
      <4>2. ASSUME RefreshStopped, Attached
            PROVE  ui' = "stopped" /\ shown'.regs = rip'
        BY <4>2 DEF RefreshStopped, UpdateDisassembly, UpdateRegisters, TypeOK
      <4> QED
        BY <2>1, <4>1, <4>2 DEF StopShown, IsStopped, Attached
    <3> QED
      BY <3>1, <3>2
  <2> QED
    BY <2>3, <2>4
<1>12. CASE ResumeSilently
  <2>1. UNCHANGED events /\ IF IsStopped THEN DoContinue ELSE UNCHANGED sess
    BY <1>12 DEF ResumeSilently
  <2>2. ~IsStopped' /\ sess'.at = sess.at
    BY <2>1 DEF DoContinue, IsStopped, Attached, TypeOK
  <2> QED
    BY <2>1, <2>2 DEF ExitInv, StopShown, Attached
<1> QED
  BY <1>1, <1>2, <1>3, <1>4, <1>5, <1>6, <1>7, <1>8, <1>9, <1>10, <1>11, <1>12
  DEF Next
-----------------------------------------------------------------------------
(* The theorems                                                            *)

LEMMA InitInv == Init => Inv
<1> SUFFICES ASSUME Init
             PROVE  Inv
  OBVIOUS
<1>1. PICK r \in Addrs :
        /\ sess = [at |-> TRUE, stop |-> TRUE] /\ rip = r
        /\ code = [a \in Addrs |-> "insn"] /\ table = << >> /\ hw = {} /\ next = [soft |-> 1, hw |-> 1]
        /\ bps = << >> /\ rtc = NoRtc /\ events = << >> /\ evAddr = NoAddr
        /\ ui = "stopped" /\ shown = [regs |-> r, code |-> r]
        /\ modal = FALSE /\ resume = FALSE /\ temps = {}
  BY DEF Init
<1>2. TypeOK
  <2>1. table \in [Planted -> Entries] /\ Planted = {}
    BY <1>1 DEF Planted
  <2>2. bps \in Seq(Rows) /\ events \in Seq({"bp", "exited", "other"})
    BY <1>1, EmptySeq
  <2>3. /\ sess \in [at : BOOLEAN, stop : BOOLEAN] /\ rip \in Addrs
        /\ code \in [Addrs -> {"insn", "int3"}] /\ hw \subseteq Watches
        /\ next \in [soft : Ids, hw : Ids]
    BY <1>1 DEF Ids
  <2>4. /\ rtc \in [id : Nat, addr : Addrs \cup {NoAddr}]
        /\ shown \in [regs : Addrs, code : Addrs] /\ ui \in {"stopped", "running", "exited"}
        /\ modal \in BOOLEAN /\ resume \in BOOLEAN /\ temps \subseteq Ids
    BY <1>1 DEF NoRtc
  <2> QED
    BY <2>1, <2>2, <2>3, <2>4 DEF TypeOK
<1>3. Planted = {} /\ SoftRows = {} /\ HardRows = {} /\ DOMAIN events = {}
  BY <1>1 DEF Planted, SoftRows, HardRows
<1>4. PlantInv
  BY <1>1, <1>3 DEF PlantInv, FreshInv, TableInv, RowsInv, OwnerInv, PendingInv,
                    SoftPlanted, HardPlanted, NoRtc
<1>5. ExitInv /\ StopShown
  BY <1>1, <1>3 DEF ExitInv, StopShown
<1> QED
  BY <1>2, <1>4, <1>5 DEF Inv

LEMMA InductiveInv == Spec => []Inv
<1>1. Inv /\ [Next]_vars => Inv'
  BY TypeStep, PlantStep, ShownStep DEF Inv
<1> QED
  BY <1>1, InitInv, PTL DEF Spec

\* The session's table, the list of rows and what is shown stay well formed, whatever
\* the user, the tracer thread and the queue do in between.
THEOREM TypeCorrect == Spec => []TypeOK
<1>1. Inv => TypeOK
  BY DEF Inv
<1> QED
  BY <1>1, InductiveInv, PTL

\* A checked row is a breakpoint the session holds under the row's id, unless it took
\* over the id of a run to the cursor (addBreakpointAt over a pending pendingRtcId_).
THEOREM ChecksPlanted == Spec => []ChecksArePlanted
<1>1. Inv => ChecksArePlanted
  BY PlantedHolds DEF Inv
<1> QED
  BY <1>1, InductiveInv, PTL

\* Once onDebugEvent has drained the queue a stopped target is shown as stopped, at the
\* address where it is: a stop overtaken by a viewer's F9 or by a silent resume is not lost.
THEOREM StopsShown == Spec => []StopShown
<1>1. Inv => StopShown
  BY DEF Inv
<1> QED
  BY <1>1, InductiveInv, PTL
=============================================================================
