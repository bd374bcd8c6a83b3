-------------------------- MODULE MainWindowProofs --------------------------
(***************************************************************************)
(* Proofs about MainWindow, for any processes, any number of windows and   *)
(* any number of handles: the pointers the window says it severs are       *)
(* severed, a scan keeps the handle it reads, and what the user paused     *)
(* stays paused.                                                           *)
(*                                                                         *)
(* Only the process watcher replaces the handle under a dialog, a scan or  *)
(* another warning box.  What has to be carried along is therefore: which  *)
(* box is the outermost, because its closing is what repoints Lua; that    *)
(* the debugger and a scan never hold the null handle, which no record of  *)
(* replaced handles would name; and that the process a scan will resume is *)
(* not one the user has stopped.                                           *)
(***************************************************************************)
EXTENDS MainWindow, SequenceTheorems, TLAPS

Handles == 0 .. Made

ProcStates == {"running", "stopped", "zombie", "gone"}
Kinds == {"window", "dissector", "debugger", "finder", "tracer", "editor", "options",
          "shared", "none"}
Classes == [tracked : BOOLEAN, needsProcess : BOOLEAN, polls : BOOLEAN,
            tests : {"always", "before", "never"}, kind : Kinds]
Windows == [class : Classes, h : Handles, busy : BOOLEAN]

\* The part of the state the properties speak of is well typed.
TypeOK ==
    /\ procs \in [Pids -> ProcStates]
    /\ target \in Seq(AllPids)
    /\ handle \in Handles
    /\ holder \in [list : Handles, results : Handles, lua : Handles]
    /\ win \in [Slots -> Windows]
    /\ box \in Seq({"attach", "auto"})
    /\ scan \in [h : Handles, pause : Pids \cup {0}]
    /\ held \subseteq Pids

\* The outermost box decides who repoints Lua: until an attach has closed its own,
\* Lua may hold the handle that was destroyed.
LuaInv == box = << >> \/ box[1] # "attach" => holder.lua \in {Null, handle} \cup hasty

ModelsInv == box = << >> => holder.list = handle /\ holder.results = handle

\* A tracked window is frozen or current; the debugger was never given the null handle.
WindowInv ==
    \A s \in Slots :
        /\ win[s].class.tracked => win[s].h \in {Null, handle} \cup hasty
        /\ win[s].class = DebuggerWindow =>
                /\ win[s].h \in {handle} \cup hasty \cup exited
                /\ win[s].h # Null

\* A scan was started on a handle, and that handle was replaced by the watcher if at all.
ScanInv == scan # NoScan => scan.h # Null /\ scan.h \in {handle} \cup hasty

\* What the user paused is stopped or dead, and a scan never resumes it: the process
\* it stopped itself was not paused, unless it had become a zombie before.
PauseInv ==
    /\ \A p \in held : procs[p] \in {"stopped", "zombie"}
    /\ scan # NoScan /\ scan.pause \in held => procs[scan.pause] = "zombie"

Inv == TypeOK /\ ModelsInv /\ LuaInv /\ WindowInv /\ ScanInv /\ PauseInv
-----------------------------------------------------------------------------
(* Classes of windows                                                      *)

\* Every class a window is opened with is a class; only the debugger's own window is
\* of its class, it needs a process and the main window does not track it.
LEMMA ClassFacts ==
    /\ \A c \in ViewMenu \cup ToolsMenu \cup DialogMenu
               \cup {MemoryBrowser, NewWindow, CodeFinderWindow, AdvancedOptions, Closed.class} :
            c \in Classes /\ c # DebuggerWindow
    /\ DebuggerWindow \in Classes
    /\ DebuggerWindow.needsProcess /\ ~DebuggerWindow.tracked
    /\ ~Closed.class.tracked /\ ~NewWindow.tracked
    /\ ~CodeFinderWindow.tracked /\ ~AdvancedOptions.tracked
<1> DEFINE Tests == {"always", "before", "never"}
           Looks(c, k, n, t) == /\ c \in Classes /\ c.kind = k
                                /\ c.needsProcess = n /\ c.tracked = t
<1>1. ASSUME NEW t \in BOOLEAN, NEW n \in BOOLEAN, NEW p \in BOOLEAN, NEW x \in Tests
      PROVE  Looks(Class(t, n, p, x), "window", n, t)
  BY DEF Class, Classes, Kinds
<1>2. ASSUME NEW c \in Classes, NEW k \in Kinds
      PROVE  Looks([c EXCEPT !.kind = k], k, c.needsProcess, c.tracked)
  BY DEF Classes
<1> HIDE DEF Looks
<1>3. Looks(Tool, "window", TRUE, FALSE)
  BY <1>1 DEF Tool
<1>4. Looks(GuestScanDialog, "window", TRUE, FALSE)
  BY <1>1 DEF GuestScanDialog
<1>5. Looks(SharedDialog, "shared", TRUE, FALSE)
  BY <1>2, <1>4 DEF SharedDialog, Looks, Kinds
<1>6. Looks(TracerWindow, "tracer", TRUE, FALSE) /\ Looks(DebuggerWindow, "debugger", TRUE, FALSE)
  BY <1>2, <1>3 DEF TracerWindow, DebuggerWindow, Looks, Kinds
<1>7. Looks(MemoryBrowser, "window", TRUE, TRUE) /\ Looks(NewWindow, "window", FALSE, FALSE)
  BY <1>1 DEF MemoryBrowser, NewWindow
<1>8. \E k \in Kinds : k # "debugger" /\ Looks(StructureDissector, k, TRUE, TRUE)
  <2>1. Looks(Class(TRUE, TRUE, TRUE, "before"), "window", TRUE, TRUE)
    BY <1>1
  <2> QED
    BY <1>2, <2>1 DEF StructureDissector, Looks, Kinds
<1>9. /\ Looks(ScriptEditor, "editor", FALSE, FALSE)
      /\ Looks(AdvancedOptions, "options", FALSE, FALSE)
      /\ Looks(Closed.class, "none", FALSE, FALSE)
  <2>1. Looks(Class(FALSE, FALSE, FALSE, "always"), "window", FALSE, FALSE)
    BY <1>1
  <2> QED
    BY <1>2, <2>1 DEF ScriptEditor, AdvancedOptions, Closed, Looks, Kinds
<1>10. Looks(CodeFinderWindow, "finder", TRUE, FALSE)
  <2>1. Looks(Class(FALSE, TRUE, TRUE, "always"), "window", TRUE, FALSE)
    BY <1>1
  <2> QED
    BY <1>2, <2>1 DEF CodeFinderWindow, Looks, Kinds
<1> DEFINE Other(c) == c \in Classes /\ c # DebuggerWindow
<1>11. \A c \in ViewMenu : Other(c)
  BY <1>3, <1>6
     DEF ViewMenu, MemoryRegionsWindow, HeapRegionsWindow, ModuleListWindow,
         CodeReferencesWindow, ThreadListWindow, StackViewWindow, GraphicalMemoryView,
         RegisterEditorWindow, BranchMapper, Looks
<1>12. \A c \in ToolsMenu : Other(c)
  BY <1>3, <1>4, <1>6, <1>8, <1>9
     DEF ToolsMenu, PointerScanDialog, FindStaticsWindow, MonoDissectorWindow, Looks
<1>13. \A c \in DialogMenu : Other(c)
  BY <1>5, <1>6 DEF DialogMenu, SaveMemoryRegion, MemoryAllocations, Looks
<1>14. Other(MemoryBrowser) /\ Other(NewWindow) /\ Other(CodeFinderWindow)
       /\ Other(AdvancedOptions) /\ Other(Closed.class)
  BY <1>6, <1>7, <1>9, <1>10 DEF Looks
<1> QED
  BY <1>6, <1>7, <1>9, <1>10, <1>11, <1>12, <1>13, <1>14 DEF Looks

\* The null handle is a handle, and a closed slot a window of it.
LEMMA ClosedType ==
    ASSUME target \in Seq(AllPids)
    PROVE  Null \in Handles /\ Closed \in Windows /\ Closed.h = Null
<1>1. Null \in Handles
  BY DEF Null, Handles, Made
<1>2. Closed.class \in Classes
  BY ClassFacts
<1> QED
  BY <1>1, <1>2 DEF Closed, Windows

\* A window that is detached keeps its class, and its pointer unless it is tracked.
LEMMA DetachFacts ==
    ASSUME target \in Seq(AllPids), NEW w \in Windows
    PROVE  /\ DetachFromTarget(w) \in Windows
           /\ DetachFromTarget(w).class = w.class
           /\ DetachFromTarget(w).h = IF w.class.tracked THEN Null ELSE w.h
<1>1. CASE w # Closed /\ w.class.tracked
  <2>1. /\ [w EXCEPT !.h = Null] \in Windows
        /\ [w EXCEPT !.h = Null].h = Null /\ [w EXCEPT !.h = Null].class = w.class
    BY ClosedType DEF Windows
  <2> QED
    BY <1>1, <2>1 DEF DetachFromTarget
<1>2. CASE ~(w # Closed /\ w.class.tracked)
  <2>1. DetachFromTarget(w) = w
    BY <1>2 DEF DetachFromTarget
  <2> QED
    BY <1>2, <2>1, ClosedType, ClassFacts
<1> QED
  BY <1>1, <1>2

\* A warning box on top leaves the outermost one, if there is one, where it was; so
\* does closing the innermost.
LEMMA BoxFacts ==
    ASSUME NEW b \in Seq({"attach", "auto"}), NEW x \in {"attach", "auto"}
    PROVE  /\ Append(b, x) \in Seq({"attach", "auto"}) /\ Append(b, x) # << >>
           /\ b # << >> => Append(b, x)[1] = b[1]
           /\ b = << >> => Append(b, x)[1] = x
           /\ b # << >> => LET c == SubSeq(b, 1, Len(b) - 1) IN
                /\ c \in Seq({"attach", "auto"})
                /\ c # << >> => c[1] = b[1]
                /\ c = << >> => Len(b) = 1
<1>1. Len(b) \in Nat /\ (b # << >> => Len(b) \in Nat \ {0})
  OBVIOUS
<1>2. CASE b # << >>
  <2> DEFINE c == SubSeq(b, 1, Len(b) - 1)
  <2>1. /\ c \in Seq({"attach", "auto"}) /\ Len(c) = Len(b) - 1
        /\ \A i \in 1 .. Len(b) - 1 : c[i] = b[i]
    <3> DEFINE n == Len(b) - 1
    <3>1. n \in Nat /\ \A i \in 1 .. n : b[i] \in {"attach", "auto"}
      BY <1>1, <1>2, ElementOfSeq
    <3> HIDE DEF n
    <3>2. /\ SubSeq(b, 1, n) \in Seq({"attach", "auto"})
          /\ Len(SubSeq(b, 1, n)) = IF 1 <= n THEN n - 1 + 1 ELSE 0
          /\ \A i \in 1 .. n - 1 + 1 : SubSeq(b, 1, n)[i] = b[1 + i - 1]
      BY <3>1, SubSeqProperties
    <3>3. /\ SubSeq(b, 1, n) \in Seq({"attach", "auto"})
          /\ Len(SubSeq(b, 1, n)) = n
          /\ \A i \in 1 .. n : SubSeq(b, 1, n)[i] = b[i]
      BY <3>1, <3>2
    <3> QED
      BY <3>3 DEF n
  <2> HIDE DEF c
  <2>2. c # << >> => c[1] = b[1]
    BY <1>1, <1>2, <2>1
  <2>3. c = << >> => Len(b) = 1
    BY <1>1, <1>2, <2>1
  <2>4. Append(b, x)[1] = b[1]
    BY <1>1, <1>2
  <2> QED
    BY <1>2, <2>1, <2>2, <2>3, <2>4 DEF c
<1>3. CASE b = << >>
  BY <1>3
<1> QED
  BY <1>2, <1>3
-----------------------------------------------------------------------------
(* Frames                                                                  *)

\* What the invariant speaks of.
invVars == <<procs, target, handle, holder, win, box, scan, held, hasty, exited>>

LEMMA QuietStep == Inv /\ UNCHANGED invVars => Inv'
BY DEF invVars, Inv, TypeOK, ModelsInv, LuaInv, WindowInv, ScanInv, PauseInv, Handles, Made,
       Windows, AllPids

\* A step that only touches the windows.
LEMMA WindowStep ==
    ASSUME Inv, win' \in [Slots -> Windows], WindowInv',
           UNCHANGED <<procs, target, handle, holder, box, scan, held, hasty>>
    PROVE  Inv'
<1>1. TypeOK'
  BY DEF Inv, TypeOK, Handles, Made, Windows, AllPids
<1> QED
  BY <1>1 DEF Inv, ModelsInv, LuaInv, ScanInv, PauseInv

\* One window changes, into one that the invariant allows.
LEMMA NewWindowStep ==
    ASSUME Inv, NEW s \in Slots, NEW w \in Windows, NewWindowAt(s, w),
           w.class.tracked => w.h \in {Null, handle} \cup hasty,
           w.class = DebuggerWindow => w.h \in {handle} \cup hasty \cup exited /\ w.h # Null
    PROVE  Inv'
<1>1. win' \in [Slots -> Windows] /\ win' = [win EXCEPT ![s] = w]
  BY DEF Inv, TypeOK, NewWindowAt
<1>2. UNCHANGED <<procs, target, handle, holder, box, scan, held, hasty, exited>>
  BY DEF NewWindowAt, UnchangedScan
<1>3. \A t \in Slots : win'[t] = IF t = s THEN w ELSE win[t]
  BY <1>1 DEF Inv, TypeOK
<1>4. WindowInv'
  BY <1>2, <1>3 DEF Inv, WindowInv
<1> QED
  BY <1>1, <1>2, <1>4, WindowStep

\* A new handle is not null and every older one is still a number of a handle.
LEMMA ReplaceFacts ==
    ASSUME TypeOK, NEW p \in AllPids, Replace(p)
    PROVE  /\ target' \in Seq(AllPids)
           /\ handle' \in Handles' /\ handle' # Null
           /\ Handles \subseteq Handles' /\ Null \in Handles'
           /\ [Slots -> Windows] \subseteq [Slots -> Windows']
<1>1. target' = Append(target, p) /\ handle' = Len(target) + 1 /\ target \in Seq(AllPids)
  BY DEF TypeOK, Replace, Made
<1>2. target' \in Seq(AllPids) /\ Len(target') = Len(target) + 1 /\ Len(target) \in Nat
  BY <1>1
<1>3. /\ handle' \in Handles' /\ handle' # Null
      /\ Handles \subseteq Handles' /\ Null \in Handles'
  BY <1>1, <1>2 DEF Handles, Made, Null
<1>4. Windows \subseteq Windows'
  BY <1>3 DEF Windows
<1> QED
  BY <1>2, <1>3, <1>4
-----------------------------------------------------------------------------
(* Opening a process                                                       *)

\* attachToPid: the debugger window is gone, the tracked windows are frozen.
LEMMA AttachStep == ASSUME Inv, NEW p \in Pids, AttachToPid(p) PROVE Inv'
<1>1. /\ target' \in Seq(AllPids)
      /\ handle' \in Handles' /\ handle' # Null
      /\ Handles \subseteq Handles' /\ Null \in Handles'
      /\ [Slots -> Windows] \subseteq [Slots -> Windows']
  BY ReplaceFacts DEF Inv, AttachToPid, AllPids
<1>2. /\ scan = NoScan /\ box = << >>
      /\ UNCHANGED <<procs, scan, held, hasty, exited>>
  BY DEF AttachToPid, Interactive, UnchangedScan
<1>3. /\ win' \in [Slots -> Windows']
      /\ \A s \in Slots :
            /\ win'[s].class.tracked => win'[s].h = Null
            /\ win'[s].class # DebuggerWindow
  <2>1. \A s \in Slots : LET w == DetachFromTarget(DeleteDebugger(win[s])) IN
            /\ w \in Windows
            /\ w.class.tracked => w.h = Null
            /\ w.class # DebuggerWindow
    <3> TAKE s \in Slots
    <3>1. DeleteDebugger(win[s]) \in Windows /\ DeleteDebugger(win[s]).class # DebuggerWindow
      BY ClosedType, ClassFacts DEF DeleteDebugger, Inv, TypeOK
    <3> QED
      BY <3>1, DetachFacts DEF Inv, TypeOK
  <2> QED
    BY <1>1, <2>1 DEF AttachToPid
<1>4. \/ box' = <<"attach">> /\ holder' = holder
      \/ box' = << >> /\ holder' = [list |-> handle', results |-> handle', lua |-> handle']
  BY <1>2 DEF AttachToPid, AttachFinish
<1>5. /\ box' \in Seq({"attach", "auto"})
      /\ holder' \in [list : Handles, results : Handles, lua : Handles]'
  <2>1. holder \in [list : Handles, results : Handles, lua : Handles]'
    BY <1>1 DEF Inv, TypeOK
  <2>2. <<"attach">> \in Seq({"attach", "auto"}) /\ << >> \in Seq({"attach", "auto"})
    OBVIOUS
  <2>3. [list |-> handle', results |-> handle', lua |-> handle']
            \in [list : Handles, results : Handles, lua : Handles]'
    BY <1>1
  <2> QED
    BY <1>4, <2>1, <2>2, <2>3
<1>6. scan' \in [h : Handles, pause : Pids \cup {0}]'
  BY <1>1, <1>2 DEF Inv, TypeOK
<1>7. TypeOK'
  BY <1>1, <1>2, <1>3, <1>5, <1>6 DEF Inv, TypeOK
<1>8. ModelsInv' /\ LuaInv'
  BY <1>4 DEF ModelsInv, LuaInv
<1>9. WindowInv'
  BY <1>3 DEF WindowInv
<1>10. ScanInv' /\ PauseInv'
  BY <1>2 DEF Inv, ScanInv, PauseInv, NoScan
<1> QED
  BY <1>7, <1>8, <1>9, <1>10 DEF Inv

\* The watcher, Create Process and Connect replace the handle and sever nothing, but
\* what they leave behind is on record.
LEMMA HastyStep ==
    ASSUME Inv, NEW p \in AllPids, Replace(p),
           hasty' = hasty \cup ({handle} \ {Null}),
           UNCHANGED <<win, scan, held, exited>>,
           procs' \in [Pids -> ProcStates], \A q \in held : procs'[q] = procs[q],
           \/ box' = Append(box, "auto") /\ UNCHANGED holder
           \/ holder' = BothModels(handle') /\ UNCHANGED box
    PROVE  Inv'
<1>1. /\ target' \in Seq(AllPids)
      /\ handle' \in Handles' /\ handle' # Null
      /\ Handles \subseteq Handles' /\ Null \in Handles'
      /\ [Slots -> Windows] \subseteq [Slots -> Windows']
  BY ReplaceFacts DEF Inv
<1>2. /\ box' \in Seq({"attach", "auto"})
      /\ box' = << >> => box = << >>
      /\ box' # << >> /\ box # << >> => box'[1] = box[1]
      /\ box' # << >> /\ box = << >> => box'[1] = "auto"
  <2>1. box \in Seq({"attach", "auto"})
    BY DEF Inv, TypeOK
  <2> QED
    BY <2>1, BoxFacts
<1>3. /\ holder' \in [list : Handles, results : Handles, lua : Handles]'
      /\ holder'.lua = holder.lua
      /\ box' = << >> => holder'.list = handle' /\ holder'.results = handle'
  <2>1. CASE box' = Append(box, "auto") /\ UNCHANGED holder
    <3>1. box' # << >>
      BY <2>1 DEF Inv, TypeOK
    <3> QED
      BY <1>1, <2>1, <3>1 DEF Inv, TypeOK
  <2>2. CASE holder' = BothModels(handle') /\ UNCHANGED box
    BY <1>1, <2>2 DEF Inv, TypeOK, BothModels
  <2> QED
    BY <2>1, <2>2
<1>4. scan' \in [h : Handles, pause : Pids \cup {0}]'
  BY <1>1 DEF Inv, TypeOK
<1>5. TypeOK'
  BY <1>1, <1>2, <1>3, <1>4 DEF Inv, TypeOK
<1>6. ModelsInv' /\ LuaInv'
  BY <1>2, <1>3 DEF Inv, ModelsInv, LuaInv, Null
<1>7. WindowInv' /\ ScanInv'
  BY DEF Inv, WindowInv, ScanInv
<1>8. PauseInv'
  BY DEF Inv, PauseInv
<1> QED
  BY <1>5, <1>6, <1>7, <1>8 DEF Inv

LEMMA AutoAttachStep == ASSUME Inv, NEW p \in Pids, AutoAttach(p) PROVE Inv'
BY HastyStep DEF AutoAttach, AllPids, Inv, TypeOK

\* The process that Create Process starts was gone, so nobody holds it.
LEMMA CreateStep == ASSUME Inv, NEW p \in Pids, CreateProcess(p) PROVE Inv'
<1>1. p \notin held
  BY DEF Inv, PauseInv, CreateProcess
<1>2. procs' \in [Pids -> ProcStates] /\ \A q \in held : procs'[q] = procs[q]
  BY <1>1 DEF CreateProcess, Inv, TypeOK, ProcStates
<1> QED
  BY <1>2, HastyStep DEF CreateProcess, UnchangedScan, AllPids

LEMMA ConnectStep == ASSUME Inv, ConnectCeserver PROVE Inv'
BY HastyStep DEF ConnectCeserver, UnchangedScan, AllPids, Inv, TypeOK

\* Closing the outermost box of an attach repoints Lua; every box repoints the models.
LEMMA CloseBoxStep == ASSUME Inv, CloseBox PROVE Inv'
<1>1. /\ Len(box) \in Nat \ {0} /\ box' = SubSeq(box, 1, Len(box) - 1)
      /\ box[Len(box)] \in {"attach", "auto"} /\ box \in Seq({"attach", "auto"})
  BY DEF CloseBox, Inv, TypeOK
<1>2. /\ box' \in Seq({"attach", "auto"})
      /\ box' # << >> => box'[1] = box[1]
      /\ box' = << >> => Len(box) = 1
  BY <1>1, BoxFacts DEF CloseBox
<1>3. /\ holder' \in [list : Handles, results : Handles, lua : Handles]
      /\ holder'.list = handle /\ holder'.results = handle
      /\ holder'.lua = IF box[Len(box)] = "attach" THEN handle ELSE holder.lua
  <2>1. holder \in [list : Handles, results : Handles, lua : Handles] /\ handle \in Handles
    BY DEF Inv, TypeOK
  <2>2. CASE box[Len(box)] = "attach"
    BY <2>1, <2>2 DEF CloseBox, AttachFinish
  <2>3. CASE box[Len(box)] # "attach"
    <3>1. holder' = [holder EXCEPT !.list = handle, !.results = handle]
      BY <2>3 DEF CloseBox, BothModels
    <3> QED
      BY <2>1, <2>3, <3>1
  <2> QED
    BY <2>2, <2>3
<1>4. UNCHANGED <<procs, target, handle, win, scan, held, hasty, exited>>
  BY DEF CloseBox
<1>5. TypeOK'
  BY <1>2, <1>3, <1>4 DEF Inv, TypeOK, Handles, Made, Windows, AllPids
<1>6. ModelsInv' /\ LuaInv'
  BY <1>1, <1>2, <1>3, <1>4 DEF Inv, ModelsInv, LuaInv
<1> QED
  BY <1>4, <1>5, <1>6 DEF Inv, WindowInv, ScanInv, PauseInv

LEMMA OpenProcessStep == Inv /\ OpenProcess => Inv'
<1> SUFFICES ASSUME Inv, OpenProcess PROVE Inv'
  OBVIOUS
<1>1. CASE WaitForProcess \/ \E p \in Pids : WatcherSees(p)
  BY <1>1, QuietStep DEF WaitForProcess, WatcherSees, invVars
<1> QED
  BY <1>1, AttachStep, CreateStep, ConnectStep, AutoAttachStep, CloseBoxStep DEF OpenProcess
-----------------------------------------------------------------------------
(* Scans and pauses                                                        *)

\* A signal keeps the states of the processes states.
LEMMA SignalledFacts ==
    ASSUME TypeOK, NEW p, NEW from \in ProcStates, NEW to \in ProcStates
    PROVE  /\ Signalled(p, from, to) \in [Pids -> ProcStates]
           /\ \A q \in Pids : Signalled(p, from, to)[q] =
                                IF q = p /\ procs[q] = from THEN to ELSE procs[q]
BY DEF TypeOK, Signalled

\* The scan starts: it stops the target unless that is stopped already, so what it
\* stopped was not paused by the user.
LEMMA RunScanStep == ASSUME Inv, RunScanWithProgress PROVE Inv'
<1>1. PICK p \in {0, ScopedSigstop(target[handle])} : scan' = [h |-> handle, pause |-> p]
  BY DEF RunScanWithProgress
<1>2. /\ handle # Null
      /\ procs' = Signalled(p, "running", "stopped")
      /\ UNCHANGED <<target, handle, holder, win, box, held, hasty, exited>>
  BY <1>1 DEF RunScanWithProgress
<1>3. p \in Pids \cup {0} /\ (p \in Pids => procs[p] # "stopped")
  BY LocalPids DEF ScopedSigstop
<1>4. /\ procs' \in [Pids -> ProcStates]
      /\ \A q \in Pids : procs'[q] = IF q = p /\ procs[q] = "running" THEN "stopped" ELSE procs[q]
  BY <1>2, SignalledFacts DEF Inv, ProcStates
<1>5. scan' \in [h : Handles, pause : Pids \cup {0}]
  BY <1>1, <1>3 DEF Inv, TypeOK
<1>6. TypeOK'
  BY <1>2, <1>4, <1>5 DEF Inv, TypeOK, Handles, Made, Windows, AllPids
<1>7. ScanInv'
  BY <1>1, <1>2 DEF ScanInv
<1>8. PauseInv'
  <2>1. \A q \in held : procs'[q] \in {"stopped", "zombie"}
    BY <1>4 DEF Inv, TypeOK, PauseInv
  <2>2. p \in held => procs'[p] = "zombie"
    BY <1>3, <1>4 DEF Inv, TypeOK, PauseInv
  <2> QED
    BY <1>1, <1>2, <2>1, <2>2 DEF PauseInv
<1> QED
  BY <1>2, <1>6, <1>7, <1>8 DEF Inv, ModelsInv, LuaInv, WindowInv

\* The scan ends and resumes only what it stopped.
LEMMA EndScanStep == ASSUME Inv, EndScan PROVE Inv'
<1>1. /\ scan # NoScan /\ scan' = NoScan
      /\ procs' = Signalled(scan.pause, "stopped", "running")
      /\ UNCHANGED <<target, handle, holder, win, box, held, hasty, exited>>
  BY DEF EndScan
<1>2. /\ procs' \in [Pids -> ProcStates]
      /\ \A q \in Pids : procs'[q] = IF q = scan.pause /\ procs[q] = "stopped" THEN "running" ELSE procs[q]
  BY <1>1, SignalledFacts DEF Inv, ProcStates
<1>3. NoScan \in [h : Handles, pause : Pids \cup {0}]
  BY DEF NoScan, Null, Handles, Made, Inv, TypeOK
<1>4. TypeOK'
  BY <1>1, <1>2, <1>3 DEF Inv, TypeOK, Handles, Made, Windows, AllPids
<1>5. PauseInv'
  BY <1>1, <1>2 DEF Inv, TypeOK, PauseInv
<1> QED
  BY <1>1, <1>4, <1>5 DEF Inv, ModelsInv, LuaInv, WindowInv, ScanInv

\* The check mark pauses or resumes the target of the handle in force.
LEMMA PauseStep == ASSUME Inv, PauseProcess PROVE Inv'
<1> DEFINE p == IF handle = Null THEN 0 ELSE target[handle]
           reached == {q \in Pids : q = p /\ procs[q] # "gone"}
<1>1. /\ scan = NoScan
      /\ held' = IF checked THEN held \ reached ELSE held \cup reached
      /\ procs' = IF checked THEN Signalled(p, "stopped", "running")
                             ELSE Signalled(p, "running", "stopped")
      /\ UNCHANGED <<target, handle, holder, win, box, scan, hasty, exited>>
  BY DEF PauseProcess, Interactive
<1> HIDE DEF p
<1>2. CASE checked
  <2>1. /\ procs' \in [Pids -> ProcStates]
        /\ \A q \in Pids : procs'[q] = IF q = p /\ procs[q] = "stopped" THEN "running" ELSE procs[q]
    BY <1>1, <1>2, SignalledFacts DEF Inv, ProcStates
  <2>2. TypeOK'
    BY <1>1, <1>2, <2>1 DEF Inv, TypeOK, Handles, Made, Windows, AllPids
  <2>3. PauseInv'
    BY <1>1, <1>2, <2>1 DEF Inv, TypeOK, PauseInv
  <2> QED
    BY <1>1, <2>2, <2>3 DEF Inv, ModelsInv, LuaInv, WindowInv, ScanInv
<1>3. CASE ~checked
  <2>1. /\ procs' \in [Pids -> ProcStates]
        /\ \A q \in Pids : procs'[q] = IF q = p /\ procs[q] = "running" THEN "stopped" ELSE procs[q]
    BY <1>1, <1>3, SignalledFacts DEF Inv, ProcStates
  <2>2. TypeOK'
    BY <1>1, <1>3, <2>1 DEF Inv, TypeOK, Handles, Made, Windows, AllPids
  <2>3. \A q \in held' : procs'[q] \in {"stopped", "zombie"}
    BY <1>1, <1>3, <2>1 DEF Inv, TypeOK, PauseInv, ProcStates
  <2>4. PauseInv'
    BY <1>1, <2>3 DEF PauseInv
  <2> QED
    BY <1>1, <2>2, <2>4 DEF Inv, ModelsInv, LuaInv, WindowInv, ScanInv
<1> QED
  BY <1>2, <1>3

LEMMA ScanningStep == Inv /\ Scanning => Inv'
<1> SUFFICES ASSUME Inv, Scanning PROVE Inv'
  OBVIOUS
<1>1. CASE ScanReads
  BY <1>1, QuietStep DEF ScanReads, Deref, invVars
<1> QED
  BY <1>1, RunScanStep, EndScanStep, PauseStep DEF Scanning

-----------------------------------------------------------------------------
(* Windows                                                                 *)

\* A window that is opened has the handle in force, and the debugger needs one.
LEMMA OpenWindowStep ==
    ASSUME Inv, NEW s \in Slots, NEW class \in Classes, OpenWindow(s, class)
    PROVE  Inv'
<1> DEFINE w == [class |-> class, h |-> handle, busy |-> FALSE]
<1>1. w \in Windows
  BY DEF Windows, Inv, TypeOK
<1>2. class = DebuggerWindow => handle # Null
  BY ClassFacts DEF OpenWindow
<1>3. NewWindowAt(s, w)
  BY DEF OpenWindow
<1> QED
  BY <1>1, <1>2, <1>3, NewWindowStep

\* Stopping the finders leaves every window as it is, but for its worker.
LEMMA StopFindersFacts ==
    ASSUME NEW w \in Windows
    PROVE  /\ StopFinders(w) \in Windows
           /\ StopFinders(w).class = w.class /\ StopFinders(w).h = w.h
BY DEF StopFinders, Windows

LEMMA CodeFinderStep == ASSUME Inv, NEW s \in Slots, StartCodeFinder(s) PROVE Inv'
<1> DEFINE w == [class |-> CodeFinderWindow, h |-> handle, busy |-> TRUE]
<1>1. w \in Windows
  BY ClassFacts DEF Windows, Inv, TypeOK
<1>2. \A t \in Slots : win'[t] = IF t = s THEN w ELSE StopFinders(win[t])
  BY DEF StartCodeFinder
<1>3. win' \in [Slots -> Windows]
  BY <1>1, StopFindersFacts DEF StartCodeFinder, Inv, TypeOK
<1>4. UNCHANGED <<procs, target, handle, holder, box, scan, held, hasty, exited>>
  BY DEF StartCodeFinder, UnchangedScan
<1>5. WindowInv'
  BY <1>2, <1>4, StopFindersFacts, ClassFacts DEF Inv, TypeOK, WindowInv
<1> QED
  BY <1>3, <1>4, <1>5, WindowStep

LEMMA ExecuteScriptStep == ASSUME Inv, NEW s \in Slots, ExecuteScript(s) PROVE Inv'
<1>1. \A t \in Slots : win'[t] = StopFinders(win[t])
  BY DEF ExecuteScript
<1>2. win' \in [Slots -> Windows]
  BY StopFindersFacts DEF ExecuteScript, Inv, TypeOK
<1>3. UNCHANGED <<procs, target, handle, holder, box, scan, held, hasty, exited>>
  BY DEF ExecuteScript, UnchangedScan
<1>4. WindowInv'
  BY <1>1, <1>3, StopFindersFacts DEF Inv, TypeOK, WindowInv
<1> QED
  BY <1>2, <1>3, <1>4, WindowStep

LEMMA OpeningStep == ASSUME Inv, NEW s \in Slots, Opening(s) PROVE Inv'
<1>1. CASE \/ OpenMemoryView(s) \/ PopulateBrowserMenus(s) \/ AddAnalysisToolsMenu(s)
           \/ OpenDialog(s) \/ ShowDebugger(s)
  BY <1>1, OpenWindowStep, ClassFacts
     DEF OpenMemoryView, PopulateBrowserMenus, AddAnalysisToolsMenu, OpenDialog, ShowDebugger
<1>2. ASSUME NEW t \in Slots, BrowserNewWindow(s, t)
      PROVE  Inv'
  <2> DEFINE w == [class |-> NewWindow, h |-> win[t].h, busy |-> FALSE]
  <2>1. w \in Windows /\ ~w.class.tracked /\ w.class # DebuggerWindow
    BY ClassFacts DEF Windows, Inv, TypeOK
  <2> QED
    BY <1>2, <2>1, NewWindowStep DEF BrowserNewWindow
<1>3. CASE ShowAdvancedOptions(s)
  <2> DEFINE w == [class |-> AdvancedOptions, h |-> handle, busy |-> FALSE]
  <2>1. w \in Windows /\ ~w.class.tracked /\ w.class # DebuggerWindow
    BY ClassFacts DEF Windows, Inv, TypeOK
  <2> QED
    BY <1>3, <2>1, NewWindowStep DEF ShowAdvancedOptions
<1> QED
  BY <1>1, <1>2, <1>3, CodeFinderStep DEF Opening

LEMMA UsingStep == ASSUME Inv, NEW s \in Slots, Using(s) PROVE Inv'
<1>1. CASE CloseWindow(s)
  <2>1. Closed \in Windows /\ ~Closed.class.tracked /\ Closed.class # DebuggerWindow
    BY ClosedType, ClassFacts DEF Inv, TypeOK
  <2> QED
    BY <1>1, <2>1, NewWindowStep DEF CloseWindow
<1>2. CASE UseWindow(s) \/ AskFirst(s) \/ WorkerReads(s) \/ WindowTimer(s)
  BY <1>2, QuietStep DEF UseWindow, AskFirst, WorkerReads, WindowTimer, Deref, UnchangedScan, invVars
<1>3. ASSUME NEW b \in BOOLEAN, NewWindowAt(s, [win[s] EXCEPT !.busy = b])
      PROVE  Inv'
  <2> DEFINE w == [win[s] EXCEPT !.busy = b]
  <2>1. w \in Windows /\ w.class = win[s].class /\ w.h = win[s].h
    BY DEF Windows, Inv, TypeOK
  <2> HIDE DEF w
  <2>2. /\ w.class.tracked => w.h \in {Null, handle} \cup hasty
        /\ w.class = DebuggerWindow => w.h \in {handle} \cup hasty \cup exited /\ w.h # Null
    BY <2>1 DEF Inv, WindowInv
  <2> QED
    BY <1>3, <2>1, <2>2, NewWindowStep DEF w
<1> QED
  BY <1>1, <1>2, <1>3, ExecuteScriptStep DEF Using, StartTrace, WorkerEnds
-----------------------------------------------------------------------------
(* The exit of the target, and the other steps                             *)

\* The refresh timer freezes what is tracked, nulls the models and Lua, and puts the
\* handle the debugger keeps on record.
LEMMA TargetExitedStep == ASSUME Inv, TargetExited PROVE Inv'
<1>1. /\ scan = NoScan /\ handle' = Null /\ exited' = exited \cup {handle}
      /\ holder' = [list |-> Null, results |-> Null, lua |-> Null]
      /\ UNCHANGED <<procs, target, box, scan, held, hasty>>
  BY DEF TargetExited, RefreshRuns, UnchangedScan
<1>2. Null \in Handles
  BY DEF Null, Handles, Made, Inv, TypeOK
<1>3. \A s \in Slots : LET w == DetachFromTarget(win[s]) IN
            /\ w \in Windows /\ w.class = win[s].class
            /\ w.class.tracked => w.h = Null
            /\ ~w.class.tracked => w.h = win[s].h
  BY DetachFacts DEF Inv, TypeOK
<1>4. win' \in [Slots -> Windows] /\ \A s \in Slots : win'[s] = DetachFromTarget(win[s])
  BY <1>3 DEF TargetExited
<1>5. TypeOK'
  BY <1>1, <1>2, <1>4 DEF Inv, TypeOK, Handles, Made, Windows, AllPids
<1>6. WindowInv'
  BY <1>1, <1>3, <1>4, ClassFacts DEF Inv, WindowInv
<1> QED
  BY <1>1, <1>5, <1>6 DEF Inv, ModelsInv, LuaInv, ScanInv, PauseInv

LEMMA OpenLuaStep == ASSUME Inv, OpenLuaEngine PROVE Inv'
<1>1. /\ holder' = [holder EXCEPT !.lua = handle]
      /\ UNCHANGED <<procs, target, handle, win, box, scan, held, hasty, exited>>
  BY DEF OpenLuaEngine, UnchangedScan
<1>2. /\ holder' \in [list : Handles, results : Handles, lua : Handles]
      /\ holder'.list = holder.list /\ holder'.results = holder.results /\ holder'.lua = handle
  BY <1>1 DEF Inv, TypeOK
<1>3. TypeOK'
  BY <1>1, <1>2 DEF Inv, TypeOK, Handles, Made, Windows, AllPids
<1> QED
  BY <1>1, <1>2, <1>3 DEF Inv, ModelsInv, LuaInv, WindowInv, ScanInv, PauseInv

\* A process that dies is no longer one the user paused; one that starts was gone.
LEMMA ProcessStep ==
    ASSUME Inv, NEW p \in Pids, ProcessExits(p) \/ ProcessStarts(p)
    PROVE  Inv'
<1>1. UNCHANGED <<target, handle, holder, win, box, scan, hasty, exited>>
  BY DEF ProcessExits, ProcessStarts, UnchangedScan
<1>2. procs' \in [Pids -> ProcStates] /\ held' \subseteq held
  BY DEF ProcessExits, ProcessStarts, UnchangedScan, Inv, TypeOK, ProcStates
<1>3. p \notin held' /\ \A q \in Pids \ {p} : procs'[q] = procs[q]
  BY DEF ProcessExits, ProcessStarts, UnchangedScan, Inv, TypeOK, PauseInv
<1>4. TypeOK'
  BY <1>1, <1>2 DEF Inv, TypeOK, Handles, Made, Windows, AllPids
<1>5. PauseInv'
  BY <1>1, <1>2, <1>3 DEF Inv, TypeOK, PauseInv
<1> QED
  BY <1>1, <1>4, <1>5 DEF Inv, ModelsInv, LuaInv, WindowInv, ScanInv

LEMMA InitInv == Init => Inv
<1> SUFFICES ASSUME Init PROVE Inv
  OBVIOUS
<1>1. TypeOK
  BY ClosedType DEF Init, TypeOK, ProcStates, Handles, Made, Null, NoScan
<1>2. WindowInv
  BY ClosedType, ClassFacts DEF Init, WindowInv
<1> QED
  BY <1>1, <1>2 DEF Inv, Init, ModelsInv, LuaInv, ScanInv, PauseInv

LEMMA StepInv == Inv /\ [Next]_vars => Inv'
<1> SUFFICES ASSUME Inv, [Next]_vars PROVE Inv'
  OBVIOUS
<1>1. CASE \/ StructureSpider \/ SaveDisassembly \/ RestoreBaseline \/ Answered
           \/ (\E m \in {"list", "results"} : RefreshModel(m)) \/ PumpTimers
  BY <1>1, QuietStep
     DEF StructureSpider, SaveDisassembly, RestoreBaseline, AskFirstMain, Answered,
         RefreshModel, PumpTimers, Deref, UnchangedScan, invVars
<1>2. CASE UNCHANGED vars
  BY <1>2, QuietStep DEF vars, invVars
<1> QED
  BY <1>1, <1>2, OpenProcessStep, ScanningStep, OpeningStep, UsingStep, TargetExitedStep,
     OpenLuaStep, ProcessStep DEF Next

\* The state of the main window is well typed: every pointer is a handle that was made,
\* every warning box one of the two functions that show one (mainwindow.cpp).
THEOREM TypeCorrect == Spec => []TypeOK
<1>1. Inv => TypeOK
  BY DEF Inv
<1> QED
  BY <1>1, InitInv, StepInv, PTL DEF Spec

\* Whatever the user opens, attaches to and closes, and whenever the target exits: no
\* pointer the main window severs outlives its handle, but for the paths that are on
\* record (detachTrackedWindows and the exit branch of the refresh timer).
THEOREM PointersSevered == Spec => []Severed
<1>1. Inv => Severed
  BY DEF Inv, ModelsInv, LuaInv, WindowInv, Severed
<1> QED
  BY <1>1, InitInv, StepInv, PTL DEF Spec

\* The handle a scan reads is in force, or the watcher replaced it (runScanWithProgress).
THEOREM ScanHandleKept == Spec => []ScanKeepsHandle
<1>1. Inv => ScanKeepsHandle
  BY DEF Inv, ScanInv, ScanKeepsHandle
<1> QED
  BY <1>1, InitInv, StepInv, PTL DEF Spec

\* No scan resumes what the user has paused (ScopedSigstop).
THEOREM UserPauseStays == Spec => []PausedStays
<1>1. Inv => PausedStays
  BY DEF Inv, PauseInv, PausedStays
<1> QED
  BY <1>1, InitInv, StepInv, PTL DEF Spec
=============================================================================
