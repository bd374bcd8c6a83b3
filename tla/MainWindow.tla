----------------------------- MODULE MainWindow -----------------------------
(***************************************************************************)
(* The main window of the GUI and the lifetime of what it owns: the handle *)
(* of the opened process (process_), which models, the Lua engine, every   *)
(* tool window and every worker thread use through a raw pointer, and the  *)
(* scan results the list of results shows.  The GUI thread runs one handler*)
(* at a time, but a modal dialog and a running scan pump events, so timers *)
(* and queued callbacks run inside them while user input is shut out.      *)
(*                                                                         *)
(* A handle is the number of its creation and is alive exactly while it is *)
(* process_.  Dereferencing a dead handle or the null pointer is undefined *)
(* behaviour: the step sets `fault', and nothing is said about what follows*)
(***************************************************************************)
EXTENDS Naturals, Sequences, TLC

CONSTANTS
    Pids,        \* local processes
    RemotePid,   \* a process of a ceserver, which has no local process
    MaxHandles,  \* bound on the handles made
    Slots        \* windows that can be open at a time

\* 0 is no process: the pauses pass it over.
ASSUME LocalPids == Pids # {} /\ {RemotePid, 0} \cap Pids = {}

VARIABLES
    procs,    \* the local processes: "running", "stopped", "zombie" or "gone"
    children, \* those the program itself forked, which nobody waits for
    handle,   \* process_: the handle in force, or Null
    target,   \* the pid each handle was made for
    holder,   \* the raw pointers of the two models and of the Lua engine
    win,      \* the open windows: [class, h, busy], or Closed
    dialog,   \* the window whose operation waits in its own dialog, or None
    box,      \* attaches that wait in a warning box, the innermost last
    scan,     \* the scan in progress: [h, pause], or NoScan
    watcher,  \* the process watcher: [on, known, posted]
    checked,  \* the check mark of "Pause the process"
    held,     \* processes stopped with "Pause the process"
    hasty,    \* handles replaced by a path that severs nothing
    exited,   \* handles destroyed because the target had exited
    fault     \* a dead handle has been dereferenced

vars == <<procs, children, handle, target, holder, win, dialog, box, scan, watcher, checked, held, hasty, exited, fault>>

Null == 0
None == "none"
NoScan == [h |-> Null, pause |-> 0]
Made == Len(target)
AllPids == Pids \cup {RemotePid}
-----------------------------------------------------------------------------
(***************************************************************************)
(* The classes of windows, by what they do with the handle they were opened*)
(* with: whether the main window tracks them and severs it; whether the    *)
(* opener refuses to open one without a process; whether a timer of the    *)
(* window uses it; and what an operation of the window tests before it uses*)
(* it: "always" its pointer, its pointer but only "before" a dialog of its *)
(* own, or "never" anything.  A "shared" window uses process_ itself.      *)
(***************************************************************************)
Class(tracked, needsProcess, polls, tests) ==
    [tracked |-> tracked, needsProcess |-> needsProcess, polls |-> polls,
     tests |-> tests, kind |-> "window"]

Closed == [class |-> [Class(FALSE, FALSE, FALSE, "always") EXCEPT !.kind = "none"],
           h |-> Null, busy |-> FALSE]

Tool == Class(FALSE, TRUE, FALSE, "always")

MemoryBrowser == Class(TRUE, TRUE, TRUE, "before")
StructureDissector == [Class(TRUE, TRUE, TRUE, "before") EXCEPT !.kind = "dissector"]
NewWindow == Class(FALSE, FALSE, TRUE, "before")
DebuggerWindow == [Tool EXCEPT !.kind = "debugger"]
CodeFinderWindow == [Class(FALSE, TRUE, TRUE, "always") EXCEPT !.kind = "finder"]
TracerWindow == [Tool EXCEPT !.kind = "tracer"]
ScriptEditor == [Class(FALSE, FALSE, FALSE, "always") EXCEPT !.kind = "editor"]
AdvancedOptions == [Class(FALSE, FALSE, FALSE, "always") EXCEPT !.kind = "options"]

MemoryRegionsWindow == Tool
HeapRegionsWindow == Tool
ModuleListWindow == Tool
CodeReferencesWindow == Tool
ThreadListWindow == Tool
StackViewWindow == Tool
GraphicalMemoryView == Tool
RegisterEditorWindow == Tool
BranchMapper == Tool
PointerScanDialog == Tool
FindStaticsWindow == Tool
MonoDissectorWindow == Tool
GuestScanDialog == Class(FALSE, TRUE, FALSE, "never")

SharedDialog == [GuestScanDialog EXCEPT !.kind = "shared"]
SaveMemoryRegion == SharedDialog
MemoryAllocations == SharedDialog

ViewMenu == {MemoryRegionsWindow, HeapRegionsWindow, ModuleListWindow,
             CodeReferencesWindow, ThreadListWindow, StackViewWindow,
             GraphicalMemoryView, RegisterEditorWindow, TracerWindow, BranchMapper}
ToolsMenu == {ScriptEditor, PointerScanDialog, GuestScanDialog,
              StructureDissector, FindStaticsWindow, MonoDissectorWindow}
DialogMenu == {SaveMemoryRegion, MemoryAllocations}
-----------------------------------------------------------------------------
Sound == ~fault

Dead(h) == h = Null \/ h # handle

(* Event handlers of the GUI thread run one at a time; user input reaches  *)
(* it unless a scan, a dialog or the warning box is in progress.           *)
Interactive == Sound /\ scan = NoScan /\ dialog = None /\ box = << >>

Deref(h) ==
    /\ fault' = Dead(h)
    /\ UNCHANGED <<procs, children, handle, target, holder, win, dialog, box, scan, watcher, checked, held, hasty, exited>>

Open(s) == win[s] # Closed

UnchangedScan == UNCHANGED <<scan, watcher, checked, held>>

Init ==
    /\ procs = [p \in Pids |-> "running"]
    /\ children = {}
    /\ handle = Null
    /\ target = << >>
    /\ holder = [list |-> Null, results |-> Null, lua |-> Null]
    /\ win = [s \in Slots |-> Closed]
    /\ dialog = None
    /\ box = << >>
    /\ scan = NoScan
    /\ watcher = [on |-> FALSE, known |-> {}, posted |-> {}]
    /\ checked = FALSE
    /\ held = {}
    /\ hasty = {}
    /\ exited = {}
    /\ fault = FALSE
-----------------------------------------------------------------------------
(* Opening a process.                                                      *)

(* std::make_unique of a handle for p: the old handle dies, for a remote   *)
(* one after ceserverClient_.reset(); the clients of handles are left out. *)
Replace(p) ==
    /\ Made < MaxHandles
    /\ target' = Append(target, p)
    /\ handle' = Made + 1

BothModels(h) == [holder EXCEPT !.list = h, !.results = h]

(* A slip: the timer of the window is stopped and its pointer kept.        *)
DetachTimerOnly(w) == w

(* A tracked window freezes: its timer stops and its pointer is nulled.    *)
DetachFromTarget(w) == IF w # Closed /\ w.class.tracked THEN [w EXCEPT !.h = Null] ELSE w

(* The debugger window is deleted, which joins its tracer.                 *)
DeleteDebugger(w) == IF w # Closed /\ w.class = DebuggerWindow THEN Closed ELSE w

(* The end of attachToPid, after the box that warns of unreadable memory.  *)
AttachFinish(h) == holder' = [list |-> h, results |-> h, lua |-> h]

(* attachToPid: tear the debugger down, freeze the tracked windows, replace*)
(* the handle, and either warn first or finish at once.                    *)
AttachToPid(p) ==
    /\ Interactive
    /\ procs[p] # "gone"
    /\ Replace(p)
    /\ win' = [s \in Slots |-> DetachFromTarget(DeleteDebugger(win[s]))]
    /\ \/ box' = Append(box, "attach") /\ UNCHANGED holder
       \/ AttachFinish(handle') /\ UNCHANGED box
    /\ UnchangedScan
    /\ UNCHANGED <<procs, children, dialog, hasty, exited, fault>>

StopWatcher == [watcher EXCEPT !.on = FALSE, !.known = {}]

(* The watcher's callback: replaces the handle, severs nothing, and stops  *)
(* the watcher, though not what it has posted already.  It is queued, so it*)
(* also runs inside a scan, a dialog or a warning box.                     *)
AutoAttach(p) ==
    /\ Sound
    /\ p \in watcher.posted
    /\ Replace(p)
    /\ hasty' = hasty \cup ({handle} \ {Null})
    /\ \/ box' = Append(box, "auto") /\ UNCHANGED holder
       \/ holder' = BothModels(handle') /\ UNCHANGED box
    /\ watcher' = [(IF box' = box THEN StopWatcher ELSE watcher) EXCEPT !.posted = @ \ {p}]
    /\ UNCHANGED <<procs, children, win, dialog, scan, checked, held, exited, fault>>

(* The innermost warning box is closed and the function it interrupted goes*)
(* on with process_ as it is by now.                                       *)
CloseBox ==
    /\ Sound
    /\ box # << >>
    /\ box' = SubSeq(box, 1, Len(box) - 1)
    /\ IF box[Len(box)] = "attach"
       THEN AttachFinish(handle) /\ UNCHANGED watcher
       ELSE /\ holder' = BothModels(handle)
            /\ watcher' = StopWatcher
    /\ UNCHANGED <<procs, children, handle, target, win, dialog, scan, checked, held,
                   hasty, exited, fault>>

(* Create Process: fork and exec, then replace the handle, severing nothing*)
CreateProcess(p) ==
    /\ Interactive
    /\ procs[p] = "gone"
    /\ procs' = [procs EXCEPT ![p] = "running"]
    /\ children' = children \cup {p}
    /\ Replace(p)
    /\ hasty' = hasty \cup ({handle} \ {Null})
    /\ holder' = BothModels(handle')
    /\ UnchangedScan
    /\ UNCHANGED <<win, dialog, box, exited, fault>>

(* Connect to ceserver: a remote handle in place of the old one, severing  *)
(* nothing but the results.                                                *)
ConnectCeserver ==
    /\ Interactive
    /\ Replace(RemotePid)
    /\ hasty' = hasty \cup ({handle} \ {Null})
    /\ holder' = BothModels(handle')
    /\ UnchangedScan
    /\ UNCHANGED <<procs, children, win, dialog, box, exited, fault>>

(* Wait for process: the old watcher is stopped and a new one started,     *)
(* which knows the processes there are; what was posted stays posted.      *)
WaitForProcess ==
    /\ Interactive
    /\ watcher' = [watcher EXCEPT !.on = TRUE, !.known = {p \in Pids : procs[p] # "gone"}]
    /\ UNCHANGED <<procs, children, handle, target, holder, win, dialog, box, scan,
                   checked, held, hasty, exited, fault>>

(* The watcher thread sees a process it does not know and posts it.        *)
WatcherSees(p) ==
    /\ Sound
    /\ watcher.on
    /\ p \notin watcher.known /\ procs[p] # "gone"
    /\ watcher' = [watcher EXCEPT !.known = @ \cup {p}, !.posted = @ \cup {p}]
    /\ UNCHANGED <<procs, children, handle, target, holder, win, dialog, box, scan,
                   checked, held, hasty, exited, fault>>
-----------------------------------------------------------------------------
(* The timers.                                                             *)

(* A slip: the refresh timer goes on during a scan.                        *)
RefreshAlways == TRUE

(* runScanWithProgress stops the refresh timer for the length of a scan.   *)
RefreshRuns == scan = NoScan

(* kill(currentPid_, 0) fails with ESRCH: also for a remote pid, and never *)
(* for a child of the program, which stays a zombie.                       *)
PidGone == target[handle] \in Pids => procs[target[handle]] = "gone"

(* The refresh timer finds the target gone: it freezes the tracked windows,*)
(* takes the process from Lua, destroys the handle and nulls the models.   *)
TargetExited ==
    /\ Sound
    /\ RefreshRuns
    /\ handle # Null
    /\ PidGone
    /\ win' = [s \in Slots |-> DetachFromTarget(win[s])]
    /\ handle' = Null
    /\ exited' = exited \cup {handle}
    /\ holder' = [list |-> Null, results |-> Null, lua |-> Null]
    /\ UnchangedScan
    /\ UNCHANGED <<procs, children, target, dialog, box, hasty, fault>>

(* Otherwise it refreshes both lists: the address list through process_,   *)
(* its module cache and the results through the pointers of the models.    *)
RefreshModel(m) ==
    /\ Sound
    /\ RefreshRuns
    /\ handle # Null /\ ~PidGone
    /\ holder[m] # Null
    /\ Deref(holder[m])

(* The Lua timers are pumped every 30 ms, in a scan and a dialog too.      *)
PumpTimers ==
    /\ Sound
    /\ holder.lua # Null
    /\ Deref(holder.lua)

(* The refresh timer of a window; a frozen one has none.                   *)
WindowTimer(s) ==
    /\ Sound
    /\ Open(s) /\ win[s].class.polls /\ win[s].h # Null
    /\ Deref(win[s].h)
-----------------------------------------------------------------------------
(* Scanning.                                                               *)

(* A slip: the pause does not look at the state of the target.             *)
AlwaysSigstop(p) == p

(* ScopedSigstop: the process to stop for the scan, unless it is stopped.  *)
ScopedSigstop(p) == IF p \in Pids /\ procs[p] # "stopped" THEN p ELSE 0

Signalled(p, from, to) ==
    [q \in Pids |-> IF q = p /\ procs[q] = from THEN to ELSE procs[q]]

(* runScanWithProgress: pauses the target if that is chosen, stops the refresh*)
(* timer and starts the worker on *process_ and, for a next scan, on       *)
(* *lastResult_.                                                           *)
RunScanWithProgress ==
    /\ Interactive
    /\ handle # Null
    /\ \E p \in {0, ScopedSigstop(target[handle])} :
          scan' = [h |-> handle, pause |-> p]
    /\ procs' = Signalled(scan'.pause, "running", "stopped")
    /\ UNCHANGED <<children, handle, target, holder, win, dialog, box, watcher,
                   checked, held, hasty, exited, fault>>

(* The worker reads the target through its handle.                         *)
ScanReads ==
    /\ Sound
    /\ scan # NoScan
    /\ Deref(scan.h)

(* The worker ends: the target goes on, the timer is restarted, and the    *)
(* result replaces the last one, unless the scan threw.                    *)
EndScan ==
    /\ Sound
    /\ scan # NoScan
    /\ dialog = None /\ box = << >>
    /\ scan' = NoScan
    /\ procs' = Signalled(scan.pause, "stopped", "running")
    /\ UNCHANGED <<children, handle, target, holder, win, dialog, box, watcher,
                   checked, held, hasty, exited, fault>>

(* "Pause the process": the check mark is one for all targets, and stays   *)
(* off when the signal does not reach a process.                           *)
PauseProcess ==
    /\ Interactive
    /\ LET p == IF handle = Null THEN 0 ELSE target[handle]
           reached == {q \in Pids : q = p /\ procs[q] # "gone"} IN
       /\ checked' = (~checked /\ reached # {})
       /\ held' = IF checked THEN held \ reached ELSE held \cup reached
       /\ procs' = IF checked THEN Signalled(p, "stopped", "running")
                              ELSE Signalled(p, "running", "stopped")
    /\ UNCHANGED <<children, handle, target, holder, win, dialog, box, scan, watcher,
                   hasty, exited, fault>>
-----------------------------------------------------------------------------
(* Windows.                                                                *)

NewWindowAt(s, w) ==
    /\ win' = [win EXCEPT ![s] = w]
    /\ UnchangedScan
    /\ UNCHANGED <<procs, children, handle, target, holder, dialog, box, hasty, exited, fault>>

OpenWindow(s, class) ==
    /\ Interactive
    /\ win[s] = Closed
    /\ class.needsProcess => handle # Null
    /\ NewWindowAt(s, [class |-> class, h |-> handle, busy |-> FALSE])

OpenMemoryView(s) == OpenWindow(s, MemoryBrowser)

PopulateBrowserMenus(s) == \E c \in ViewMenu : OpenWindow(s, c)

AddAnalysisToolsMenu(s) == \E c \in ToolsMenu : OpenWindow(s, c)

OpenDialog(s) == \E c \in DialogMenu : OpenWindow(s, c)

(* A second viewer opened from a viewer: the main window does not know it. *)
BrowserNewWindow(s, t) ==
    /\ Interactive
    /\ win[s] = Closed
    /\ Open(t) /\ win[t].class \in {MemoryBrowser, NewWindow}
    /\ NewWindowAt(s, [class |-> NewWindow, h |-> win[t].h, busy |-> FALSE])

(* One debugger window: the session of a second could not attach.          *)
ShowDebugger(s) ==
    /\ \A t \in Slots : Open(t) => win[t].class # DebuggerWindow
    /\ OpenWindow(s, DebuggerWindow)

(* The monitors of the code finders are stopped for a new one.             *)
StopFinders(w) == IF w # Closed /\ w.class = CodeFinderWindow THEN [w EXCEPT !.busy = FALSE] ELSE w

StartCodeFinder(s) ==
    /\ Interactive
    /\ win[s] = Closed
    /\ handle # Null
    /\ win' = [[t \in Slots |-> StopFinders(win[t])] EXCEPT
                  ![s] = [class |-> CodeFinderWindow, h |-> handle, busy |-> TRUE]]
    /\ UnchangedScan
    /\ UNCHANGED <<procs, children, handle, target, holder, dialog, box, hasty, exited, fault>>

(* The code list window is kept and pointed at process_ when it is shown.  *)
ShowAdvancedOptions(s) ==
    /\ Interactive
    /\ \A t \in Slots \ {s} : Open(t) => win[t].class # AdvancedOptions
    /\ win[s] = Closed \/ win[s].class = AdvancedOptions
    /\ NewWindowAt(s, [class |-> AdvancedOptions, h |-> handle, busy |-> FALSE])

(* Lua Engine: the console hands the current handle to the engine.         *)
OpenLuaEngine ==
    /\ Interactive
    /\ holder' = [holder EXCEPT !.lua = handle]
    /\ UnchangedScan
    /\ UNCHANGED <<procs, children, handle, target, win, dialog, box, hasty, exited, fault>>

(* Closing a window joins its worker.                                      *)
CloseWindow(s) ==
    /\ Interactive
    /\ Open(s)
    /\ NewWindowAt(s, Closed)

(* The handle an operation of a window uses.                               *)
Pointer(w) == IF w.class.kind = "shared" THEN handle ELSE w.h

(* An operation of a window.                                               *)
UseWindow(s) ==
    /\ Interactive
    /\ Open(s)
    /\ win[s].class.tests # "never" => Pointer(win[s]) # Null
    /\ Deref(Pointer(win[s]))

(* Execute and Disable of a script editor stop the code finders first.     *)
ExecuteScript(s) ==
    /\ Interactive
    /\ Open(s) /\ win[s].class = ScriptEditor /\ win[s].h # Null
    /\ win' = [t \in Slots |-> StopFinders(win[t])]
    /\ fault' = Dead(win[s].h)
    /\ UnchangedScan
    /\ UNCHANGED <<procs, children, handle, target, holder, dialog, box, hasty, exited>>

(* An operation that tests its pointer and then asks the user something:   *)
(* saving or loading a region, typing a structure.                         *)
AskFirst(s) ==
    /\ Interactive
    /\ Open(s) /\ win[s].class.tests = "before" /\ win[s].h # Null
    /\ dialog' = s
    /\ UnchangedScan
    /\ UNCHANGED <<procs, children, handle, target, holder, win, box, hasty, exited, fault>>

(* The main window's own: Structure Spider, Save Disassembly and Restore   *)
(* baseline test process_, ask, and then use it.                           *)
AskFirstMain ==
    /\ Interactive
    /\ handle # Null
    /\ dialog' = "main"
    /\ UnchangedScan
    /\ UNCHANGED <<procs, children, handle, target, holder, win, box, hasty, exited, fault>>

StructureSpider == AskFirstMain
SaveDisassembly == AskFirstMain
RestoreBaseline == AskFirstMain

(* The user answers: the operation uses the pointer as it is now.          *)
Answered ==
    /\ Sound
    /\ dialog # None /\ box = << >>
    /\ dialog' = None
    /\ LET h == IF dialog = "main" THEN handle ELSE win[dialog].h IN
       fault' = Dead(h)
    /\ UnchangedScan
    /\ UNCHANGED <<procs, children, handle, target, holder, win, box, hasty, exited>>

(* A trace starts on the window's worker.                                  *)
StartTrace(s) ==
    /\ Interactive
    /\ Open(s) /\ win[s].class = TracerWindow /\ win[s].h # Null /\ ~win[s].busy
    /\ NewWindowAt(s, [win[s] EXCEPT !.busy = TRUE])

(* A worker reads the target while the target lives.                       *)
Alive(p) == p \in Pids => procs[p] # "gone"

WorkerReads(s) ==
    /\ Sound
    /\ Open(s) /\ win[s].busy /\ Alive(target[win[s].h])
    /\ Deref(win[s].h)

WorkerEnds(s) ==
    /\ Sound
    /\ Open(s) /\ win[s].busy
    /\ NewWindowAt(s, [win[s] EXCEPT !.busy = FALSE])
-----------------------------------------------------------------------------
(* A process ends; a child of the program stays as a zombie.               *)
ProcessExits(p) ==
    /\ Sound
    /\ procs[p] \in {"running", "stopped"}
    /\ procs' = [procs EXCEPT ![p] = IF p \in children THEN "zombie" ELSE "gone"]
    /\ held' = held \ {p}
    /\ UNCHANGED <<checked, children, handle, target, holder, win, dialog, box, scan, watcher,
                   hasty, exited, fault>>

ProcessStarts(p) ==
    /\ Sound
    /\ procs[p] = "gone"
    /\ procs' = [procs EXCEPT ![p] = "running"]
    /\ UnchangedScan
    /\ UNCHANGED <<children, handle, target, holder, win, dialog, box, hasty, exited, fault>>

OpenProcess ==
    \/ \E p \in Pids : AttachToPid(p)
    \/ \E p \in Pids : CreateProcess(p)
    \/ ConnectCeserver
    \/ WaitForProcess
    \/ \E p \in Pids : WatcherSees(p)
    \/ \E p \in Pids : AutoAttach(p)
    \/ CloseBox

Scanning ==
    \/ RunScanWithProgress
    \/ ScanReads
    \/ EndScan
    \/ PauseProcess

Opening(s) ==
    \/ OpenMemoryView(s)
    \/ PopulateBrowserMenus(s)
    \/ AddAnalysisToolsMenu(s)
    \/ OpenDialog(s)
    \/ \E t \in Slots : BrowserNewWindow(s, t)
    \/ ShowDebugger(s)
    \/ StartCodeFinder(s)
    \/ ShowAdvancedOptions(s)

Using(s) ==
    \/ CloseWindow(s)
    \/ UseWindow(s)
    \/ ExecuteScript(s)
    \/ AskFirst(s)
    \/ StartTrace(s)
    \/ WorkerReads(s)
    \/ WorkerEnds(s)
    \/ WindowTimer(s)

Next ==
    \/ OpenProcess
    \/ Scanning
    \/ \E s \in Slots : Opening(s)
    \/ \E s \in Slots : Using(s)
    \/ StructureSpider
    \/ SaveDisassembly
    \/ RestoreBaseline
    \/ Answered
    \/ OpenLuaEngine
    \/ TargetExited
    \/ \E m \in {"list", "results"} : RefreshModel(m)
    \/ PumpTimers
    \/ \E p \in Pids : ProcessExits(p)
    \/ \E p \in Pids : ProcessStarts(p)

Spec == Init /\ [][Next]_vars

SlotSymmetry == Permutations(Slots)
-----------------------------------------------------------------------------
(* No raw pointer the main window says it severs outlives its handle on any*)
(* path through the exit of the target or attachToPid: outside a warning   *)
(* box both models point at process_, and Lua, the tracked windows and the *)
(* debugger point at process_ or at nothing, or else at a handle that      *)
(* Create Process, the watcher or Connect to ceserver replaced under them, *)
(* or, the debugger, at one the exit of the target destroyed (mainwindow   *)
(* .cpp 177 and 2354).                                                     *)
Severed ==
    /\ box = << >> => holder.list = handle /\ holder.results = handle
    /\ box = << >> => holder.lua \in {Null, handle} \cup hasty
    /\ \A s \in Slots :
          LET w == win[s] IN
          /\ w.class.tracked => w.h \in {Null, handle} \cup hasty
          /\ w.class = DebuggerWindow => w.h \in {handle} \cup hasty \cup exited

(* Nothing the user does destroys the handle a scan's worker reads, nor    *)
(* does the exit of the target in the middle of the scan: only a callback  *)
(* of the process watcher can (runScanWithProgress, mainwindow.cpp 2634).  *)
ScanKeepsHandle == scan # NoScan => scan.h \in {handle} \cup hasty

(* A scan that pauses the target never resumes a process that the user had *)
(* paused (ScopedSigstop, mainwindow.cpp 2617).                            *)
PausedStays == \A p \in held : procs[p] # "running"
=============================================================================
