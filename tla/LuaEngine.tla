----------------------------- MODULE LuaEngine -----------------------------
(***************************************************************************)
(* The Lua engine (scripting/lua_engine.cpp) and the bindings that give a  *)
(* script the target (lua_bindings.cpp), timers, hotkeys and threads,      *)
(* widgets (lua_gui.cpp) and the debugger.  There is one Lua state and one *)
(* thread: what runs in it is a stack of frames, a script or callbacks     *)
(* that a binding, the timer pump, a widget or the debug pump entered, and *)
(* the host (the main window) acts only when the stack is empty.  Three    *)
(* things cross these frames: the process handles, which the engine and    *)
(* the window own and the bindings find through the registry entry         *)
(* "ce_proc"; the references luaL_ref hands out for callbacks, a free list *)
(* threaded through the registry; and the breakpoint hits the tracer       *)
(* thread queues.  What a binding reads from the target is left out; what  *)
(* it does to the target is a member of Effects.  A behaviour uses one     *)
(* family of bindings, besides those that run code and open processes.     *)
(***************************************************************************)
EXTENDS Integers, Sequences, FiniteSets, FiniteSetsExt, SequencesExt

CONSTANTS Pids,            \* processes
          Nil,             \* no process, no function
          Fns,             \* Lua functions a script passes as callbacks
          Tids,            \* threads of the debugged process
          MaxHandles,      \* bound: handles opened
          MaxObjects,      \* bound: objects a script creates
          MaxDepth,        \* bound: nested frames
          MaxStops,        \* bound: breakpoint hits
          MaxCalls         \* bound: bindings called that change something, by family

\* The registry tells a function from a link of its free list.
ASSUME FunctionsAssumption == Fns \cap Nat = {}

VARIABLES family,    \* what the script uses besides processes: "target", "objects", "widgets" or "debug"
          eng,       \* the handles of LuaEngine and of the main window
          reg,       \* the registry: [t |-> functions or links of the free list, h |-> its head]
          objs,      \* objects by id, userdata by the order of their creation
          stack,     \* the frames running in the Lua state, the innermost last
          dbg,       \* debugSession_, debugQueue_ and Lua's list of breakpoints
          done,      \* history: the last effect since the script started or opened a process, and on whom
          calls,     \* history: bindings called
          undefined  \* a freed object was used: nothing is promised any more

vars == <<family, eng, reg, objs, stack, dbg, done, calls, undefined>>

NoRef == -2
Effects == {"none", "written", "paused", "continued", "allocated", "patched", "loaded", "ran", "traced",
            "attached", "debugged"}
Slots == {"call", "click", "change", "close", "tick"}
NoCallback == [ref |-> NoRef, fn |-> Nil]
NoCallbacks == [s \in Slots |-> NoCallback]
Families == {"target", "objects", "widgets", "debug"}

NoEffect == [pid |-> Nil, eff |-> "none"]

-----------------------------------------------------------------------------
(* The registry of callbacks. *)

\* luaL_ref takes the head of the free list, or a new slot.
RefOf(R) == IF R.h # 0 THEN R.h ELSE Len(R.t) + 1
LinkIn(v) == IF v \in Fns THEN 0 ELSE v
Ref(R, fn) == IF R.h # 0 THEN [t |-> [R.t EXCEPT ![R.h] = fn], h |-> LinkIn(R.t[R.h])]
                         ELSE [t |-> Append(R.t, fn), h |-> 0]

\* luaL_unref links the slot into the free list and ignores a negative reference.
Unref(R, r) == IF r > 0 THEN [t |-> [R.t EXCEPT ![r] = R.h], h |-> r] ELSE R

\* What lua_rawgeti finds behind a reference: a function, or something that is none.
Behind(r) == IF r \in 1 .. Len(reg.t) /\ reg.t[r] \in Fns THEN reg.t[r] ELSE Nil

-----------------------------------------------------------------------------
(* Handles.  remote is "no", "served" (the ceserver client it talks        *)
(* through is alive) or "orphaned" (the client was destroyed).             *)

PidOf(e, h) == IF h = 0 THEN Nil ELSE e.handles[h].pid
Usable(e, h) == e.handles[h].live /\ e.handles[h].remote # "orphaned"

\* Destroying a remote handle calls its client: with a destroyed one that is undefined.
FreeHandle(e, h) == IF h = 0 THEN e ELSE [e EXCEPT !.handles[h].live = FALSE]
FreeIsUndefined(e, h) == h # 0 /\ e.handles[h].live /\ e.handles[h].remote = "orphaned"
NewHandle(e, p, r) == [e EXCEPT !.handles = Append(@, [pid |-> p, live |-> TRUE, remote |-> r])]

\* setProcess drops the handle the engine owns and does not write the registry.
SetProcess(e, h) == [FreeHandle(e, e.owned) EXCEPT !.owned = 0, !.proc = h]

\* Mutant: setOwnedProcess leaves the registry entry to the next execute.
SetOwnedProcess_NoRegistry(e, h) == [FreeHandle(e, e.owned) EXCEPT !.owned = h, !.proc = h]

\* setOwnedProcess writes it.
SetOwnedProcess(e, h) == [FreeHandle(e, e.owned) EXCEPT !.owned = h, !.proc = h, !.ceProc = h]

\* setOwnedCeserverClient destroys the client owned before.
SetOwnedCeserverClient(e, h) ==
  [e EXCEPT !.client = h,
            !.handles = [i \in DOMAIN @ |-> IF i = e.client THEN [@[i] EXCEPT !.remote = "orphaned"] ELSE @[i]]]

Init ==
  /\ family \in Families
  /\ \E p \in Pids, h \in {0, 1} :
       eng = [proc |-> h, ceProc |-> 0, owned |-> 0, client |-> 0, win |-> h, switching |-> FALSE,
              sound |-> FALSE, chosen |-> Nil, down |-> FALSE,
              handles |-> IF h = 0 THEN << >> ELSE <<[pid |-> p, live |-> TRUE, remote |-> "no"]>>]
  /\ reg = [t |-> << >>, h |-> 0]
  /\ objs = << >> /\ stack = << >>
  /\ dbg = [pid |-> Nil, attached |-> FALSE, stop |-> 0, stops |-> 0, queue |-> << >>, bps |-> {},
            list |-> << >>, regs |-> [t \in Tids |-> 0], failed |-> {}]
  /\ done = NoEffect
  /\ calls = 0 /\ undefined = FALSE

-----------------------------------------------------------------------------
(* Frames.  A callback is entered by pcall, so an error ends it and no more. *)

Top == Last(stack)
Frame(kind, o, fn, rest, hit) == [kind |-> kind, obj |-> o, fn |-> fn, rest |-> rest, hit |-> hit]
NoHit == [tid |-> Nil, n |-> 0]
LuaFrames == {"script", "tick", "hotkey", "thread", "widget", "close", "hit"}
Idle == stack = << >> /\ ~undefined /\ ~eng.down

\* Timers and posted events run when nothing does, and inside the file chooser a script opened.
Hosting == ~undefined /\ ~eng.down /\ (stack # << >> => Top.kind = "picker")
Choosers == Len(SelectSeq(stack, LAMBDA f : f.kind = "picker"))
InLua == stack # << >> /\ Top.kind \in LuaFrames /\ ~undefined
Calling(f) == InLua /\ family = f /\ calls < MaxCalls[f] /\ calls' = calls + 1
Push(f) == Len(stack) < MaxDepth /\ stack' = Append(stack, f)
Pop == stack' = Front(stack)

\* execute, evalToString and executeFile publish the target and the resolver, then run the code.
Execute ==
  /\ Idle /\ ~eng.switching
  /\ eng' = [eng EXCEPT !.ceProc = eng.proc, !.sound = (eng.proc # 0 => Usable(eng, eng.proc)),
                          !.chosen = PidOf(eng, eng.proc)]
  /\ done' = NoEffect
  /\ Push(Frame("script", 0, Nil, << >>, NoHit))
  /\ UNCHANGED <<family, reg, objs, dbg, calls, undefined>>

\* Some timer's or widget's callback, when the host's loop runs: it finds ce_proc as it is.
HostCallback ==
  /\ Hosting /\ family = "target" /\ Push(Frame("widget", 0, Nil, << >>, NoHit))
  /\ UNCHANGED <<family, eng, reg, objs, dbg, done, calls, undefined>>

\* The script, a timer's, a hotkey's or a widget's function returns or raises an error.
Leave ==
  /\ InLua /\ Top.kind \in {"script", "tick", "hotkey", "widget"}
  /\ Pop
  /\ UNCHANGED <<family, eng, reg, objs, dbg, done, calls, undefined>>

-----------------------------------------------------------------------------
(* The host: MainWindow gives the engine its handle. *)

\* Opening another process frees process_ first; a warning box may run events before the engine is told.
Choosing == family \in {"target", "debug"}
WindowSwitches(p) ==
  /\ Choosing /\ Idle /\ ~eng.switching /\ Len(eng.handles) < MaxHandles
  /\ LET e == NewHandle(FreeHandle(eng, eng.win), p, "no")
     IN  eng' = [e EXCEPT !.win = Len(e.handles), !.switching = TRUE]
  /\ UNCHANGED <<family, reg, objs, stack, dbg, done, calls, undefined>>

\* Create Process, auto-attach and Connect replace process_ and do not tell the engine.
WindowReplaces(p) ==
  /\ Choosing /\ Hosting /\ Len(eng.handles) < MaxHandles
  /\ LET e == NewHandle(FreeHandle(eng, eng.win), p, "no")
     IN  eng' = [e EXCEPT !.win = Len(e.handles)]
  /\ UNCHANGED <<family, reg, objs, stack, dbg, done, calls, undefined>>

\* setProcess(process_.get()): after a switch, and before the console or the table's script runs.
WindowRepoints ==
  /\ Choosing /\ Idle
  /\ eng' = [SetProcess(eng, eng.win) EXCEPT !.switching = FALSE]
  /\ undefined' = FreeIsUndefined(eng, eng.owned)
  /\ UNCHANGED <<family, reg, objs, stack, dbg, done, calls>>

\* The refresh timer finds the target gone: setProcess(nullptr), then process_ is destroyed.
WindowSeesExit ==
  /\ Choosing /\ Hosting /\ eng.win # 0
  /\ eng' = [FreeHandle(SetProcess(eng, 0), eng.win) EXCEPT !.win = 0]
  /\ undefined' = FreeIsUndefined(eng, eng.owned)
  /\ UNCHANGED <<family, reg, objs, stack, dbg, done, calls>>

\* selectFilePath runs a modal file dialog: the events of the window go on inside the script.
SelectFilePath ==
  /\ InLua /\ family \in {"target", "widgets"} /\ Push(Frame("picker", 0, Nil, << >>, NoHit))
  /\ eng' = [eng EXCEPT !.sound = FALSE]
  /\ UNCHANGED <<family, reg, objs, dbg, done, calls, undefined>>

FilePicked ==
  /\ Hosting /\ stack # << >> /\ Pop
  /\ UNCHANGED <<family, eng, reg, objs, dbg, done, calls, undefined>>

\* The window closes: the callbacks of widgets are forgotten, then the engine closes its state.
ShutDown ==
  /\ Idle /\ ~eng.switching
  /\ eng' = [FreeHandle(eng, eng.owned) EXCEPT !.down = TRUE, !.owned = 0]
  /\ undefined' = FreeIsUndefined(eng, eng.owned)
  /\ objs' = << >> /\ reg' = [t |-> << >>, h |-> 0]
  /\ dbg' = [dbg EXCEPT !.attached = FALSE, !.stop = 0, !.queue = << >>]
  /\ UNCHANGED <<family, stack, done, calls>>

-----------------------------------------------------------------------------
(* Bindings that choose the target. *)

\* openProcess of a process that cannot be opened returns nil.
OpenProcess(p) ==
  /\ Choosing /\ InLua /\ Len(eng.handles) < MaxHandles
  /\ LET e == NewHandle(eng, p, "no")
     IN  eng' = [SetOwnedProcess(e, Len(e.handles)) EXCEPT !.chosen = p]
  /\ done' = NoEffect
  /\ undefined' = FreeIsUndefined(eng, eng.owned)
  /\ UNCHANGED <<family, reg, objs, stack, dbg, calls>>

\* connectToCeserver hands over the client before the handle that talks through it.
ConnectToCeserver(p) ==
  /\ InLua /\ family = "target" /\ Len(eng.handles) < MaxHandles
  /\ LET e == NewHandle(eng, p, "served")
         c == SetOwnedCeserverClient(e, Len(e.handles))
     IN  /\ eng' = [SetOwnedProcess(c, Len(e.handles)) EXCEPT !.chosen = p]
         /\ done' = NoEffect
         /\ undefined' = FreeIsUndefined(c, c.owned)
  /\ UNCHANGED <<family, reg, objs, stack, dbg, calls>>

-----------------------------------------------------------------------------
(* Bindings that use the target.  Every one asks getProc for the registry's *)
(* pointer, answers nil when it is null, and calls the handle otherwise.    *)

HasProc == eng.ceProc # 0
ProcPid == PidOf(eng, eng.ceProc)

\* The call through ce_proc has the effect eff on its process; a freed handle is undefined.
Through(eff) ==
  LET ok == HasProc /\ Usable(eng, eng.ceProc)
  IN  /\ undefined' = (HasProc /\ ~ok)
      /\ done' = IF ok /\ eff # "none" THEN [pid |-> ProcPid, eff |-> eff] ELSE done

\* A binding that does one of effs, or fails and does nothing.
TargetCall(effs) ==
  /\ Calling("target") /\ \E eff \in effs \cup {"none"} : Through(eff)
  /\ UNCHANGED <<family, eng, reg, objs, stack, dbg>>

\* readByte ... readString, readInteger, readFloat, readBytes: any frame may read.
ReadTarget == InLua /\ Choosing /\ Through("none") /\ UNCHANGED <<family, eng, reg, objs, stack, dbg, calls>>

\* writeByte ... writeBytes, writeInteger, writeFloat.
WriteTarget == TargetCall({"written"})

\* readRegionFromFile writes what the file holds; writeRegionToFile only reads.
RegionFiles == TargetCall({"written"})

\* pause() and unpause(): SIGSTOP and SIGCONT.
Pause == TargetCall({"paused"})
Unpause == TargetCall({"continued"})

\* copyMemory, allocateMemory, deAlloc: allocations are not recorded anywhere.
AllocateMemory == TargetCall({"allocated", "written"})

\* injectLibrary and executeCode run code in the target.
InjectLibrary == TargetCall({"loaded"})
ExecuteCode == TargetCall({"ran"})

\* findWhatWrites, findWhatAccesses, breakAndTrace: trace for a while and let go; a process the
\* debugger already traces cannot be traced.
Exclusive == ~(HasProc /\ dbg.attached /\ dbg.pid = ProcPid)
FinderAndTrace ==
  /\ InLua /\ family = "debug" /\ Through(IF Exclusive THEN "traced" ELSE "none")
  /\ UNCHANGED <<family, eng, reg, objs, stack, dbg, calls>>

\* nopInstruction overwrites an instruction and hands its bytes to the script.
NopInstruction == TargetCall({"patched"})

\* autoAssemble runs a script on the target; what it would need to undo it is dropped.
AutoAssemble == TargetCall({"patched", "allocated"})

-----------------------------------------------------------------------------
(* Scans, snapshots and hooks keep addresses of the process they were made *)
(* from and are used on the process that ce_proc names at that time.       *)

CanCreate == Len(objs) < MaxObjects
Objects(kind) == {o \in 1 .. Len(objs) : objs[o].kind = kind}
Gone == [kind |-> "gone"]

\* createMemScan makes an empty scan; a snapshot reads and a hook patches, and fail without a process.
CreateOf(kind, eff) ==
  /\ Calling("target") /\ CanCreate
  /\ IF kind = "scan" THEN UNCHANGED <<undefined, done>> ELSE HasProc /\ Through(eff)
  /\ objs' = Append(objs, [kind |-> kind])
  /\ UNCHANGED <<family, eng, reg, stack, dbg>>

\* firstScan and nextScan read, restore writes the captured bytes back.
UseOf(kind, eff) == Objects(kind) # {} /\ HasProc /\ TargetCall({eff})

\* removeSimpleHook writes the original bytes into the process of now and forgets the hook.
RemoveSimpleHook(o) ==
  /\ Calling("target") /\ HasProc /\ Through("written")
  /\ objs' = IF undefined' THEN objs ELSE [objs EXCEPT ![o] = Gone]
  /\ UNCHANGED <<family, eng, reg, stack, dbg>>

-----------------------------------------------------------------------------
(* Timers, hotkeys and threads of a host without widgets, where the host    *)
(* pumps the timers.  cb holds, per slot, the reference and, as history,    *)
(* the function the script gave for it.                                     *)

Object(kind, parent) ==
  [kind |-> kind, parent |-> parent, cb |-> NoCallbacks, conn |-> << >>, on |-> TRUE, span |-> TRUE,
   fin |-> FALSE, susp |-> FALSE, closing |-> 0]
With(ob, s, ref, fn) == [ob EXCEPT !.cb[s] = [ref |-> ref, fn |-> fn]]
RefIn(o, s) == objs[o].cb[s].ref
OnStack(o) == \E i \in 1 .. Len(stack) : stack[i].obj = o

\* A call that changes objects and callbacks only.
Scripting == UNCHANGED <<family, eng, dbg, done, undefined>>

\* createTimer(interval or function).
CreateTimer(fn) ==
  /\ Calling("objects") /\ CanCreate /\ Scripting /\ UNCHANGED stack
  /\ objs' = Append(objs, IF fn = Nil THEN Object("timer", 0)
                                      ELSE With(Object("timer", 0), "tick", RefOf(reg), fn))
  /\ reg' = IF fn = Nil THEN reg ELSE Ref(reg, fn)

\* setTimerCallback: the new reference is taken before the old one is given up, and dropped when
\* the id names no timer.
TimerOnTimer(o, fn) ==
  /\ Calling("objects") /\ Scripting /\ UNCHANGED stack
  /\ LET r == IF fn = Nil THEN NoRef ELSE RefOf(reg)
         R == IF fn = Nil THEN reg ELSE Ref(reg, fn)
     IN  IF objs[o].kind = "timer"
         THEN reg' = Unref(R, RefIn(o, "tick")) /\ objs' = [objs EXCEPT ![o] = With(@, "tick", r, fn)]
         ELSE reg' = Unref(R, r) /\ UNCHANGED objs

\* timer_setInterval (an interval of 0 never comes due), timer_setEnabled.
TimerSet(o, on, span) ==
  /\ Calling("objects") /\ Scripting /\ UNCHANGED <<stack, reg>>
  /\ objs' = [objs EXCEPT ![o].on = on, ![o].span = span]

\* object_destroy of a timer.
DestroyTimer(o) ==
  /\ Calling("objects") /\ Scripting /\ UNCHANGED stack
  /\ reg' = Unref(reg, RefIn(o, "tick")) /\ objs' = [objs EXCEPT ![o] = Gone]

\* pumpTimers collects the timers that are due before it runs any.
PumpTimers ==
  /\ Hosting /\ family = "objects" /\ Scripting /\ UNCHANGED <<reg, objs, calls>>
  /\ \E due \in SUBSET {o \in Objects("timer") : objs[o].on /\ objs[o].span /\ RefIn(o, "tick") > 0} :
       /\ due # {}
       /\ Push(Frame("pump", 0, Nil, SetToSortSeq(due, LAMBDA a, b : a < b), NoHit))

\* The next due timer, looked up again: one that an earlier callback destroyed is passed over.
PumpNext ==
  /\ stack # << >> /\ Top.kind = "pump" /\ ~undefined
  /\ Scripting /\ UNCHANGED <<reg, objs, calls>>
  /\ IF Top.rest = << >> THEN Pop
     ELSE LET o == Head(Top.rest)
              rest == [stack EXCEPT ![Len(stack)].rest = Tail(@)]
          IN  IF objs[o].kind = "timer" /\ Behind(RefIn(o, "tick")) # Nil
              THEN /\ Len(stack) < MaxDepth
                   /\ stack' = Append(rest, Frame("tick", o, Behind(RefIn(o, "tick")), << >>, NoHit))
              ELSE stack' = rest

\* createHotkey(function, keys ...).
CreateHotkey(fn) ==
  /\ Calling("objects") /\ CanCreate /\ Scripting /\ UNCHANGED stack
  /\ objs' = Append(objs, With(Object("hotkey", 0), "call", RefOf(reg), fn))
  /\ reg' = Ref(reg, fn)

\* setHotkeyAction gives the old reference up first, and so gets it back.
SetHotkeyAction(o, fn) ==
  /\ Calling("objects") /\ Scripting /\ UNCHANGED stack
  /\ LET R == Unref(reg, RefIn(o, "call"))
     IN  reg' = Ref(R, fn) /\ objs' = [objs EXCEPT ![o] = With(@, "call", RefOf(R), fn)]

\* trigger() or doHotkey().
HotkeyTrigger(o) ==
  /\ InLua /\ objs[o].on /\ RefIn(o, "call") # NoRef /\ Behind(RefIn(o, "call")) # Nil
  /\ Push(Frame("hotkey", o, Behind(RefIn(o, "call")), << >>, NoHit))
  /\ Scripting /\ UNCHANGED <<reg, objs, calls>>

\* Mutant: destroy() gives the reference up and does not reset it, so __gc gives it up again.
DestroyedHotkey_KeepsRef(ob) == [ob EXCEPT !.on = FALSE]

\* Destroyed, a hotkey is off and has no callback; Enabled and setHotkeyAction still work on it.
DestroyedHotkey(ob) == [With(ob, "call", NoRef, Nil) EXCEPT !.on = FALSE]
HotkeyDestroy(o) ==
  /\ Calling("objects") /\ Scripting /\ UNCHANGED stack
  /\ reg' = Unref(reg, RefIn(o, "call")) /\ objs' = [objs EXCEPT ![o] = DestroyedHotkey(@)]

HotkeyEnable(o, b) ==
  /\ Calling("objects") /\ Scripting /\ UNCHANGED <<stack, reg>>
  /\ objs' = [objs EXCEPT ![o].on = b]

\* createThread(function, suspended): there is no thread, the function runs at once or at resume.
CreateThread(fn, suspended) ==
  /\ Calling("objects") /\ CanCreate /\ Scripting
  /\ objs' = Append(objs, [With(Object("thread", 0), "call", RefOf(reg), fn) EXCEPT !.susp = suspended])
  /\ reg' = Ref(reg, fn)
  /\ IF suspended THEN UNCHANGED stack
     ELSE Push(Frame("thread", Len(objs) + 1, fn, << >>, NoHit))

\* resume() of a thread that has not finished, its own body's included.
ThreadResume(o) ==
  /\ InLua /\ ~objs[o].fin /\ Behind(RefIn(o, "call")) # Nil
  /\ objs' = [objs EXCEPT ![o].susp = FALSE]
  /\ Push(Frame("thread", o, Behind(RefIn(o, "call")), << >>, NoHit))
  /\ Scripting /\ UNCHANGED <<reg, calls>>

ThreadTerminate(o) ==
  /\ Calling("objects") /\ Scripting /\ UNCHANGED <<stack, reg>>
  /\ objs' = [objs EXCEPT ![o].fin = TRUE]

ThreadSuspend(o) ==
  /\ Calling("objects") /\ ~objs[o].fin /\ Scripting /\ UNCHANGED <<stack, reg>>
  /\ objs' = [objs EXCEPT ![o].susp = TRUE]

ThreadEnds ==
  /\ InLua /\ Top.kind = "thread" /\ Pop
  /\ objs' = [objs EXCEPT ![Top.obj].fin = TRUE]
  /\ Scripting /\ UNCHANGED <<reg, calls>>

\* The collector's __gc of a hotkey or thread that nothing refers to any more.
Collect(o) ==
  /\ InLua /\ ~OnStack(o) /\ Scripting /\ UNCHANGED <<stack, calls>>
  /\ reg' = Unref(reg, RefIn(o, "call")) /\ objs' = [objs EXCEPT ![o] = Gone]

-----------------------------------------------------------------------------
(* Widgets.  A form is deleted when it is closed, later, by the event loop  *)
(* that runs then; a widget takes its children with it.                     *)

WidgetKinds == {"form", "button", "checkbox", "edit", "plain", "timerwidget"}
IsWidget(o) == objs[o].kind \in WidgetKinds
Widgets == {o \in 1 .. Len(objs) : IsWidget(o)}

\* Which signals a widget has: an edit stands for a list too, plain for label, memo, panel and group.
Accepts(kind, s) == CASE s = "click" -> kind \in {"button", "checkbox"}
                      [] s = "change" -> kind \in {"edit", "checkbox"}
                      [] s = "close" -> TRUE
                      [] s = "tick" -> kind = "timerwidget"

\* createForm ... createGroupBox and createTimer(owner, enabled).
CreateWidget(kind, parent, on) ==
  /\ Calling("widgets") /\ CanCreate /\ Scripting /\ UNCHANGED <<stack, reg>>
  /\ objs' = Append(objs, [Object(kind, parent) EXCEPT !.on = on])

\* addMainMenuItem: the reference lives as long as the window.
AddMainMenuItem(fn) ==
  /\ Calling("widgets") /\ CanCreate /\ Scripting /\ UNCHANGED stack
  /\ objs' = Append(objs, [With(Object("menu", 0), "click", RefOf(reg), fn) EXCEPT !.conn = <<[slot |-> "click", id |-> 0]>>])
  /\ reg' = Ref(reg, fn)

\* clearCallback and storeCallback of OnClick, OnChange, OnClose and OnTimer: a signal the widget
\* does not have gives the new reference straight back.
Unconnected(ob, s) == [With(ob, s, NoRef, Nil) EXCEPT !.conn = SelectSeq(@, LAMBDA c : c.slot # s)]
SetEvent(o, s, fn) ==
  /\ Calling("widgets") /\ Scripting /\ UNCHANGED stack
  /\ LET R == Unref(reg, RefIn(o, s))
         ob == Unconnected(objs[o], s)
         stored == [With(ob, s, RefOf(R), fn) EXCEPT !.conn = Append(@, [slot |-> s, id |-> calls])]
     IN  IF fn = Nil THEN reg' = R /\ objs' = [objs EXCEPT ![o] = ob]
         ELSE IF Accepts(objs[o].kind, s) THEN reg' = Ref(R, fn) /\ objs' = [objs EXCEPT ![o] = stored]
         ELSE reg' = Unref(Ref(R, fn), RefOf(R)) /\ objs' = [objs EXCEPT ![o] = ob]

\* Enabled of a timer starts and stops it.
WidgetEnable(o, b) ==
  /\ Calling("widgets") /\ Scripting /\ UNCHANGED <<stack, reg>>
  /\ objs' = [objs EXCEPT ![o].on = b]

\* A click or a change by the user, or Checked and Text set by the script: the slots connected to
\* the signal are called in turn, those disconnected meanwhile are not.
Signals(o) == SelectSeq(objs[o].conn, LAMBDA c : c.slot \in {"click", "change"})
Emit(o) ==
  /\ Signals(o) # << >>
  /\ IF InLua THEN objs[o].kind \in {"checkbox", "edit"} ELSE Idle
  /\ Push(Frame("emit", o, Nil, Signals(o), NoHit))
  /\ Scripting /\ UNCHANGED <<reg, objs, calls>>

EmitNext ==
  /\ stack # << >> /\ Top.kind = "emit" /\ ~undefined
  /\ Scripting /\ UNCHANGED <<reg, objs, calls>>
  /\ IF Top.rest = << >> THEN Pop
     ELSE LET c == Head(Top.rest)
              rest == [stack EXCEPT ![Len(stack)].rest = Tail(@)]
          IN  IF objs[Top.obj] # Gone /\ c \in Range(objs[Top.obj].conn)
              THEN /\ Len(stack) < MaxDepth
                   /\ stack' = Append(rest, Frame("widget", Top.obj, Behind(RefIn(Top.obj, c.slot)), << >>, NoHit))
              ELSE stack' = rest

\* QTimer's timeout.
WidgetTick(o) ==
  /\ Hosting /\ objs[o].kind = "timerwidget" /\ objs[o].on /\ RefIn(o, "tick") # NoRef
  /\ Push(Frame("widget", o, Behind(RefIn(o, "tick")), << >>, NoHit))
  /\ Scripting /\ UNCHANGED <<reg, objs, calls>>

\* close() by the user or by a script deletes a form later: when its event loop gets control again.
CloseForm(o) ==
  /\ InLua \/ Idle
  /\ objs[o].kind = "form" /\ objs[o].closing = 0
  /\ objs' = [objs EXCEPT ![o].closing = 1 + Choosers]
  /\ Scripting /\ UNCHANGED <<reg, stack, calls>>

DeleteForm(o) ==
  /\ Hosting /\ objs[o].kind = "form" /\ objs[o].closing > Choosers
  /\ Push(Frame("delete", 0, Nil, <<o>>, NoHit))
  /\ Scripting /\ UNCHANGED <<reg, objs, calls>>

\* QObject::destroyed: trackDestroyed clears the callbacks, OnClose is called, the children follow.
Kids(o) == SetToSortSeq({k \in Widgets : objs[k].parent = o}, LAMBDA a, b : a < b)
ClearedSlots == {"click", "change", "tick"}
TrackDestroyed(R, o) == Unref(Unref(Unref(R, RefIn(o, "click")), RefIn(o, "change")), RefIn(o, "tick"))
Dying(ob) == [ob EXCEPT !.kind = "dying", !.conn = << >>,
                        !.cb = [s \in Slots |-> IF s \in ClearedSlots THEN NoCallback ELSE @[s]]]

\* A child that its own close() deleted meanwhile is no child any more.
DestroyNext ==
  /\ stack # << >> /\ Top.kind = "delete" /\ ~undefined
  /\ Scripting /\ UNCHANGED calls
  /\ LET o == Head(Top.rest)
         rest(more) == [stack EXCEPT ![Len(stack)].rest = more \o Tail(@)]
     IN  IF Top.rest = << >> THEN Pop /\ UNCHANGED <<reg, objs>>
         ELSE IF o \notin Widgets THEN stack' = rest(<< >>) /\ UNCHANGED <<reg, objs>>
         ELSE /\ reg' = TrackDestroyed(reg, o)
              /\ IF RefIn(o, "close") # NoRef
                 THEN /\ Len(stack) < MaxDepth
                      /\ objs' = [objs EXCEPT ![o] = Dying(@)]
                      /\ stack' = Append(rest(<< >>), Frame("close", o, Behind(RefIn(o, "close")), << >>, NoHit))
                 ELSE /\ objs' = [objs EXCEPT ![o] = Gone]
                      /\ stack' = rest(Kids(o))

\* OnClose returned: its reference is given up and the children are deleted.
CloseReturns ==
  /\ InLua /\ Top.kind = "close"
  /\ LET o == Top.obj
     IN  /\ reg' = Unref(reg, RefIn(o, "close")) /\ objs' = [objs EXCEPT ![o] = Gone]
         /\ stack' = [Front(stack) EXCEPT ![Len(stack) - 1].rest = Kids(o) \o @]
  /\ Scripting /\ UNCHANGED calls

-----------------------------------------------------------------------------
(* The debugger.  stop is 0 while the target runs, n at the n-th hit and -1 *)
(* at the stop of the attach; regs names the hit whose registers a thread   *)
(* has; failed is history: the hits whose handler raised an error.          *)

\* debugSession(): the session there is, else an attempt to attach to the engine's process.
Sessions == IF dbg.pid # Nil THEN {dbg}
            ELSE {dbg} \cup (IF eng.proc = 0 \/ undefined' THEN {}
                             ELSE {[dbg EXCEPT !.pid = eng.handles[eng.proc].pid, !.attached = TRUE, !.stop = -1]})
SessionIsUndefined == dbg.pid = Nil /\ eng.proc # 0 /\ ~Usable(eng, eng.proc)
Debugging == family = "debug" /\ InLua /\ undefined' = SessionIsUndefined /\ UNCHANGED <<family, eng, reg, objs>>

\* A binding acts through the session d: it attached just now, or acts on the process it always had.
ActsOn(d) ==
  done' = IF d.attached THEN [pid |-> d.pid, eff |-> IF dbg.pid = Nil THEN "attached" ELSE "debugged"] ELSE done

\* continueExecution lets a stopped target run.
Continued(d) == [d EXCEPT !.stop = 0]

\* debug_setBreakpoint plants, or fails to, continues and keeps a list of its own; with no session only the list.
DebugSetBreakpoint ==
  /\ Debugging /\ Calling("debug") /\ UNCHANGED stack
  /\ \E d \in Sessions, planted \in BOOLEAN :
       LET e == [d EXCEPT !.list = Append(@, planted)]
           f == [e EXCEPT !.bps = IF planted THEN @ \cup {Len(e.list)} ELSE @]
       IN  /\ planted => d.attached
           /\ dbg' = IF d.attached THEN Continued(f) ELSE e
           /\ ActsOn(d)

\* debug_removeBreakpoint clears the entry; only a planted one reaches the session.
DebugRemoveBreakpoint(b) ==
  /\ Debugging /\ Calling("debug") /\ UNCHANGED stack
  /\ dbg' = [dbg EXCEPT !.bps = IF dbg.attached /\ dbg.list[b] THEN @ \ {b} ELSE @, !.list[b] = FALSE]
  /\ IF dbg.list[b] THEN ActsOn(dbg) ELSE UNCHANGED done

DebugContinue ==
  /\ Debugging /\ Calling("debug") /\ UNCHANGED stack
  /\ dbg' = IF dbg.attached THEN Continued(dbg) ELSE dbg
  /\ ActsOn(dbg)

\* debug_getRegisters, debug_setRegister and debug_getStack attach when nothing is: the target stays stopped.
DebugRegisters ==
  /\ Debugging /\ Calling("debug") /\ UNCHANGED stack
  /\ dbg' \in Sessions
  /\ \/ ActsOn(dbg')
     \/ dbg' = dbg /\ done' = done

\* The tracer thread queues a hit with the registers of its thread.
TargetHits(t) ==
  /\ ~undefined /\ dbg.attached /\ dbg.stop = 0 /\ dbg.bps # {} /\ dbg.stops < MaxStops
  /\ LET n == dbg.stops + 1
     IN  dbg' = [dbg EXCEPT !.stop = n, !.stops = n, !.queue = Append(@, [tid |-> t, n |-> n]), !.regs[t] = n]
  /\ UNCHANGED <<family, eng, reg, objs, stack, done, calls, undefined>>

TargetExits ==
  /\ ~undefined /\ dbg.attached /\ dbg.stop = 0
  /\ dbg' = [dbg EXCEPT !.attached = FALSE, !.bps = {}]
  /\ UNCHANGED <<family, eng, reg, objs, stack, done, calls, undefined>>

\* debug_pumpEvents drains the queue: the handler runs, the registers of the hit are written back
\* to its thread when the target is stopped, and the target continues.
DebugPumpEvents ==
  /\ Debugging /\ dbg.attached /\ Push(Frame("dpump", 0, Nil, << >>, NoHit))
  /\ UNCHANGED <<dbg, done, calls>>

\* Mutant: the pump writes the registers back and forgets to continue.
Resumed_NoContinue(d, hit) == IF d.attached /\ d.stop # 0 THEN [d EXCEPT !.regs[hit.tid] = hit.n] ELSE d

Resumed(d, hit) == IF d.attached /\ d.stop # 0 THEN Continued([d EXCEPT !.regs[hit.tid] = hit.n]) ELSE d

DebugPumpNext ==
  /\ stack # << >> /\ Top.kind = "dpump" /\ ~undefined
  /\ IF dbg.queue = << >> THEN Pop /\ UNCHANGED <<dbg, done>>
     ELSE LET h == Head(dbg.queue)
              d == [dbg EXCEPT !.queue = Tail(@)]
          IN  \/ Push(Frame("hit", 0, Nil, << >>, h)) /\ dbg' = d /\ UNCHANGED done
              \/ UNCHANGED stack /\ dbg' = Resumed(d, h) /\ ActsOn(dbg)
  /\ UNCHANGED <<family, eng, reg, objs, calls, undefined>>

\* debugger_onBreakpoint returned.
HandlerReturns ==
  /\ InLua /\ Top.kind = "hit" /\ Pop
  /\ dbg' = Resumed(dbg, Top.hit) /\ ActsOn(dbg)
  /\ UNCHANGED <<family, eng, reg, objs, calls, undefined>>

\* It raised an error: the pump raises it again, the hit is gone and the target stays stopped.
HandlerFails ==
  /\ InLua /\ Top.kind = "hit"
  /\ stack' = Front(Front(stack))
  /\ dbg' = [dbg EXCEPT !.failed = @ \cup {Top.hit.n}]
  /\ UNCHANGED <<family, eng, reg, objs, done, calls, undefined>>

-----------------------------------------------------------------------------
HostNext ==
  \/ Execute \/ HostCallback \/ Leave \/ WindowRepoints \/ WindowSeesExit \/ SelectFilePath \/ FilePicked \/ ShutDown
  \/ \E p \in Pids : WindowSwitches(p) \/ WindowReplaces(p) \/ OpenProcess(p) \/ ConnectToCeserver(p)

TargetNext ==
  \/ ReadTarget \/ WriteTarget \/ RegionFiles \/ Pause \/ Unpause \/ AllocateMemory \/ InjectLibrary
  \/ ExecuteCode \/ FinderAndTrace \/ NopInstruction \/ AutoAssemble
  \/ CreateOf("scan", "none") \/ CreateOf("snapshot", "none") \/ CreateOf("hook", "patched")
  \/ UseOf("scan", "none") \/ UseOf("snapshot", "written")
  \/ \E o \in Objects("hook") : RemoveSimpleHook(o)

ObjectNext ==
  \/ PumpTimers \/ PumpNext \/ ThreadEnds
  \/ \E fn \in Fns \cup {Nil} : CreateTimer(fn)
  \/ \E o \in 1 .. Len(objs), fn \in Fns \cup {Nil} : objs[o].kind \in {"timer", "gone"} /\ TimerOnTimer(o, fn)
  \/ \E o \in Objects("timer") : DestroyTimer(o) \/ \E on, span \in BOOLEAN : TimerSet(o, on, span)
  \/ \E fn \in Fns : CreateHotkey(fn) \/ \E b \in BOOLEAN : CreateThread(fn, b)
  \/ \E o \in Objects("hotkey"), fn \in Fns : SetHotkeyAction(o, fn)
  \/ \E o \in Objects("hotkey") : HotkeyTrigger(o) \/ HotkeyDestroy(o) \/ \E b \in BOOLEAN : HotkeyEnable(o, b)
  \/ \E o \in Objects("thread") : ThreadResume(o) \/ ThreadTerminate(o) \/ ThreadSuspend(o)
  \/ \E o \in Objects("hotkey") \cup Objects("thread") : Collect(o)

WidgetNext ==
  \/ EmitNext \/ DestroyNext \/ CloseReturns
  \/ \E kind \in WidgetKinds, parent \in {0} \cup Widgets, on \in BOOLEAN :
       (~on => kind = "timerwidget") /\ CreateWidget(kind, parent, on)
  \/ \E fn \in Fns : AddMainMenuItem(fn)
  \/ \E o \in Widgets, s \in Slots \ {"call"}, fn \in Fns \cup {Nil} :
       (s = "tick" => objs[o].kind = "timerwidget") /\ SetEvent(o, s, fn)
  \/ \E o \in Objects("timerwidget") : WidgetTick(o) \/ \E b \in BOOLEAN : WidgetEnable(o, b)
  \/ \E o \in Widgets \cup Objects("menu") : Emit(o)
  \/ \E o \in Widgets : CloseForm(o) \/ DeleteForm(o)

DebugNext ==
  \/ DebugSetBreakpoint \/ DebugContinue \/ DebugRegisters \/ TargetExits
  \/ DebugPumpEvents \/ DebugPumpNext \/ HandlerReturns \/ HandlerFails
  \/ \E b \in 1 .. Len(dbg.list) : DebugRemoveBreakpoint(b)
  \/ \E t \in Tids : TargetHits(t)

Next == HostNext \/ TargetNext \/ ObjectNext \/ WidgetNext \/ DebugNext
Spec == Init /\ [][Next]_vars

-----------------------------------------------------------------------------
(* Properties. *)

\* The objects that hold a reference, with the slot it is in.
Holders == {h \in (1 .. Len(objs)) \X Slots : "cb" \in DOMAIN objs[h[1]] /\ RefIn(h[1], h[2]) # NoRef}

\* Callbacks and registry agree, however timers, hotkeys, threads and widgets are created,
\* replaced, destroyed and collected from inside each other's callbacks: every registered callback
\* is behind a reference of its own, that reference holds the function the script gave last, and no
\* function stays in the registry without an owner (clearCallback, storeCallback, setTimerCallback,
\* l_setHotkeyAction and the destructors against luaL_ref's free list).
RefsOwned ==
  /\ \A h \in Holders : LET c == objs[h[1]].cb[h[2]] IN c.ref \in 1 .. Len(reg.t) /\ reg.t[c.ref] = c.fn
  /\ \A g, h \in Holders : g # h => RefIn(g[1], g[2]) # RefIn(h[1], h[2])
  /\ \A r \in 1 .. Len(reg.t) : reg.t[r] \in Fns => \E h \in Holders : RefIn(h[1], h[2]) = r

\* A script that starts when the engine's handle is good and opens no file chooser never calls a
\* freed handle: whatever it and the callbacks it triggers open or connect to, the bindings'
\* "ce_proc" is the engine's process, alive, and the one chosen last, and the last effect on a target
\* is on that one, an attach of the debugger included.  The bindings of an attached debugger are
\* apart: they act on the process of the engine's one session, chosen when it attached, whatever was
\* opened since (execute, setOwnedProcess, openProcess, connectToCeserver, debugSession).
ScriptsUseLive ==
  (stack # << >> /\ stack[1].kind = "script" /\ eng.sound /\ ~undefined)
    => /\ eng.ceProc = eng.proc /\ PidOf(eng, eng.ceProc) = eng.chosen
       /\ eng.ceProc # 0 => Usable(eng, eng.ceProc)
       /\ done.pid \in IF done.eff = "debugged" THEN {dbg.pid} ELSE {Nil, eng.chosen}

\* No breakpoint stop is lost by the Lua debugger: while the target stands at a hit, that hit is in
\* the queue, a pump is at it, or its handler raised an error (nextDebugHit, l_debug_pumpEvents).
StopAccounted ==
  dbg.stop > 0 => \/ dbg.stop \in {dbg.queue[i].n : i \in 1 .. Len(dbg.queue)}
                  \/ \E i \in 1 .. Len(stack) : stack[i].hit.n = dbg.stop
                  \/ dbg.stop \in dbg.failed
=============================================================================
