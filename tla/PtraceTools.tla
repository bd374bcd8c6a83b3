---------------------------- MODULE PtraceTools ----------------------------
(***************************************************************************)
(* The tools that ptrace the target outside the debug session: the        *)
(* hardware and the software "find what writes" monitors (code_finder.cpp) *)
(* and break-and-trace (tracer.cpp), each on a worker thread of its own,   *)
(* and the calls the GUI thread makes into the target: remote syscalls     *)
(* (linux_process.cpp), library injection and remote threads               *)
(* (injector.cpp).  One action per ptrace call or group of calls that no   *)
(* other process can observe half done.                                    *)
(*                                                                         *)
(* The kernel is external.  A thread has one tracer; a ptrace request on a *)
(* thread that is not in a ptrace-stop fails; PTRACE_INTERRUPT of a thread *)
(* that is already stopped stays pending and stops it again, before it     *)
(* executes anything, when it is next resumed; when a tracer thread ends   *)
(* its tracees run on untraced with their debug registers as they are.     *)
(***************************************************************************)
EXTENDS Naturals, FiniteSets, FiniteSetsExt

CONSTANTS Threads,      \* thread ids; 1 is the main thread
          Born,         \* the threads alive at the start
          Finders,      \* the worker tools the user may start
          Calls,        \* the calls the GUI thread may make
          MaxSignals, MaxTouches, MaxSteps, MaxStarts, MaxCalls, \* bounds on the target and on a trace
          Candidates,   \* paths an injection tries
          Passes        \* seize passes of the software finder (6 in the code)

ASSUME ThreadsAssumption == Threads \subseteq Nat \ {0} /\ 1 \in Born /\ Born \subseteq Threads
ASSUME KindsAssumption == /\ Finders \subseteq {"hw", "st", "sw", "trace"}
                          /\ Calls \subseteq {"alloc", "free", "protect", "inject", "thread"}
ASSUME PassesAssumption == Passes \in Nat \ {0}

VARIABLES th,      \* the threads of the target
          page,    \* protection of the watched page: "orig" or "guard"
          pages,   \* what the tools have mapped in the target
          patched, \* a remote syscall has overwritten the main thread's next instruction
          tool,    \* the worker ("bg") and the GUI thread ("fg")
          stop,    \* stopRequested_ / cancelled_ of the worker
          hits,    \* hits recorded by the worker
          touches, \* accesses of the watched bytes the target has completed
          signals, \* signals sent to the target
          uses,    \* tools the user has started
          cause    \* what killed the target

vars == <<th, page, pages, patched, tool, stop, hits, touches, signals, uses, cause>>
kernel == <<page, pages, patched, signals, cause>>

Main == 1
Idle == [kind |-> "none", pc |-> "idle", todo |-> {}, held |-> {}, cur |-> Main,
         n |-> 0, op |-> "none", ret |-> "idle", ok |-> FALSE, failed |-> FALSE]
Absent == [life |-> "absent", by |-> "none", why |-> "none", unread |-> FALSE,
           intr |-> FALSE, dr |-> "none", child |-> Main]

Init == /\ th = [t \in Threads |-> IF t \in Born THEN [Absent EXCEPT !.life = "run"] ELSE Absent]
        /\ page = "orig" /\ pages = {} /\ patched = FALSE
        /\ tool = [x \in {"bg", "fg"} |-> Idle]
        /\ stop = FALSE /\ hits = 0 /\ touches = 0 /\ signals = 0 /\ uses = [start |-> 0, call |-> 0] /\ cause = "none"

bg == tool["bg"]
fg == tool["fg"]

-----------------------------------------------------------------------------
(* The kernel's side of ptrace. *)

Listed == {t \in Threads : th[t].life \in {"run", "stop"}}
Stopped(t, x) == th[t].by = x /\ th[t].life = "stop"

StoppedFor(r, why) == [r EXCEPT !.life = "stop", !.why = why, !.unread = TRUE]

\* PTRACE_CONT: a pending interrupt stops the thread again at once.
Resumed(r) == IF r.intr THEN [StoppedFor(r, "intr") EXCEPT !.intr = FALSE]
                        ELSE [r EXCEPT !.life = "run", !.why = "none", !.unread = FALSE]

\* PTRACE_DETACH, and what the end of the tracer's thread does to a tracee.
Freed(r) == [r EXCEPT !.life = IF @ = "stop" THEN "run" ELSE IF @ = "zombie" THEN "gone" ELSE @,
                      !.why = "none", !.by = "none", !.unread = FALSE, !.intr = FALSE]

Interrupted(r) == IF r.life = "run" THEN StoppedFor(r, "intr") ELSE [r EXCEPT !.intr = TRUE]

\* waitpid takes the status; an exit status is the last thing a thread has to say.
Reaped(r) == [r EXCEPT !.unread = FALSE, !.life = IF @ = "zombie" THEN "gone" ELSE @]

\* What a single step of the stopped thread t by x can do: run its instruction,
\* stop on a pending interrupt first, or stop on a signal first.
StepOutcomes(t, x) ==
    IF ~Stopped(t, x) THEN {[exec |-> FALSE, trap |-> FALSE, sig |-> 0]}
    ELSE IF th[t].intr THEN {[exec |-> FALSE, trap |-> TRUE, sig |-> 0]}
    ELSE {[exec |-> TRUE, trap |-> TRUE, sig |-> 0]}
         \cup {[exec |-> FALSE, trap |-> FALSE, sig |-> 1] : s \in 1..(MaxSignals - signals)}

Stepped(r) == IF r.life = "stop" THEN [r EXCEPT !.intr = FALSE, !.unread = FALSE] ELSE r

\* The whole process dies: traced threads leave a status to reap.
Died(s) == [t \in Threads |-> IF s[t].life \in {"absent", "gone"} THEN s[t]
                              ELSE IF s[t].by = "none" THEN [s[t] EXCEPT !.life = "gone"]
                              ELSE [s[t] EXCEPT !.life = "zombie", !.unread = TRUE]]

\* LinuxDebugger::setBreakpoint and removeBreakpoint: POKEUSER needs a ptrace-stop.
Armed(r, what) == IF r.life = "stop" THEN [r EXCEPT !.dr = what] ELSE r
SetBreakpoint(s, ts, what) == [t \in Threads |-> IF t \in ts THEN Armed(s[t], what) ELSE s[t]]

-----------------------------------------------------------------------------
(* The target. *)

Running(t) == th[t].life = "run" /\ cause = "none"

\* PTRACE_O_TRACECLONE: the worker's SEIZE asks for it, a remote syscall's does not.
Follows(t) == /\ th[t].by = "bg" /\ bg.kind \in {"hw", "sw", "trace"}
              /\ ~(t = Main /\ bg.pc \in {"sys_interrupt", "sys_wait"})

\* A store to the watched bytes, or (near) to another byte of their page.
Touch(t, near) ==
    /\ Running(t) /\ touches < MaxTouches /\ hits <= MaxTouches
    /\ IF page = "guard"
       THEN /\ UNCHANGED touches
            /\ IF th[t].by = "none"
               THEN th' = Died(th) /\ cause' = "guard"
               ELSE th' = [th EXCEPT ![t] = StoppedFor(@, IF near THEN "near" ELSE "fault")]
                    /\ UNCHANGED cause
       ELSE /\ touches' = touches + (IF near THEN 0 ELSE 1)
            /\ ~near
            /\ IF th[t].dr # "hw" THEN UNCHANGED <<th, cause>>
               ELSE IF th[t].by = "none" THEN th' = Died(th) /\ cause' = "watchpoint"
               ELSE th' = [th EXCEPT ![t] = StoppedFor(@, "hit")] /\ UNCHANGED cause
    /\ UNCHANGED <<page, pages, patched, tool, stop, hits, signals, uses>>

\* A thread reaches the start address of a trace while its debug register is armed.
ReachStart(t) ==
    /\ Running(t) /\ th[t].dr = "trace"
    /\ IF th[t].by = "none" THEN th' = Died(th) /\ cause' = "start"
       ELSE th' = [th EXCEPT ![t] = StoppedFor(@, "start")] /\ UNCHANGED cause
    /\ UNCHANGED <<page, pages, patched, tool, stop, hits, touches, signals, uses>>

Clone(t) ==
    /\ Running(t)
    /\ \E c \in Threads :
         /\ th[c].life = "absent"
         /\ th' = IF Follows(t)
                  THEN [th EXCEPT ![t] = [StoppedFor(@, "clone") EXCEPT !.child = c],
                                  ![c] = [StoppedFor(@, "born") EXCEPT !.by = th[t].by]]
                  ELSE [th EXCEPT ![c].life = "run"]
    /\ UNCHANGED <<page, pages, patched, tool, stop, hits, touches, signals, uses, cause>>

Signal(t) ==
    /\ Running(t) /\ th[t].by # "none" /\ signals < MaxSignals
    /\ signals' = signals + 1
    /\ th' = [th EXCEPT ![t] = StoppedFor(@, "signal")]
    /\ UNCHANGED <<page, pages, patched, tool, stop, hits, touches, uses, cause>>

ThreadExit(t) ==
    /\ Running(t) /\ t # Main
    /\ th' = [th EXCEPT ![t] = IF @.by = "none" THEN [@ EXCEPT !.life = "gone"]
                               ELSE [@ EXCEPT !.life = "zombie", !.unread = TRUE]]
    /\ UNCHANGED <<page, pages, patched, tool, stop, hits, touches, signals, uses, cause>>

ProcessExit ==
    /\ cause = "none" /\ th[Main].life = "run"
    /\ th' = Died(th) /\ cause' = "exit"
    /\ UNCHANGED <<page, pages, patched, tool, stop, hits, touches, signals, uses>>

Target == \/ ProcessExit
          \/ \E t \in Threads : \/ Touch(t, FALSE) \/ Touch(t, TRUE) \/ ReachStart(t)
                                \/ Clone(t) \/ Signal(t) \/ ThreadExit(t)

-----------------------------------------------------------------------------
(* remoteSyscall of linux_process.cpp, for allocate, free and protect.  It *)
(* traces the main thread only and pokes the instruction over its code.   *)

Goto(x, pc) == tool' = [tool EXCEPT ![x].pc = pc]
Return(x, ok) == tool' = [tool EXCEPT ![x] = IF @.ret = "idle" THEN Idle ELSE [@ EXCEPT !.pc = tool[x].ret, !.ok = ok]]
Tools == <<stop, hits, touches, uses>>

SysSeize(x) ==
    /\ tool[x].pc = "sys_seize"
    /\ IF th[Main].by = "none" /\ Main \in Listed
       THEN th' = [th EXCEPT ![Main].by = x] /\ Goto(x, "sys_interrupt")
       ELSE Return(x, FALSE) /\ UNCHANGED th
    /\ UNCHANGED <<kernel, Tools>>

SysInterrupt(x) ==
    /\ tool[x].pc = "sys_interrupt"
    /\ IF Main \in Listed
       THEN th' = [th EXCEPT ![Main] = Interrupted(@)] /\ Goto(x, "sys_wait")
       ELSE Return(x, FALSE) /\ UNCHANGED th
    /\ UNCHANGED <<kernel, Tools>>

SysWait(x) ==
    /\ tool[x].pc = "sys_wait" /\ th[Main].unread
    /\ th' = [th EXCEPT ![Main] = Reaped(@)]
    /\ IF Main \in Listed THEN Goto(x, "sys_step") ELSE Return(x, FALSE)
    /\ UNCHANGED <<kernel, Tools>>

\* The step over the poked instruction: any SIGTRAP stop is taken for its end, so a
\* pending interrupt reports success (rax still holds the call's number).
SysStep(x) ==
    /\ tool[x].pc = "sys_step"
    /\ \E o \in StepOutcomes(Main, x), grants \in BOOLEAN :
         LET done == o.exec /\ grants IN
         /\ grants \/ tool[x].op # "free"
         /\ patched' = Stopped(Main, x)
         /\ th' = [th EXCEPT ![Main] = Stepped(@)]
         /\ signals' = signals + o.sig
         /\ pages' = IF done /\ tool[x].op # "protect"
                     THEN IF tool[x].op = "free" THEN pages \ {x} ELSE pages \cup {x} ELSE pages
         /\ tool' = [tool EXCEPT ![x].pc = "sys_restore", ![x].ok = o.trap /\ (o.exec => grants)]
    /\ UNCHANGED <<page, cause, Tools>>

\* Code and registers go back, and the thread is released.
SysRestore(x) ==
    /\ tool[x].pc = "sys_restore"
    /\ patched' = FALSE
    /\ th' = IF Stopped(Main, x) THEN [th EXCEPT ![Main] = Freed(@)] ELSE th
    /\ Return(x, tool[x].ok)
    /\ UNCHANGED <<page, pages, signals, cause, Tools>>

RemoteSyscall(x) == \/ SysSeize(x) \/ SysInterrupt(x) \/ SysWait(x) \/ SysStep(x) \/ SysRestore(x)

-----------------------------------------------------------------------------
(* Starting and stopping, all on the GUI thread. *)

Start(kind) ==
    /\ fg.pc = "idle" /\ bg = Idle /\ uses.start < MaxStarts
    /\ uses' = [uses EXCEPT !.start = @ + 1]
    /\ tool' = [tool EXCEPT !["bg"] =
         IF kind = "sw" THEN [Idle EXCEPT !.kind = kind, !.pc = "sys_seize", !.op = "alloc", !.ret = "sw_list"]
         ELSE [Idle EXCEPT !.kind = kind, !.pc = "seize",
                           !.todo = IF kind = "st" THEN {Main} ELSE Listed]]
    /\ stop' = FALSE /\ hits' = 0 /\ touches' = 0
    /\ UNCHANGED <<th, kernel>>

\* stop() joins the finder's thread; cancelling a trace only sets the flag.
Stop ==
    /\ fg.pc = "idle" /\ bg.pc # "idle" /\ ~stop
    /\ stop' = TRUE
    /\ IF bg.kind = "trace" THEN UNCHANGED tool
       ELSE tool' = [tool EXCEPT !["fg"] = [Idle EXCEPT !.pc = "join"]]
    /\ UNCHANGED <<th, kernel, hits, touches, uses>>

\* An injection first stops the finders (stopCodeFindersForInjection), the other calls do not.
Call(kind) ==
    /\ fg.pc = "idle" /\ uses.call < MaxCalls
    /\ uses' = [uses EXCEPT !.call = @ + 1]
    /\ LET first == IF kind \in {"inject", "thread"} /\ bg.pc # "idle" /\ bg.kind # "trace"
                    THEN "join" ELSE IF kind = "inject" THEN "seize" ELSE "sys_seize"
           next == IF kind = "inject" THEN "seize" ELSE "sys_seize" IN
       /\ stop' = (stop \/ first = "join")
       /\ tool' = [tool EXCEPT !["fg"] =
            [Idle EXCEPT !.kind = kind, !.pc = first, !.todo = {Main},
               !.op = IF kind = "thread" THEN "alloc" ELSE kind,
               !.ret = IF first = "join" THEN next ELSE IF kind = "thread" THEN "thread_alloc" ELSE "idle"]]
    /\ UNCHANGED <<th, kernel, hits, touches>>

Joined ==
    /\ fg.pc = "join" /\ bg.pc = "idle"
    /\ tool' = [tool EXCEPT !["fg"] = IF @.kind = "none" THEN Idle
                  ELSE [@ EXCEPT !.pc = fg.ret, !.ret = IF fg.kind = "thread" THEN "thread_alloc" ELSE "idle"]]
    /\ UNCHANGED <<th, kernel, Tools>>

\* The worker's function returns: its thread ends, and the kernel lets its tracees go.
End ==
    /\ bg.pc = "end"
    /\ th' = [t \in Threads |-> IF th[t].by = "bg" THEN Freed(th[t]) ELSE th[t]]
    /\ tool' = [tool EXCEPT !["bg"] = Idle]
    /\ UNCHANGED <<kernel, Tools>>

-----------------------------------------------------------------------------
(* Seizing the threads, the same for every tool. *)

\* A thread with a tracer, or gone, is skipped (failed: one that was not the tool's own
\* already); without the main thread no injection.
Seize(x) ==
    /\ tool[x].pc = "seize" /\ tool[x].todo # {}
    /\ LET t == Min(tool[x].todo)
           rest == tool[x].todo \ {t} IN
       IF th[t].by = "none" /\ t \in Listed
       THEN /\ th' = [th EXCEPT ![t].by = x]
            /\ tool' = [tool EXCEPT ![x].todo = rest, ![x].cur = t,
                          ![x].held = IF tool[x].kind = "sw" THEN @ \cup {t} ELSE @, ![x].ok = (tool[x].kind = "sw"),
                          ![x].pc = IF tool[x].kind = "sw" THEN "seize" ELSE "interrupt"]
       ELSE /\ UNCHANGED th
            /\ tool' = [tool EXCEPT ![x].todo = rest, ![x].failed = @ \/ th[t].by # x,
                          ![x].pc = IF x = "fg" /\ t = Main THEN "release" ELSE "seize"]
    /\ UNCHANGED <<kernel, Tools>>

\* PTRACE_INTERRUPT fails only on a thread that has exited.
Interrupt(x) ==
    /\ tool[x].pc = "interrupt"
    /\ LET t == tool[x].cur IN
       IF t \in Listed
       THEN th' = [th EXCEPT ![t] = Interrupted(@)] /\ Goto(x, "await")
       ELSE /\ UNCHANGED th
            /\ tool' = [tool EXCEPT ![x].pc = IF x = "fg" /\ t = Main THEN "release" ELSE "seize",
                          ![x].held = IF tool[x].kind \in {"hw", "st"} THEN @ \cup {t} ELSE @]
    /\ UNCHANGED <<kernel, Tools>>

\* monitorLoop: the stopped thread is armed and runs again.
ArmThread ==
    /\ bg.pc = "await" /\ bg.kind \in {"hw", "st"} /\ th[bg.cur].unread
    /\ LET r == Armed(Reaped(th[bg.cur]), "hw") IN
       th' = [th EXCEPT ![bg.cur] = IF r.life = "stop" THEN Resumed(r) ELSE r]
    /\ tool' = [tool EXCEPT !["bg"].pc = "seize", !["bg"].held = @ \cup {bg.cur}]
    /\ UNCHANGED <<kernel, Tools>>

\* Once the main thread is held, /proc/<pid>/task is read once for the others.
Siblings == Listed \ {Main}

\* Tracer::trace and seizeStop: the thread stays stopped.
HoldThread(x) ==
    /\ tool[x].pc = "await" /\ tool[x].kind \in {"trace", "inject", "thread"} /\ th[tool[x].cur].unread
    /\ LET t == tool[x].cur
           rest == IF x = "fg" /\ t = Main THEN Siblings ELSE tool[x].todo
           held == x = "bg" \/ th[t].life = "stop" IN
       /\ th' = [th EXCEPT ![t] = Reaped(@)]
       /\ tool' = [tool EXCEPT ![x].pc = IF ~held /\ t = Main THEN "release" ELSE "seize",
                     ![x].todo = rest, ![x].held = IF held THEN @ \cup {t} ELSE @]
    /\ UNCHANGED <<kernel, Tools>>

\* Every thread was tried: on to the tool's own work, or to its end when nothing was seized.
SeizedAll ==
    /\ bg.pc = "seize" /\ bg.todo = {} /\ bg.kind # "sw"
    /\ Goto("bg", IF bg.held = {} THEN "end" ELSE IF bg.kind = "trace" THEN "trace_run" ELSE "loop")
    /\ UNCHANGED <<th, kernel, Tools>>

-----------------------------------------------------------------------------
(* The monitor loops: waitpid(-1) takes the stop of any tracee of the     *)
(* program, in any order.                                                  *)

Polling == bg.pc = "loop" /\ bg.kind # "trace" /\ ~stop
Continue(t) == th' = [th EXCEPT ![t] = IF Stopped(t, "bg") THEN Resumed(Reaped(th[t])) ELSE Reaped(th[t])]

\* CodeFinder::recordHit counts the instruction before the trap (hardware) or at it (software).
RecordHit == hits' = hits + 1

\* The hit is recorded, then DR6 is cleared and the thread resumes.
WatchHit(w) ==
    /\ Polling /\ th[w].unread /\ th[w].why = "hit" /\ th[w].life = "stop"
    /\ RecordHit
    /\ Continue(w)
    /\ UNCHANGED <<kernel, tool, stop, touches, uses>>

\* Mutant: every SIGTRAP counts as the watchpoint.
AnyTrapIsHit(w) ==
    /\ Polling /\ th[w].unread /\ th[w].life = "stop"
    /\ th[w].why \in {"intr", "born", "signal", "start"}
    /\ hits' = hits + (IF th[w].why = "signal" THEN 0 ELSE 1)
    /\ Continue(w)
    /\ UNCHANGED <<kernel, tool, stop, touches, uses>>

\* Traps that are not a hit, interrupts, births and forwarded signals: resume.
PassOn(w) ==
    /\ Polling /\ th[w].unread /\ th[w].life = "stop"
    /\ th[w].why \in {"intr", "born", "signal", "start"}
    /\ Continue(w)
    /\ UNCHANGED <<kernel, tool, stop, hits, touches, uses>>

\* A segmentation fault that is not the tool's own (a page an earlier finder could not
\* restore) is forwarded like any signal; the target does not survive it.
Forwarded(w) ==
    IF Stopped(w, "bg") THEN th' = Died(th) /\ cause' = "guard"
                        ELSE th' = [th EXCEPT ![w] = Reaped(@)] /\ UNCHANGED cause

PassFault(w) ==
    /\ Polling /\ bg.kind # "sw"
    /\ th[w].unread /\ th[w].life = "stop" /\ th[w].why \in {"fault", "near"}
    /\ Forwarded(w)
    /\ UNCHANGED <<page, pages, patched, signals, tool, Tools>>

\* A clone event: the new thread's stop is waited for by name before the parent resumes.
CloneEvent(w) ==
    /\ Polling /\ th[w].unread /\ th[w].why = "clone" /\ th[w].life = "stop"
    /\ th' = [th EXCEPT ![w] = Reaped(@)]
    /\ tool' = [tool EXCEPT !["bg"].pc = "newborn", !["bg"].cur = w]
    /\ UNCHANGED <<kernel, Tools>>

Newborn ==
    /\ bg.pc = "newborn" /\ th[th[bg.cur].child].unread
    /\ LET w == bg.cur
           c == th[w].child
           r == IF bg.kind = "sw" THEN Reaped(th[c]) ELSE Armed(Reaped(th[c]), "hw") IN
       /\ th' = [t \in Threads |-> IF t \notin {c, w} THEN th[t]
                                  ELSE LET now == IF t = c THEN r ELSE th[t] IN
                                       IF Stopped(t, "bg") THEN Resumed(now) ELSE now]
       /\ tool' = [tool EXCEPT !["bg"].pc = "loop", !["bg"].held = @ \cup {c}]
    /\ UNCHANGED <<kernel, Tools>>

\* An exit status; the main thread's ends the loop.
Exited(w) ==
    /\ Polling /\ th[w].unread /\ th[w].life = "zombie"
    /\ th' = [th EXCEPT ![w] = Reaped(@)]
    /\ LET held == bg.held \ {w} IN
       tool' = [tool EXCEPT !["bg"].held = held,
                  !["bg"].pc = IF w = Main \/ held = {} THEN "clean" ELSE "loop",
                  !["bg"].todo = held, !["bg"].ok = FALSE]
    /\ UNCHANGED <<kernel, Tools>>

LeaveLoop ==
    /\ bg.pc = "loop" /\ bg.kind # "trace" /\ stop
    /\ tool' = [tool EXCEPT !["bg"].pc = "clean", !["bg"].todo = bg.held, !["bg"].ok = FALSE]
    /\ UNCHANGED <<th, kernel, Tools>>

-----------------------------------------------------------------------------
(* Cleaning up: each thread is interrupted, disarmed and let go. *)

\* Mutant: the thread is not interrupted, so disarming and detaching it fail.
CleanRunning ==
    /\ bg.pc = "clean" /\ bg.todo # {}
    /\ tool' = [tool EXCEPT !["bg"].todo = @ \ {Min(bg.todo)}]
    /\ th' = [th EXCEPT ![Min(bg.todo)] = IF Stopped(Min(bg.todo), "bg") THEN Freed([@ EXCEPT !.dr = "none"]) ELSE @]
    /\ UNCHANGED <<kernel, Tools>>

CleanThread ==
    /\ bg.pc = "clean" /\ bg.todo # {}
    /\ LET t == Min(bg.todo) IN
       IF th[t].by = "bg" /\ t \in Listed
       THEN /\ th' = [th EXCEPT ![t] = Interrupted(@)]
            /\ tool' = [tool EXCEPT !["bg"].pc = "clean_wait", !["bg"].cur = t, !["bg"].todo = @ \ {t}]
       ELSE /\ UNCHANGED th
            /\ tool' = [tool EXCEPT !["bg"].todo = @ \ {t}]
    /\ UNCHANGED <<kernel, Tools>>

\* injectSyscallGadget: mprotect of the watched page through the gadget page, on a
\* stopped thread; nothing happens when the step stops for something else.
Protect(t, o, prot) ==
    /\ page' = IF o.exec /\ "bg" \in pages THEN prot ELSE page
    /\ signals' = signals + o.sig

\* Whatever stop the wait returned, the thread is disarmed and detached.  The software
\* finder restores the page with the first thread only (ok: already restored).
Release ==
    /\ bg.pc = "clean_wait" /\ th[bg.cur].unread
    /\ LET t == bg.cur
           live == th[t].life = "stop" IN
       /\ th' = [th EXCEPT ![t] = IF live THEN Freed(IF bg.kind = "sw" THEN @ ELSE [@ EXCEPT !.dr = "none"])
                                  ELSE Reaped(@)]
       /\ IF live /\ bg.kind = "sw" /\ ~bg.ok
          THEN \E o \in StepOutcomes(t, "bg") : Protect(t, o, "orig")
          ELSE UNCHANGED <<page, signals>>
       /\ tool' = [tool EXCEPT !["bg"].pc = "clean", !["bg"].ok = @ \/ live]
    /\ UNCHANGED <<pages, patched, cause, Tools>>

Cleaned ==
    /\ bg.pc = "clean" /\ bg.todo = {}
    /\ tool' = [tool EXCEPT !["bg"] = IF bg.kind = "sw"
                  THEN [@ EXCEPT !.pc = "sys_seize", !.op = "free", !.ret = "end"] ELSE [@ EXCEPT !.pc = "end"]]
    /\ UNCHANGED <<th, kernel, Tools>>

-----------------------------------------------------------------------------
(* monitorLoopSoftware. *)

\* One pass over /proc/<pid>/task; passes go on while they find new threads.
ListPass ==
    /\ bg.pc = "sw_list"
    /\ tool' = [tool EXCEPT !["bg"] = IF bg.n = 0 /\ ~bg.ok THEN [@ EXCEPT !.pc = "end"]
                  ELSE [@ EXCEPT !.pc = "seize", !.todo = Listed \ bg.held, !.n = bg.n + 1, !.ok = FALSE]]
    /\ UNCHANGED <<th, kernel, Tools>>

\* Mutant: one pass over the thread list is enough.
NoMorePasses == FALSE

\* ok: this pass has seized a thread.
PassNeeded == bg.ok /\ bg.n < Passes

\* The last pass found nothing new (or was the sixth): guard the page, through the first thread.
PassDone ==
    /\ bg.pc = "seize" /\ bg.todo = {} /\ bg.kind = "sw"
    /\ IF PassNeeded THEN Goto("bg", "sw_list") /\ UNCHANGED th
       ELSE IF bg.held = {}
       THEN UNCHANGED th
            /\ tool' = [tool EXCEPT !["bg"].pc = "sys_seize", !["bg"].op = "free", !["bg"].ret = "end"]
       ELSE LET t == Min(bg.held) IN
            IF t \in Listed
            THEN /\ th' = [th EXCEPT ![t] = Interrupted(@)]
                 /\ tool' = [tool EXCEPT !["bg"].pc = "await", !["bg"].cur = t]
            ELSE Goto("bg", "loop") /\ UNCHANGED th
    /\ UNCHANGED <<kernel, Tools>>

GuardPage ==
    /\ bg.pc = "await" /\ bg.kind = "sw" /\ th[bg.cur].unread
    /\ \E o \in StepOutcomes(bg.cur, "bg") : Protect(bg.cur, o, "guard")
    /\ th' = [th EXCEPT ![bg.cur] = IF @.life = "stop" THEN Resumed(Stepped(@)) ELSE Reaped(@)]
    /\ Goto("bg", "loop")
    /\ UNCHANGED <<pages, patched, cause, Tools>>

\* A fault on the guarded page, recorded when it is on the watched bytes ...
Fault(w) ==
    /\ Polling /\ bg.kind = "sw"
    /\ th[w].unread /\ th[w].life = "stop" /\ th[w].why \in {"fault", "near"}
    /\ IF th[w].why = "fault" THEN RecordHit ELSE UNCHANGED hits
    /\ th' = [th EXCEPT ![w] = Reaped(@)]
    /\ tool' = [tool EXCEPT !["bg"].pc = "unprotect", !["bg"].cur = w]
    /\ UNCHANGED <<kernel, stop, touches, uses>>

\* ... the page is opened to everybody, the store steps, and the page is guarded again.
Unprotect ==
    /\ bg.pc = "unprotect"
    /\ \E o \in StepOutcomes(bg.cur, "bg") : Protect(bg.cur, o, "orig")
    /\ th' = [th EXCEPT ![bg.cur] = Stepped(@)]
    /\ Goto("bg", "step_store")
    /\ UNCHANGED <<pages, patched, cause, Tools>>

StepStore ==
    /\ bg.pc = "step_store"
    /\ \E o \in StepOutcomes(bg.cur, "bg") :
         /\ touches' = IF o.exec /\ page = "orig" /\ th[bg.cur].why = "fault" THEN touches + 1 ELSE touches
         /\ signals' = signals + o.sig
    /\ th' = [th EXCEPT ![bg.cur] = Stepped(@)]
    /\ Goto("bg", "reguard")
    /\ UNCHANGED <<page, pages, patched, cause, stop, hits, uses>>

Reguard ==
    /\ bg.pc = "reguard"
    /\ \E o \in StepOutcomes(bg.cur, "bg") : Protect(bg.cur, o, "guard")
    /\ th' = [th EXCEPT ![bg.cur] = IF Stopped(bg.cur, "bg") THEN Resumed(Stepped(@)) ELSE @]
    /\ Goto("bg", "loop")
    /\ UNCHANGED <<pages, patched, cause, Tools>>

-----------------------------------------------------------------------------
(* Tracer::trace. *)

\* The start breakpoint goes on every seized thread and all of them run.
RunToStart ==
    /\ bg.pc = "trace_run"
    /\ LET s == SetBreakpoint(th, bg.held, "trace") IN
       th' = [t \in Threads |-> IF t \in bg.held /\ Stopped(t, "bg") THEN Resumed(s[t]) ELSE s[t]]
    /\ Goto("bg", "trace_wait")
    /\ UNCHANGED <<kernel, Tools>>

\* The cancel flag is looked at only between two events: waitpid blocks.
TraceEvent(w) ==
    /\ bg.pc = "trace_wait" /\ th[w].unread
    /\ IF th[w].life = "zombie"
       THEN /\ th' = [th EXCEPT ![w] = Reaped(@)] /\ UNCHANGED cause
            /\ LET held == bg.held \ {w} IN
               tool' = [tool EXCEPT !["bg"].held = held,
                          !["bg"].pc = IF w = Main \/ held = {} \/ stop THEN "detach_all" ELSE "trace_wait"]
       ELSE IF th[w].why = "start" /\ Stopped(w, "bg")
       THEN /\ th' = [th EXCEPT ![w] = Reaped(@)] /\ UNCHANGED cause
            /\ tool' = [tool EXCEPT !["bg"].pc = "disarm", !["bg"].cur = w]
       ELSE /\ IF th[w].why \in {"fault", "near"} THEN Forwarded(w) ELSE Continue(w) /\ UNCHANGED cause
            /\ Goto("bg", IF stop THEN "detach_all" ELSE "trace_wait")
    /\ UNCHANGED <<page, pages, patched, signals, Tools>>

\* The breakpoint is removed from every seized thread, and only then are the others stopped.
Disarm ==
    /\ bg.pc = "disarm"
    /\ th' = SetBreakpoint(th, bg.held, "none")
    /\ tool' = [tool EXCEPT !["bg"].pc = "freeze", !["bg"].todo = bg.held \ {bg.cur}]
    /\ UNCHANGED <<kernel, Tools>>

Freeze ==
    /\ bg.pc = "freeze" /\ bg.todo # {}
    /\ LET t == Min(bg.todo) IN
       IF t \in Listed /\ th[t].by = "bg"
       THEN th' = [th EXCEPT ![t] = Interrupted(@)] /\ Goto("bg", "freeze_wait")
       ELSE UNCHANGED th /\ tool' = [tool EXCEPT !["bg"].todo = @ \ {t}]
    /\ UNCHANGED <<kernel, Tools>>

FreezeWait ==
    /\ bg.pc = "freeze_wait" /\ th[Min(bg.todo)].unread
    /\ th' = [th EXCEPT ![Min(bg.todo)] = Reaped(@)]
    /\ tool' = [tool EXCEPT !["bg"].pc = "freeze", !["bg"].todo = @ \ {Min(bg.todo)}]
    /\ UNCHANGED <<kernel, Tools>>

\* Steps of the traced thread while the others stay frozen.  With stepOverCalls a call is run to
\* the instruction after it instead: to the other threads that is one longer step.
TraceStep ==
    /\ bg.pc = "freeze" /\ bg.todo = {}
    /\ IF bg.n < MaxSteps /\ ~stop /\ Stopped(bg.cur, "bg")
       THEN \E o \in StepOutcomes(bg.cur, "bg") :
              /\ signals' = signals + o.sig
              /\ th' = [th EXCEPT ![bg.cur] = Stepped(@)]
              /\ tool' = [tool EXCEPT !["bg"].n = @ + 1]
       ELSE Goto("bg", "detach_all") /\ UNCHANGED <<th, signals>>
    /\ UNCHANGED <<page, pages, patched, cause, Tools>>

\* PTRACE_DETACH of a running thread fails; the end of the worker lets it go.
DetachAll ==
    /\ bg.pc = "detach_all"
    /\ th' = [t \in Threads |-> IF t \in bg.held /\ Stopped(t, "bg") THEN Freed(th[t]) ELSE th[t]]
    /\ Goto("bg", "end")
    /\ UNCHANGED <<kernel, Tools>>

-----------------------------------------------------------------------------
(* injectLibrary, injectLibrary32 and createRemoteThread: every thread is  *)
(* held, one that is in user code is hijacked for the calls.               *)

ThreadAllocated ==
    /\ fg.pc = "thread_alloc"
    /\ tool' = [tool EXCEPT !["fg"] = IF @.ok THEN [@ EXCEPT !.pc = "seize", !.todo = {Main}, !.ok = FALSE] ELSE Idle]
    /\ UNCHANGED <<th, kernel, Tools>>

\* remoteSyscall and remoteCall of the injector, on the hijacked thread.  The first trusts
\* only a SIGTRAP stop; the second takes any stop for the return of the function called.
SyscallOutcomes == StepOutcomes(fg.cur, "fg")
CallOutcomes == StepOutcomes(fg.cur, "fg")

\* A thread parked in a syscall is passed over for one in user code.
Hijack ==
    /\ fg.pc = "seize" /\ fg.todo = {} /\ Main \in fg.held
    /\ \E t \in fg.held : tool' = [tool EXCEPT !["fg"].cur = t, !["fg"].pc = fg.kind]
    /\ UNCHANGED <<th, kernel, Tools>>

\* The path is mapped and written with a remote mmap; a step that stopped for something
\* else than the call yields no usable address, and the injection gives up.
MapPath ==
    /\ fg.pc = "inject"
    /\ \E o \in SyscallOutcomes :
         /\ signals' = signals + o.sig
         /\ pages' = IF o.exec THEN pages \cup {"path"} ELSE pages
         /\ Goto("fg", IF o.exec THEN "dlopen" ELSE "release")
    /\ th' = [th EXCEPT ![fg.cur] = Stepped(@)]
    /\ UNCHANGED <<page, patched, cause, Tools>>

\* remoteCall of dlopen: any stop counts as its return, and the registers are put back.
\* Success is what the maps show, not what dlopen returned.
CallDlopen ==
    /\ fg.pc = "dlopen"
    /\ \E o \in CallOutcomes, loads \in BOOLEAN :
         /\ signals' = signals + o.sig
         /\ pages' = IF o.exec /\ loads THEN pages \cup {"library"} ELSE pages
         /\ tool' = [tool EXCEPT !["fg"].pc = "munmap", !["fg"].ok = ("library" \in pages')]
    /\ th' = [th EXCEPT ![fg.cur] = Stepped(@)]
    /\ UNCHANGED <<page, patched, cause, Tools>>

\* The path is unmapped; a path the target cannot open is followed by the next candidate.
UnmapPath ==
    /\ fg.pc = "munmap"
    /\ \E o \in SyscallOutcomes :
         /\ signals' = signals + o.sig
         /\ pages' = IF o.exec THEN pages \ {"path"} ELSE pages
    /\ th' = [th EXCEPT ![fg.cur] = Stepped(@)]
    /\ tool' = [tool EXCEPT !["fg"].n = @ + 1,
                  !["fg"].pc = IF fg.ok \/ fg.n + 1 >= Candidates THEN "release" ELSE "inject"]
    /\ UNCHANGED <<page, patched, cause, Tools>>

\* pthread_create in the target, then pthread_tryjoin_np until it is done or late.
RunThread ==
    /\ fg.pc = "thread"
    /\ \E o \in CallOutcomes, c \in Threads :
         /\ signals' = signals + o.sig
         /\ th' = IF o.exec /\ th[c].life = "absent"
                  THEN [th EXCEPT ![fg.cur] = Stepped(@), ![c].life = "run"]
                  ELSE [th EXCEPT ![fg.cur] = Stepped(@)]
         /\ tool' = [tool EXCEPT !["fg"].pc = IF o.exec /\ th[c].life = "absent" THEN "thread_join" ELSE "release",
                                 !["fg"].n = c]
    /\ UNCHANGED <<page, pages, patched, cause, Tools>>

\* Each try is a call on the hijacked thread; sleeping 10 ms, up to the deadline.
TryJoin ==
    /\ fg.pc = "thread_join"
    /\ tool' = [tool EXCEPT !["fg"].pc = "release", !["fg"].ok = th[fg.n].life \in {"gone", "zombie"}]
    /\ UNCHANGED <<th, kernel, Tools>>

\* Every way out detaches the main thread and, through the guard, the siblings.
ReleaseAll ==
    /\ fg.pc = "release"
    /\ th' = [t \in Threads |-> IF t \in fg.held \cup {Main} /\ Stopped(t, "fg") THEN Freed(th[t]) ELSE th[t]]
    /\ tool' = [tool EXCEPT !["fg"] = IF fg.kind = "thread"
                  THEN [@ EXCEPT !.pc = "sys_seize", !.op = "free", !.ret = "idle", !.held = {}]
                  ELSE Idle]
    /\ UNCHANGED <<kernel, Tools>>

-----------------------------------------------------------------------------
Finder == \/ SeizedAll \/ ArmThread \/ Newborn \/ LeaveLoop \/ CleanThread \/ Release \/ Cleaned \/ End
          \/ \E w \in Threads : WatchHit(w) \/ PassOn(w) \/ PassFault(w) \/ CloneEvent(w) \/ Exited(w) \/ Fault(w)
          \/ ListPass \/ PassDone \/ GuardPage \/ Unprotect \/ StepStore \/ Reguard
Tracer == \/ RunToStart \/ Disarm \/ Freeze \/ FreezeWait \/ TraceStep \/ DetachAll
          \/ \E w \in Threads : TraceEvent(w)
Injector == \/ ThreadAllocated \/ Hijack \/ MapPath \/ CallDlopen \/ UnmapPath \/ RunThread \/ TryJoin \/ ReleaseAll \/ Joined
User == \/ Stop
        \/ \E k \in Finders : Start(k)
        \/ \E k \in Calls : Call(k)

Next == \/ Target \/ User \/ Finder \/ Tracer \/ Injector
        \/ \E x \in {"bg", "fg"} : RemoteSyscall(x) \/ Seize(x) \/ Interrupt(x) \/ HoldThread(x)

Spec == Init /\ [][Next]_vars

-----------------------------------------------------------------------------
(* Properties. *)

\* Once the worker and the GUI thread are through, every thread of the target runs,
\* untraced, with no watchpoint of a finder left in its debug registers, and no remote
\* syscall is left in its code.
LeftClean ==
    bg.pc = "idle" /\ fg.pc = "idle" =>
        /\ ~patched
        /\ \A t \in Listed : th[t].life = "run" /\ th[t].by = "none" /\ th[t].dr # "hw"

Watching == {"loop", "newborn", "unprotect", "step_store", "reguard"}

\* A hardware watchpoint never reaches the target as a trap nobody handles, and while the
\* software finder watches, no thread of the target dies of the guarded page: the seize
\* passes leave no thread untraced, whatever threads are created meanwhile, unless a SEIZE
\* failed on a thread that was not its own (another call of the program held it, or it had
\* ended, perhaps after creating a thread the pass did not list).  In a target with fewer
\* threads than passes; otherwise the last pass may still find a new one.
FindersHarmless ==
    [][cause = "none" => /\ cause' # "watchpoint"
                         /\ cause' = "guard" => bg.kind # "sw" \/ bg.pc \notin Watching \/ bg.failed]_vars

\* A hardware finder records a hit only for an access the target has made: other traps,
\* births, interrupts and signals are not counted.
HitsAreAccesses == bg.kind \in {"hw", "st"} => hits <= touches

=============================================================================
