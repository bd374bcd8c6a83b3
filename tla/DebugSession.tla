---------------------------- MODULE DebugSession ----------------------------
(***************************************************************************)
(* What the tracer thread of ce::DebugSession (debug/debug_session.cpp)    *)
(* does to the target: seizing every thread, the all-stop protocol,        *)
(* software breakpoints (int3 bytes in the text), hardware watchpoints,    *)
(* stepping, detaching.                                                    *)
(*                                                                         *)
(* The target and the kernel's ptrace are external: they are modelled from *)
(* the requests the code makes.  Each thread runs a loop of instructions;  *)
(* a text byte is the original code or an int3, and executing an int3 at a *)
(* stops the thread with its rip at a+1.  due[t] records where the thread  *)
(* would be without a debugger.  A stop is reported through ev[t] until    *)
(* waitpid takes it.                                                       *)
(*                                                                         *)
(* Moves selects what clients and target may do in an instance, so that a  *)
(* run can look at the protocol with or without a given disturbance.       *)
(***************************************************************************)
EXTENDS Naturals

CONSTANTS
    Threads,    \* every thread the target may ever have
    Initial,    \* the ones alive when the session attaches
    Main,       \* the thread group leader, pid_
    Code,       \* addresses of the target's instructions
    Flow,       \* Flow[a]: the instruction executed after the one at a
    DebugRegs,  \* debug registers (DR0-3)
    Moves       \* see above

AllMoves == {"clone", "signal", "exit", "runTo", "runAcross", "mutateRunning", "setRegs"}

ASSUME ConstantsAssumption ==
    /\ Main \in Initial /\ Initial \subseteq Threads
    /\ Code \subseteq Nat \ {0} /\ Flow \in [Code -> Code]
    /\ DebugRegs \subseteq Nat
    /\ Moves \subseteq AllMoves

VARIABLES
    \* the target
    st,         \* st[t]: scheduling state of thread t
    rip,        \* rip[t]: its instruction pointer
    due,        \* due[t]: where its program is
    ev,         \* ev[t]: status waitpid has not taken yet
    intr,       \* intr[t]: a trap is pending and stops t before it runs on
    child,      \* child[t]: the thread t cloned last (PTRACE_GETEVENTMSG)
    text,       \* text[a]: the byte at an instruction's first address
    dr,         \* dr[t]: debug registers armed in t
    \* the session
    tp,         \* where the tracer thread is
    cur,        \* the thread it waits for
    todo,       \* the threads its current loop has still to visit
    goal,       \* the address a run-to step is to stop at
    temp,       \* the byte saved under the temporary int3, "none" if not created
    lift,       \* the address whose int3 is lifted, NoAddr if none
    attached, stopped, active, traced, stoppedTids,
    soft,       \* soft[a]: originalByte of the breakpoint at a, "none" if no entry
    hw,         \* debug registers with an entry in hwBreakpoints_
    ctx,        \* stopContext_.rip
    excBreak    \* exceptionBreakSignals_ contains the signal

flow    == <<rip, due>>
kernel  == <<st, ev, intr>>
tables  == <<soft, hw, excBreak>>
scratch == <<cur, todo, goal, temp, lift>>
session == <<attached, stopped, active, traced, stoppedTids>>
vars == <<flow, kernel, child, text, dr, tp, scratch, session, tables, ctx>>

NoAddr == 0
Addrs  == Code \cup {a + 1 : a \in Code}

Alive   == {"run", "step", "stop", "free"}  \* "free": not traced
Bytes   == {"code", "int3"}
Traps   == {"trap", "hw", "clone"}          \* statuses whose signal is SIGTRAP
TracerStates ==
    {"off", "seize", "seizeWait", "loop", "cloneWait", "stop", "stopWait", "resume",
     "overWait", "stepWait", "runWait", "clean", "cleanWait", "done"}

TypeOK ==
    /\ st \in [Threads -> Alive \cup {"absent", "gone"}]
    /\ rip \in [Threads -> Addrs] /\ due \in [Threads -> Code]
    /\ ev \in [Threads -> Traps \cup {"none", "sig", "exit"}]
    /\ intr \in [Threads -> BOOLEAN]
    /\ child \in [Threads -> Threads]
    /\ text \in [Code -> Bytes]
    /\ dr \in [Threads -> SUBSET DebugRegs]
    /\ tp \in TracerStates
    /\ cur \in Threads /\ todo \subseteq Threads
    /\ goal \in Code \cup {NoAddr} /\ lift \in Code \cup {NoAddr}
    /\ temp \in Bytes \cup {"none"}
    /\ attached \in BOOLEAN /\ stopped \in BOOLEAN
    /\ active \in Threads
    /\ traced \subseteq Threads /\ stoppedTids \subseteq Threads
    /\ soft \in [Code -> Bytes \cup {"none"}]
    /\ hw \subseteq DebugRegs
    /\ ctx \in Addrs
    /\ excBreak \in BOOLEAN

\* Every thread starts at some instruction; Init lets TLC try each placement.
Init ==
    /\ st = [t \in Threads |-> IF t \in Initial THEN "free" ELSE "absent"]
    /\ due \in [Threads -> Code] /\ rip = due
    /\ \A t \in Threads \ Initial : due[t] = due[Main]
    /\ ev = [t \in Threads |-> "none"]
    /\ intr = [t \in Threads |-> FALSE]
    /\ child = [t \in Threads |-> t]
    /\ text = [a \in Code |-> "code"]
    /\ dr = [t \in Threads |-> {}]
    /\ tp = "off" /\ cur = Main /\ todo = {}
    /\ goal = NoAddr /\ temp = "none" /\ lift = NoAddr
    /\ attached = FALSE /\ stopped = FALSE /\ active = Main
    /\ traced = {} /\ stoppedTids = {}
    /\ soft = [a \in Code |-> "none"] /\ hw = {}
    /\ ctx = due[Main] /\ excBreak = FALSE
-----------------------------------------------------------------------------
(* The target (external) *)

Undisturbed == UNCHANGED <<tp, scratch, session, tables, ctx>>

\* A traced thread runs into an int3: SIGTRAP, rip one past the byte.
RunIntoInt3(t) ==
    /\ st[t] \in {"run", "step"}
    /\ rip[t] = due[t] /\ text[rip[t]] = "int3"
    /\ rip' = [rip EXCEPT ![t] = @ + 1]
    /\ st' = [st EXCEPT ![t] = "stop"]
    /\ ev' = [ev EXCEPT ![t] = "trap"]
    /\ UNCHANGED <<due, intr, child, text, dr>> /\ Undisturbed

\* A thread executes one instruction. A single step then traps, a watched
\* access may. A thread that left its program (rip # due) is not followed.
Execute(t) ==
    /\ st[t] \in {"run", "step", "free"}
    /\ rip[t] = due[t] /\ text[rip[t]] = "code"
    /\ due' = [due EXCEPT ![t] = Flow[@]]
    /\ rip' = [rip EXCEPT ![t] = Flow[@]]
    /\ \/ /\ st[t] # "step"
          /\ UNCHANGED <<st, ev>>
       \/ /\ st[t] = "step"
          /\ st' = [st EXCEPT ![t] = "stop"]
          /\ ev' = [ev EXCEPT ![t] = "trap"]
       \/ /\ st[t] \in {"run", "step"} /\ dr[t] # {}
          /\ st' = [st EXCEPT ![t] = "stop"]
          /\ ev' = [ev EXCEPT ![t] = "hw"]
    /\ UNCHANGED <<intr, child, text, dr>> /\ Undisturbed

\* A running thread notices PTRACE_INTERRUPT.
TakeInterrupt(t) ==
    /\ st[t] \in {"run", "step"} /\ intr[t]
    /\ st' = [st EXCEPT ![t] = "stop"]
    /\ ev' = [ev EXCEPT ![t] = "trap"]
    /\ intr' = [intr EXCEPT ![t] = FALSE]
    /\ UNCHANGED <<flow, child, text, dr>> /\ Undisturbed

\* A signal other than SIGTRAP is about to be delivered.
Signal(t) ==
    /\ "signal" \in Moves
    /\ st[t] \in {"run", "step"}
    /\ st' = [st EXCEPT ![t] = "stop"]
    /\ ev' = [ev EXCEPT ![t] = "sig"]
    /\ UNCHANGED <<flow, intr, child, text, dr>> /\ Undisturbed

\* clone(): under PTRACE_O_TRACECLONE the parent stops with the event and the
\* new thread is traced, with a stop pending; their two stops come in any order.
Clone(t, new) ==
    /\ "clone" \in Moves
    /\ st[new] = "absent" /\ rip[t] = due[t] /\ text[rip[t]] = "code"
    /\ due' = [due EXCEPT ![t] = Flow[@], ![new] = Flow[due[t]]]
    /\ rip' = [rip EXCEPT ![t] = Flow[@], ![new] = Flow[rip[t]]]
    /\ child' = [child EXCEPT ![t] = new]
    /\ \/ /\ st[t] \in {"run", "step"}
          /\ st' = [st EXCEPT ![t] = "stop", ![new] = "run"]
          /\ ev' = [ev EXCEPT ![t] = "clone"]
          /\ intr' = [intr EXCEPT ![new] = TRUE]
       \/ /\ st[t] = "free"
          /\ st' = [st EXCEPT ![new] = "free"]
          /\ UNCHANGED <<ev, intr>>
    /\ UNCHANGED <<text, dr>> /\ Undisturbed

\* exit_group(), or a fatal signal: every thread ends, stopped ones included.
Exit ==
    /\ "exit" \in Moves
    /\ \E t \in Threads : st[t] \in {"run", "step", "free"}
    /\ st' = [t \in Threads |-> IF st[t] \in Alive THEN "gone" ELSE st[t]]
    /\ ev' = [t \in Threads |-> IF st[t] \in Alive \ {"free"} THEN "exit" ELSE ev[t]]
    /\ intr' = [t \in Threads |-> FALSE]
    /\ UNCHANGED <<flow, child, text, dr>> /\ Undisturbed
-----------------------------------------------------------------------------
(* ptrace and waitpid as the code uses them (external) *)

\* PTRACE_CONT or PTRACE_SINGLESTEP of each thread of ts; a thread that is not
\* stopped gives ESRCH. A pending trap stops a thread before it runs on. status
\* is ev, less what the same action has just taken from waitpid.
Resume(ts, how, status) ==
    LET able(t) == t \in ts /\ st[t] = "stop" IN
    /\ st' = [t \in Threads |-> IF able(t) /\ ~intr[t] THEN how ELSE st[t]]
    /\ ev' = [t \in Threads |->
                IF able(t) THEN (IF intr[t] THEN "trap" ELSE "none") ELSE status[t]]
    /\ intr' = [t \in Threads |-> intr[t] /\ ~able(t)]

Traceable(t) == st[t] \in Alive \/ ev[t] # "none"

\* Mutant: wait for the thread without having interrupted it.
InterruptForgotten(t) == UNCHANGED kernel

\* PTRACE_INTERRUPT of a thread that has not been reaped.
Interrupt(t) ==
    /\ intr' = [intr EXCEPT ![t] = st[t] # "gone"]
    /\ UNCHANGED <<st, ev>>

\* waitpid has a status for t. The leader's exit is held back until every other
\* thread of the group has been reaped.
Reportable(t) ==
    /\ ev[t] # "none"
    /\ t = Main /\ ev[t] = "exit" => \A u \in Threads \ {Main} : ev[u] # "exit"

\* waitpid(t) returns: a status, or ECHILD.
WaitReturns(t) == Reportable(t) \/ (ev[t] = "none" /\ st[t] = "gone")

Reap(t) == ev' = [ev EXCEPT ![t] = "none"]

\* pokeByte goes through the leader, which must be ptrace-stopped.
CanPoke == st[Main] = "stop"

Poked(mem, a, b) == IF CanPoke /\ a # NoAddr THEN [mem EXCEPT ![a] = b] ELSE mem

\* Mutant: the cached context is not refreshed.
CaptureRegsSkipped(t, regs) == UNCHANGED ctx

\* GETREGS into stopContext_; it fails on a thread that is not stopped.
CaptureRegs(t, regs) == ctx' = IF st[t] = "stop" THEN regs[t] ELSE ctx

Armed(a) == a \in Code /\ soft[a] # "none"
-----------------------------------------------------------------------------
(* seizeAllThreads *)

\* attach() has started the tracer thread, which lists the target's threads.
StartTracer ==
    /\ tp = "off"
    /\ todo' = {t \in Threads : st[t] = "free"}
    /\ tp' = "seize"
    /\ UNCHANGED <<flow, kernel, child, text, dr, cur, goal, temp, lift,
                   session, tables, ctx>>

\* SEIZE and INTERRUPT one listed thread; one that is gone is skipped.
SeizeOne(t) ==
    /\ tp = "seize" /\ t \in todo
    /\ \/ /\ st[t] = "free"
          /\ st' = [st EXCEPT ![t] = "run"]
          /\ intr' = [intr EXCEPT ![t] = TRUE]
          /\ cur' = t /\ tp' = "seizeWait"
          /\ UNCHANGED todo
       \/ /\ st[t] # "free"
          /\ todo' = todo \ {t}
          /\ UNCHANGED <<st, intr, cur, tp>>
    /\ UNCHANGED <<flow, ev, child, text, dr, goal, temp, lift, session, tables, ctx>>

SeizeWait ==
    /\ tp = "seizeWait" /\ WaitReturns(cur)
    /\ Reap(cur)
    /\ traced' = traced \cup {cur}
    /\ stoppedTids' = stoppedTids \cup {cur}
    /\ todo' = todo \ {cur}
    /\ tp' = "seize"
    /\ UNCHANGED <<flow, st, intr, child, text, dr, cur, goal, temp, lift,
                   attached, stopped, active, tables, ctx>>

\* All listed threads done: attach() succeeds unless none could be seized.
SeizeDone ==
    /\ tp = "seize" /\ todo = {}
    /\ \/ /\ traced = {}
          /\ tp' = "done"
          /\ UNCHANGED <<attached, stopped, active, ctx>>
       \/ /\ traced # {}
          /\ attached' = TRUE /\ stopped' = TRUE /\ active' = Main
          /\ CaptureRegs(Main, rip)
          /\ tp' = "loop"
    /\ UNCHANGED <<flow, kernel, child, text, dr, scratch, traced, stoppedTids, tables>>
-----------------------------------------------------------------------------
(* handleStop: the target runs and the loop polls waitpid(-1) *)

Polling == tp = "loop" /\ attached /\ ~stopped

\* ECHILD: nothing is left to wait for.
PollNothingLeft ==
    /\ Polling
    /\ \A t \in Threads : ev[t] = "none" /\ st[t] \notin {"run", "step", "stop"}
    /\ attached' = FALSE
    /\ UNCHANGED <<flow, kernel, child, text, dr, tp, scratch, stopped, active, traced,
                   stoppedTids, tables, ctx>>

\* A thread, or with the leader or the last thread the process, has exited.
HandleExit(t) ==
    /\ Polling /\ Reportable(t) /\ ev[t] = "exit"
    /\ Reap(t)
    /\ traced' = traced \ {t} /\ stoppedTids' = stoppedTids \ {t}
    /\ attached' = ~(t = Main \/ traced' = {})
    /\ UNCHANGED <<flow, st, intr, child, text, dr, tp, scratch, stopped, active, tables, ctx>>

\* PTRACE_EVENT_CLONE: block in waitpid for the new thread's first stop.
HandleClone(t) ==
    /\ Polling /\ ev[t] = "clone"
    /\ Reap(t)
    /\ cur' = t /\ tp' = "cloneWait"
    /\ UNCHANGED <<flow, st, intr, child, text, dr, todo, goal, temp, lift,
                   session, tables, ctx>>

\* Mutant: the new thread is also recorded as stopped.
CloneWaitMarkedStopped ==
    /\ tp = "cloneWait" /\ WaitReturns(child[cur])
    /\ traced' = traced \cup {child[cur]}
    /\ stoppedTids' = stoppedTids \cup {child[cur]}
    /\ Resume({cur, child[cur]}, "run", [ev EXCEPT ![child[cur]] = "none"])
    /\ tp' = "loop"
    /\ UNCHANGED <<flow, child, text, dr, scratch, attached, stopped, active, tables, ctx>>

\* Whatever the new thread's status was, trace it and resume it and its parent.
CloneWait ==
    /\ tp = "cloneWait" /\ WaitReturns(child[cur])
    /\ traced' = traced \cup {child[cur]}
    /\ Resume({cur, child[cur]}, "run", [ev EXCEPT ![child[cur]] = "none"])
    /\ tp' = "loop"
    /\ UNCHANGED <<flow, child, text, dr, scratch, attached, stopped, active,
                   stoppedTids, tables, ctx>>

\* The threads stopOtherThreads(t) has to freeze.
Others(t) == traced \ (stoppedTids \cup {t})

\* The stop is reported to the user: t is the active thread, and the others are
\* frozen before stopped_ is set and the registers are captured.
StopTheWorld(t) ==
    /\ Reap(t)
    /\ active' = t
    /\ stoppedTids' = stoppedTids \cup {t}
    /\ todo' = Others(t)
    /\ tp' = "stop"
    /\ UNCHANGED <<due, st, intr, child, text, dr, cur, goal, temp, lift,
                   attached, stopped, traced, tables, ctx>>

IsWatchHit(t) == ev[t] = "hw" /\ hw # {}

HandleWatchHit(t) ==
    /\ Polling /\ IsWatchHit(t)
    /\ StopTheWorld(t)
    /\ UNCHANGED rip

\* Mutant: rewind by two.
HandleBreakpointHitTooFar(t) ==
    /\ Polling /\ ev[t] \in {"trap", "hw"} /\ ~IsWatchHit(t)
    /\ Armed(rip[t] - 1)
    /\ rip' = [rip EXCEPT ![t] = @ - 2]
    /\ StopTheWorld(t)

\* SIGTRAP with rip one past an armed int3: rewind and stop.
HandleBreakpointHit(t) ==
    /\ Polling /\ ev[t] \in {"trap", "hw"} /\ ~IsWatchHit(t)
    /\ Armed(rip[t] - 1)
    /\ rip' = [rip EXCEPT ![t] = @ - 1]
    /\ StopTheWorld(t)

HandleException(t) ==
    /\ Polling /\ ev[t] = "sig" /\ excBreak
    /\ StopTheWorld(t)
    /\ UNCHANGED rip

\* A SIGTRAP that is not ours is dropped, another signal is delivered: run on.
HandleOther(t) ==
    /\ Polling
    /\ \/ ev[t] \in {"trap", "hw"} /\ ~IsWatchHit(t) /\ ~Armed(rip[t] - 1)
       \/ ev[t] = "sig" /\ ~excBreak
    /\ Resume({t}, "run", ev)
    /\ UNCHANGED <<flow, child, text, dr, tp, scratch, session, tables, ctx>>
-----------------------------------------------------------------------------
(* stopOtherThreads *)

StopOne(t) ==
    /\ tp = "stop" /\ t \in todo
    /\ \/ /\ Traceable(t)
          /\ Interrupt(t)
          /\ cur' = t /\ tp' = "stopWait"
          /\ UNCHANGED todo
       \/ /\ ~Traceable(t)
          /\ todo' = todo \ {t}
          /\ UNCHANGED <<kernel, cur, tp>>
    /\ UNCHANGED <<flow, child, text, dr, goal, temp, lift, session, tables, ctx>>

\* Mutant: the interrupted thread's rip is left alone.
RewoundNot(t) == rip

\* A thread whose status is a SIGTRAP and that sits past an armed int3 is put back.
Rewound(t) ==
    IF ev[t] \in Traps /\ Armed(rip[t] - 1) THEN [rip EXCEPT ![t] = @ - 1] ELSE rip

\* The thread has stopped: rewind it and count it.
StopWait ==
    /\ tp = "stopWait" /\ WaitReturns(cur)
    /\ rip' = Rewound(cur)
    /\ Reap(cur)
    /\ stoppedTids' = stoppedTids \cup {cur}
    /\ todo' = todo \ {cur}
    /\ tp' = "stop"
    /\ UNCHANGED <<due, st, intr, child, text, dr, cur, goal, temp, lift,
                   attached, stopped, active, traced, tables, ctx>>

\* The world is frozen: publish the stop and call the event callback. A callback
\* that continues or detaches inline does what the commands below do.
StopDone ==
    /\ tp = "stop" /\ todo = {}
    /\ stopped' = TRUE
    /\ CaptureRegs(active, rip)
    /\ tp' = "loop"
    /\ UNCHANGED <<flow, kernel, child, text, dr, scratch, attached, active, traced,
                   stoppedTids, tables>>
-----------------------------------------------------------------------------
(* Commands, performed by the tracer thread at the top of its loop *)

Ready == tp = "loop" /\ attached

\* doContinue: nothing happens unless the target is stopped.
Continue ==
    /\ Ready /\ stopped
    /\ todo' = traced
    /\ tp' = "resume"
    /\ UNCHANGED <<flow, kernel, child, text, dr, cur, goal, temp, lift,
                   session, tables, ctx>>

\* stepThreadOverBp(t) for a thread stopped on an armed int3: lift the byte and
\* single-step; the tracer goes on in state `next` once waitpid returns.
StepOverBp(t, next) ==
    /\ text' = Poked(text, rip[t], soft[rip[t]])
    /\ Resume({t}, "step", ev)
    /\ cur' = t /\ lift' = rip[t] /\ tp' = next

OnBreakpoint(t) == st[t] = "stop" /\ Armed(rip[t])

\* resumeAllThreads, phase 1.
ResumeOne(t) ==
    /\ tp = "resume" /\ t \in todo
    /\ \/ /\ OnBreakpoint(t)
          /\ StepOverBp(t, "overWait")
          /\ UNCHANGED todo
       \/ /\ ~OnBreakpoint(t)
          /\ todo' = todo \ {t}
          /\ UNCHANGED <<kernel, text, cur, lift, tp>>
    /\ UNCHANGED <<flow, child, dr, goal, temp, session, tables, ctx>>

\* Re-arm the lifted byte if the breakpoint is still in the table.
Rearmed(mem) == IF Armed(lift) THEN Poked(mem, lift, "int3") ELSE mem

OverWait ==
    /\ tp = "overWait" /\ WaitReturns(cur)
    /\ Reap(cur)
    /\ text' = Rearmed(text) /\ lift' = NoAddr
    /\ todo' = todo \ {cur}
    /\ tp' = "resume"
    /\ UNCHANGED <<flow, st, intr, child, dr, cur, goal, temp, session, tables, ctx>>

\* resumeAllThreads, phase 2, and stopped_ = false.
ResumeDone ==
    /\ tp = "resume" /\ todo = {}
    /\ Resume(traced, "run", ev)
    /\ stoppedTids' = {} /\ stopped' = FALSE
    /\ tp' = "loop"
    /\ UNCHANGED <<flow, child, text, dr, scratch, attached, active, traced, tables, ctx>>

\* doStep, StepMode::Into (and Over, on an instruction that is not a call).
StepInto ==
    /\ Ready /\ stopped
    /\ \/ OnBreakpoint(active) /\ StepOverBp(active, "stepWait")
       \/ /\ ~OnBreakpoint(active)
          /\ Resume({active}, "step", ev)
          /\ cur' = active /\ tp' = "stepWait"
          /\ UNCHANGED <<text, lift>>
    /\ UNCHANGED <<flow, child, dr, todo, goal, temp, session, tables, ctx>>

StepWait ==
    /\ tp = "stepWait" /\ WaitReturns(cur)
    /\ Reap(cur)
    /\ text' = Rearmed(text) /\ lift' = NoAddr
    /\ stopped' = TRUE /\ CaptureRegs(cur, rip)
    /\ tp' = "loop"
    /\ UNCHANGED <<flow, st, intr, child, dr, cur, todo, goal, temp, attached, active,
                   traced, stoppedTids, tables>>

\* doStep, StepMode::Over (on a call), Out and RunToCursor: lift the int3 the
\* thread sits on, plant a temporary one at the target unless a breakpoint is
\* there, and let only this thread run. Clients ask for another address than the
\* current one, and only "runAcross" lets other breakpoints be in the way.
RunTo(a) ==
    /\ Ready /\ stopped /\ "runTo" \in Moves
    /\ st[active] = "stop" /\ a # rip[active]
    /\ "runAcross" \in Moves \/ \A b \in Code \ {a, rip[active]} : soft[b] = "none"
    /\ LET here   == IF Armed(rip[active]) THEN rip[active] ELSE NoAddr
           lifted == IF here = NoAddr THEN text ELSE Poked(text, here, soft[here])
           plant  == ~Armed(a) /\ CanPoke
       IN  /\ lift' = here
           /\ temp' = IF plant THEN lifted[a] ELSE "none"
           /\ text' = IF plant THEN Poked(lifted, a, "int3") ELSE lifted
    /\ goal' = a
    /\ Resume({active}, "run", ev)
    /\ cur' = active /\ tp' = "runWait"
    /\ UNCHANGED <<flow, child, dr, todo, session, tables, ctx>>

\* clearTemp: the byte under the temporary int3 is written back.
ClearTemp(mem) == IF temp # "none" THEN Poked(mem, goal, temp) ELSE mem

\* waitpid returns: rewindOverBreakpoint, clearTemp, re-arm, report.
RunWait ==
    /\ tp = "runWait" /\ WaitReturns(cur)
    /\ rip' = IF st[cur] = "stop" /\ rip[cur] = goal + 1
              THEN [rip EXCEPT ![cur] = goal] ELSE rip
    /\ Reap(cur)
    /\ text' = Rearmed(ClearTemp(text))
    /\ lift' = NoAddr /\ temp' = "none" /\ goal' = NoAddr
    /\ stopped' = TRUE /\ CaptureRegs(cur, rip')
    /\ tp' = "loop"
    /\ UNCHANGED <<due, st, intr, child, dr, cur, todo, attached, active, traced,
                   stoppedTids, tables>>

\* The tables may be changed whenever a command is taken; clients of a run
\* without "mutateRunning" only do so while the target is stopped.
Mutating == Ready /\ (stopped \/ "mutateRunning" \in Moves)

\* doSetSoftBp: an address in the table keeps its entry, a failed poke adds none.
SetSoftBp(a) ==
    /\ Mutating /\ ~Armed(a) /\ CanPoke
    /\ soft' = [soft EXCEPT ![a] = text[a]]
    /\ text' = Poked(text, a, "int3")
    /\ UNCHANGED <<flow, kernel, child, dr, tp, scratch, session, hw, excBreak, ctx>>

\* doRemoveSoftBp: the entry goes whether or not the byte could be restored.
RemoveSoftBp(a) ==
    /\ Mutating /\ Armed(a)
    /\ text' = Poked(text, a, soft[a])
    /\ soft' = [soft EXCEPT ![a] = "none"]
    /\ UNCHANGED <<flow, kernel, child, dr, tp, scratch, session, hw, excBreak, ctx>>

\* Debug registers can only be written in a stopped thread.
StoppedTraced == {t \in traced : st[t] = "stop"}

\* doSetHwBp: the first register without an entry, on every traced thread.
SetHwBp(r) ==
    /\ Mutating
    /\ r \in DebugRegs \ hw /\ \A q \in DebugRegs \ hw : r <= q
    /\ dr' = [t \in Threads |-> IF t \in StoppedTraced THEN dr[t] \cup {r} ELSE dr[t]]
    /\ hw' = hw \cup {r}
    /\ UNCHANGED <<flow, kernel, child, text, tp, scratch, session, soft, excBreak, ctx>>

\* Mutant: the registers stay armed.
DisarmedNot(rs) == dr

Disarmed(rs) == [t \in Threads |-> IF t \in StoppedTraced THEN dr[t] \ rs ELSE dr[t]]

RemoveHwBp(r) ==
    /\ Mutating /\ r \in hw
    /\ dr' = Disarmed({r})
    /\ hw' = hw \ {r}
    /\ UNCHANGED <<flow, kernel, child, text, tp, scratch, session, soft, excBreak, ctx>>

SelectThread(t) ==
    /\ Ready /\ t \in stoppedTids
    /\ active' = t
    /\ CaptureRegs(t, rip)
    /\ UNCHANGED <<flow, kernel, child, text, dr, tp, scratch, attached, stopped, traced,
                   stoppedTids, tables>>

\* doSetRegs: the user moves the active thread to another instruction.
SetRegs(a) ==
    /\ Ready /\ stopped /\ "setRegs" \in Moves
    /\ st[active] = "stop"
    /\ rip' = [rip EXCEPT ![active] = a] /\ due' = [due EXCEPT ![active] = a]
    /\ CaptureRegs(active, rip')
    /\ UNCHANGED <<kernel, child, text, dr, tp, scratch, session, tables>>

\* addExceptionBreakpoint / removeExceptionBreakpoint, on any thread.
ToggleExceptionBreakpoint ==
    /\ "signal" \in Moves /\ attached
    /\ excBreak' = ~excBreak
    /\ UNCHANGED <<flow, kernel, child, text, dr, tp, scratch, session, soft, hw, ctx>>

\* detach(), on any thread and at any moment.
Detach ==
    /\ attached
    /\ attached' = FALSE
    /\ UNCHANGED <<flow, kernel, child, text, dr, tp, scratch, stopped, active, traced,
                   stoppedTids, tables, ctx>>
-----------------------------------------------------------------------------
(* tracerCleanup *)

StartCleanup ==
    /\ tp = "loop" /\ ~attached
    /\ todo' = traced \ stoppedTids
    /\ tp' = "clean"
    /\ UNCHANGED <<flow, kernel, child, text, dr, cur, goal, temp, lift,
                   session, tables, ctx>>

\* Mutant: wait for a running thread without interrupting it.
CleanOneNoInterrupt(t) ==
    /\ tp = "clean" /\ t \in todo
    /\ cur' = t /\ tp' = "cleanWait"
    /\ UNCHANGED <<flow, kernel, child, text, dr, todo, goal, temp, lift,
                   session, tables, ctx>>

CleanOne(t) ==
    /\ tp = "clean" /\ t \in todo
    /\ \/ /\ Traceable(t)
          /\ Interrupt(t)
          /\ cur' = t /\ tp' = "cleanWait"
          /\ UNCHANGED todo
       \/ /\ ~Traceable(t)
          /\ todo' = todo \ {t}
          /\ UNCHANGED <<kernel, cur, tp>>
    /\ UNCHANGED <<flow, child, text, dr, goal, temp, lift, session, tables, ctx>>

CleanWait ==
    /\ tp = "cleanWait" /\ WaitReturns(cur)
    /\ Reap(cur)
    /\ todo' = todo \ {cur}
    /\ tp' = "clean"
    /\ UNCHANGED <<flow, st, intr, child, text, dr, cur, goal, temp, lift,
                   session, tables, ctx>>

\* Every breakpoint's original byte is written back.
Restored == [a \in Code |-> IF CanPoke /\ Armed(a) THEN soft[a] ELSE text[a]]

\* Restore the text, disarm, PTRACE_DETACH. The end of the tracer thread lets go
\* of every thread it still traced.
CleanDone ==
    /\ tp = "clean" /\ todo = {}
    /\ text' = Restored
    /\ soft' = [a \in Code |-> "none"]
    /\ dr' = Disarmed(hw) /\ hw' = {}
    /\ st' = [t \in Threads |-> IF st[t] \in Alive THEN "free" ELSE st[t]]
    /\ ev' = [t \in Threads |-> "none"] /\ intr' = [t \in Threads |-> FALSE]
    /\ traced' = {} /\ stoppedTids' = {} /\ stopped' = FALSE
    /\ tp' = "done"
    /\ UNCHANGED <<flow, child, scratch, attached, active, excBreak, ctx>>
-----------------------------------------------------------------------------
ThreadStep(t) ==
    \/ RunIntoInt3(t) \/ Execute(t) \/ TakeInterrupt(t) \/ Signal(t)
    \/ \E new \in Threads : Clone(t, new)

\* What the tracer thread does without being asked to.
TracerStep ==
    \/ StartTracer \/ SeizeWait \/ SeizeDone \/ PollNothingLeft \/ CloneWait
    \/ StopWait \/ StopDone \/ OverWait \/ ResumeDone \/ StepWait \/ RunWait
    \/ StartCleanup \/ CleanWait \/ CleanDone
    \/ \E t \in Threads :
        \/ SeizeOne(t) \/ StopOne(t) \/ ResumeOne(t) \/ CleanOne(t)
        \/ HandleExit(t) \/ HandleClone(t) \/ HandleWatchHit(t)
        \/ HandleBreakpointHit(t) \/ HandleException(t) \/ HandleOther(t)

Command ==
    \/ Continue \/ StepInto \/ ToggleExceptionBreakpoint \/ Detach
    \/ \E a \in Code : RunTo(a) \/ SetSoftBp(a) \/ RemoveSoftBp(a) \/ SetRegs(a)
    \/ \E r \in DebugRegs : SetHwBp(r) \/ RemoveHwBp(r)
    \/ \E t \in Threads : SelectThread(t)

Next == TracerStep \/ Command \/ Exit \/ \E t \in Threads : ThreadStep(t)

Spec == Init /\ [][Next]_vars

\* The tracer thread runs, and the kernel stops a thread that PTRACE_INTERRUPT asks to
\* stop. A thread need never get anywhere by itself: it may sit in a system call or
\* never reach the goal of a step. No command, signal, clone or exit need come.
FairSpec ==
    /\ Spec /\ WF_vars(TracerStep)
    /\ \A t \in Threads : WF_vars(TakeInterrupt(t))
-----------------------------------------------------------------------------
(* Properties *)

\* No int3, temporary int3, rewind or step ever makes a traced thread run from
\* another place than its program has reached (rewinds in handleStop,
\* stopOtherThreads and doStep; the byte lifted and re-armed around a step).
Transparent ==
    \A t \in Threads : st[t] \in {"run", "step"} => rip[t] = due[t]

\* While the session reports a stop, no thread it traces runs (stopOtherThreads).
TracedFrozen ==
    tp = "loop" /\ stopped => \A t \in traced : st[t] \in {"stop", "gone"}

\* No trap is stray: between two operations the int3 bytes in the text are exactly the
\* armed breakpoints (no lifted byte is forgotten, no temporary one left behind), and a
\* target that survives the session keeps no int3 and no armed debug register, either
\* of which would kill it (step over, run to, tracerCleanup).
NoStrayTraps ==
    /\ tp = "loop" /\ CanPoke => \A a \in Code : text[a] = "int3" <=> soft[a] # "none"
    /\ tp = "done" /\ st[Main] = "free" =>
        /\ \A a \in Code : text[a] = "code"
        /\ \A t \in Threads : st[t] = "free" => dr[t] = {}

\* The registers shown are those of the active thread as it will resume.
ContextCurrent ==
    tp = "loop" /\ stopped /\ st[active] = "stop" => ctx = rip[active]

\* doStep and stepThreadOverBp wait for a thread they have let go, and it has not
\* stopped yet: only the target can end this wait.
UpToTheTarget == tp \in {"overWait", "stepWait", "runWait"} /\ ~WaitReturns(cur)

\* Whatever the tracer has begun (an attach, a stop, a resume, a step, a cleanup) it
\* ends, and is back at its loop where it sees commands and detach, unless it waits for
\* the thread of a step, which may take for ever. Every other wait is for a thread that
\* was interrupted first. Of a target that neither clones nor exits meanwhile: see
\* HandleClone and Reportable.
TracerReturns == (tp # "done") ~> (tp \in {"loop", "done"} \/ UpToTheTarget)

\* Once the loop finds that detach() was called, the tracer thread ends, interrupting
\* whatever still runs, and the caller's join returns. A detach during a step is found
\* only when the step has ended.
DetachEnds == (tp = "loop" /\ ~attached) ~> (tp = "done")
=============================================================================
