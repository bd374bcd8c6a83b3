------------------------- MODULE PtraceToolsProofs -------------------------
(***************************************************************************)
(* Proofs about PtraceTools, for any number of threads, any mix of tools   *)
(* and calls and any number of signals and accesses: the state is well     *)
(* typed; when the worker and the GUI thread are through, nothing of them  *)
(* is left in the target; a hardware finder counts accesses the target has *)
(* made; and no watchpoint and no guarded page kills the target.           *)
(***************************************************************************)
EXTENDS PtraceTools, FiniteSetTheorems, WellFoundedInduction, TLAPS

Lives == {"absent", "run", "stop", "zombie", "gone"}
Whys  == {"none", "intr", "hit", "near", "fault", "start", "clone", "born", "signal"}
ThreadType == [life : Lives, by : {"none", "bg", "fg"}, why : Whys, unread : BOOLEAN,
               intr : BOOLEAN, dr : {"none", "hw", "trace"}, child : Threads]

\* The remote syscall, and the part of it in which its tool traces the main thread.
InnerSys == {"sys_interrupt", "sys_wait", "sys_step", "sys_restore"}
Sys      == InnerSys \cup {"sys_seize"}
\* From the first seizing to the end of the watching.
Early    == {"seize", "interrupt", "await"}
Poll     == {"loop", "newborn"}
SwPoll   == {"unprotect", "step_store", "reguard"}
Cleaning == {"clean", "clean_wait"}
Tracing  == {"trace_run", "trace_wait", "disarm", "freeze", "freeze_wait", "detach_all"}
Keeping  == Early \cup Poll \cup SwPoll \cup {"sw_list"}
Hijacked == {"inject", "dlopen", "munmap", "thread", "thread_join"}

WorkerPcs == {"idle", "sw_list", "end"} \cup Sys \cup Early \cup Poll \cup SwPoll \cup Cleaning \cup Tracing
CallerPcs == {"idle", "join", "thread_alloc", "release"} \cup Sys \cup Early \cup Hijacked

ToolType == [kind : {"none", "hw", "st", "sw", "trace", "alloc", "free", "protect", "inject", "thread"},
             pc : WorkerPcs \cup CallerPcs, todo : SUBSET Threads, held : SUBSET Threads,
             cur : Threads, n : Nat,
             op : {"none", "alloc", "free", "protect", "inject", "thread"},
             ret : {"idle", "sw_list", "end", "seize", "sys_seize", "thread_alloc"},
             ok : BOOLEAN, failed : BOOLEAN]

TypeOK ==
    /\ th \in [Threads -> ThreadType]
    /\ page \in {"orig", "guard"} /\ pages \subseteq {"bg", "fg", "path", "library"}
    /\ patched \in BOOLEAN
    /\ tool \in [{"bg", "fg"} -> ToolType]
    /\ stop \in BOOLEAN /\ hits \in Nat /\ touches \in Nat /\ signals \in Nat
    /\ uses \in [start : Nat, call : Nat]
    /\ cause \in {"none", "guard", "watchpoint", "start", "exit"}

Live(r) == r.life \in {"run", "stop"}

\* What holds of a thread by itself: an untraced one is not stopped and has nothing to
\* report, and the kinds of stop only the worker's threads take are the worker's.
Sane(r) ==
    /\ r.by = "none" => r.life \in {"absent", "run", "gone"}
    /\ r.life = "absent" => r.by = "none" /\ r.dr = "none"
    /\ r.unread => r.life \in {"stop", "zombie"}
    /\ r.life = "stop" /\ r.why \in {"hit", "clone"} => r.by = "bg"
SaneInv == \A t \in Threads : Sane(th[t])

\* Where the worker is, and of which kind it is.
WorkerInv ==
    /\ bg.pc \in WorkerPcs
    /\ bg.kind \in {"none", "hw", "st", "sw", "trace"}
    /\ bg.pc \in Sys => bg.kind = "sw" /\ bg.ret \in {"sw_list", "end"}
    /\ bg.pc \in Sys /\ bg.ret = "sw_list" => bg.held = {} /\ bg.n = 0
    /\ bg.pc \in SwPoll \cup {"sw_list"} => bg.kind = "sw"
    /\ bg.pc \in Tracing => bg.kind = "trace"
    /\ bg.pc \in Poll \cup Cleaning => bg.kind \in {"hw", "st", "sw"}
    /\ bg.pc \in Early => bg.kind # "none"
    /\ bg.pc = "interrupt" => bg.kind # "sw"

\* Where the GUI thread is.
CallerInv ==
    /\ fg.pc \in CallerPcs
    /\ fg.kind \in {"none", "alloc", "free", "protect", "inject", "thread"}
    /\ fg.pc \in Sys => fg.ret \in {"idle", "thread_alloc"}
    /\ fg.pc = "join" => fg.kind = "none" \/ fg.ret = "sys_seize" \/ (fg.ret = "seize" /\ fg.kind = "inject")
    /\ fg.pc \in Early \cup Hijacked \cup {"release"} => fg.kind \in {"inject", "thread"}
    /\ fg.pc \in Sys \cup {"idle", "join", "thread_alloc"} => fg.held = {}
    /\ fg.ret = "thread_alloc" => fg.kind = "thread"
    /\ fg.pc = "thread_alloc" => fg.kind = "thread"

\* A tool inside a remote syscall traces the main thread; the main thread is stopped
\* while its code is overwritten.
SysOf(x) == tool[x].pc \in InnerSys =>
    /\ th[Main].by = x
    /\ tool[x].pc \in {"sys_step", "sys_restore"} => th[Main].life # "run"
PatchInv == patched => bg.pc = "sys_restore" \/ fg.pc = "sys_restore"
SysInv == SysOf("bg") /\ SysOf("fg") /\ PatchInv

\* The threads the worker holds or deals with are its own until it cleans up.
OwnInv ==
    /\ \A t \in Threads : th[t].by = "bg" => bg.pc # "idle"
    /\ \A t \in bg.held : th[t].life # "absent"
    /\ bg.pc \in Sys /\ bg.ret = "sw_list" =>
         \A t \in Threads : th[t].by = "bg" => t = Main /\ bg.pc \in InnerSys
    /\ bg.pc \in Keeping => \A t \in bg.held : Live(th[t]) => th[t].by = "bg"
    /\ bg.pc \in {"interrupt", "await", "clean_wait"} => th[bg.cur].by = "bg"

\* The thread a clone event announces is the worker's.
ChildInv ==
    /\ bg.pc \in Keeping =>
         \A w \in Threads : th[w].life = "stop" /\ th[w].why = "clone" => th[th[w].child].by = "bg"
    /\ bg.pc = "newborn" => th[th[bg.cur].child].by = "bg"
    /\ bg.pc \in Sys /\ bg.ret = "sw_list" =>
         \A w \in Threads : ~(th[w].life = "stop" /\ th[w].why = "clone")

\* Where the worker keeps the threads it has armed.
Place(b) == IF b.pc \in Early \cup Poll THEN b.held
            ELSE IF b.pc = "clean" THEN b.todo
            ELSE IF b.pc = "clean_wait" THEN b.todo \cup {b.cur} ELSE {}

\* An armed watchpoint is in a thread of a hardware finder that it will clean up.
ArmedInv ==
    \A t \in Threads : th[t].dr = "hw" /\ Live(th[t]) =>
        th[t].by = "bg" /\ bg.kind \in {"hw", "st"} /\ t \in Place(bg)

\* The threads the GUI thread traces are those it will let go.
HeldInv ==
    /\ \A t \in Threads : th[t].by = "fg" /\ Live(th[t]) =>
          \/ fg.pc \in InnerSys /\ t = Main
          \/ fg.pc \in {"interrupt", "await"} /\ t = fg.cur
          \/ fg.pc \in Early \cup Hijacked \cup {"release"} /\ t \in fg.held /\ th[t].life = "stop"
    /\ fg.pc \in {"interrupt", "await"} => th[fg.cur].by = "fg"

CleanInv == SaneInv /\ WorkerInv /\ CallerInv /\ SysInv /\ OwnInv /\ ChildInv /\ ArmedInv /\ HeldInv

\* Accesses reported but not recorded yet.
Pending == {t \in Threads : th[t].life = "stop" /\ th[t].why = "hit"}
CountInv == bg.kind \in {"hw", "st"} => IsFiniteSet(Pending) /\ hits + Cardinality(Pending) <= touches

\* Every thread of the target is the worker's.
Covered == \A t \in Threads : Live(th[t]) => th[t].by = "bg"

\* The passes of the software finder: each but the last has seized a thread, and one that
\* seizes none has seen no thread it could have seized.
PassInv == bg.kind = "sw" =>
    /\ bg.pc = "sw_list" => IsFiniteSet(bg.held) /\ Cardinality(bg.held) >= bg.n
    /\ bg.pc = "seize" => /\ IsFiniteSet(bg.held) /\ bg.n >= 1 /\ Cardinality(bg.held) >= bg.n - 1
                          /\ bg.ok => Cardinality(bg.held) >= bg.n
                          /\ ~bg.ok /\ ~bg.failed =>
                               Covered \/ \E t \in bg.todo : th[t].by # "bg" /\ th[t].life # "absent"
    /\ bg.pc \in Watching \cup {"await"} /\ ~bg.failed => Covered

-----------------------------------------------------------------------------
(* What the operators on one thread return. *)

LEMMA StoppedForType ==
    ASSUME NEW r \in ThreadType, NEW why \in Whys
    PROVE  /\ StoppedFor(r, why) \in ThreadType
           /\ StoppedFor(r, why).life = "stop" /\ StoppedFor(r, why).why = why
           /\ StoppedFor(r, why).by = r.by /\ StoppedFor(r, why).dr = r.dr
           /\ StoppedFor(r, why).child = r.child
BY DEF StoppedFor, ThreadType, Lives, Whys

LEMMA ResumedType ==
    ASSUME NEW r \in ThreadType
    PROVE  /\ Resumed(r) \in ThreadType
           /\ Resumed(r).life \in {"run", "stop"} /\ Resumed(r).why \in {"none", "intr"}
           /\ Resumed(r).unread => Resumed(r).life = "stop"
           /\ Resumed(r).by = r.by /\ Resumed(r).dr = r.dr
           /\ Resumed(r).child = r.child
BY DEF Resumed, StoppedFor, ThreadType, Lives, Whys

LEMMA FreedType ==
    ASSUME NEW r \in ThreadType
    PROVE  /\ Freed(r) \in ThreadType
           /\ Freed(r).by = "none" /\ Freed(r).why = "none" /\ ~Freed(r).unread
           /\ Freed(r).life \in {"absent", "run", "gone"}
           /\ Freed(r).life = "run" => r.life \in {"run", "stop"}
           /\ (Freed(r).life = "absent") = (r.life = "absent")
           /\ Freed(r).dr = r.dr /\ Freed(r).child = r.child
BY DEF Freed, ThreadType, Lives, Whys

LEMMA InterruptedType ==
    ASSUME NEW r \in ThreadType
    PROVE  /\ Interrupted(r) \in ThreadType
           /\ Interrupted(r).by = r.by /\ Interrupted(r).dr = r.dr
           /\ Interrupted(r).child = r.child
           /\ IF r.life = "run"
              THEN Interrupted(r).life = "stop" /\ Interrupted(r).why = "intr"
              ELSE /\ Interrupted(r).life = r.life /\ Interrupted(r).why = r.why
                   /\ Interrupted(r).unread = r.unread
BY DEF Interrupted, StoppedFor, ThreadType, Lives, Whys

LEMMA ReapedType ==
    ASSUME NEW r \in ThreadType
    PROVE  /\ Reaped(r) \in ThreadType
           /\ Reaped(r).by = r.by /\ Reaped(r).dr = r.dr /\ Reaped(r).why = r.why
           /\ Reaped(r).child = r.child /\ ~Reaped(r).unread
           /\ Reaped(r).life = IF r.life = "zombie" THEN "gone" ELSE r.life
BY DEF Reaped, ThreadType, Lives, Whys

LEMMA SteppedType ==
    ASSUME NEW r \in ThreadType
    PROVE  /\ Stepped(r) \in ThreadType
           /\ Stepped(r).by = r.by /\ Stepped(r).dr = r.dr /\ Stepped(r).why = r.why
           /\ Stepped(r).child = r.child /\ Stepped(r).life = r.life
           /\ Stepped(r).unread => r.unread
BY DEF Stepped, ThreadType, Lives, Whys

LEMMA ArmedType ==
    ASSUME NEW r \in ThreadType, NEW what \in {"none", "hw", "trace"}
    PROVE  /\ Armed(r, what) \in ThreadType
           /\ Armed(r, what).by = r.by /\ Armed(r, what).life = r.life
           /\ Armed(r, what).why = r.why /\ Armed(r, what).unread = r.unread
           /\ Armed(r, what).child = r.child
           /\ Armed(r, what).dr = IF r.life = "stop" THEN what ELSE r.dr
BY DEF Armed, ThreadType, Lives, Whys

\* The smallest element of a nonempty set of threads is one of them.
Less == {p \in Nat \X Nat : p[1] < p[2]}
LEMMA MinIn == ASSUME NEW S, S \subseteq Threads, S # {} PROVE Min(S) \in S
<1>1. OpToRel(<, Nat) = Less
  BY DEF OpToRel, Less
<1>2. PICK x \in S : \A y \in S : << y, x >> \notin Less
  <2>1. IsWellFoundedOn(Less, Nat)
    BY <1>1, NatLessThanWellFounded
  <2>2. S \subseteq Nat
    BY ThreadsAssumption
  <2> QED BY <2>1, <2>2, WFMin
<1>3. \A y \in S : x <= y
  <2> SUFFICES ASSUME NEW y \in S PROVE x <= y
    OBVIOUS
  <2>1. x \in Nat /\ y \in Nat /\ << y, x >> \in Nat \X Nat
    BY ThreadsAssumption
  <2>2. ~(y < x)
    BY <1>2, <2>1 DEF Less
  <2> QED BY <2>1, <2>2
<1> QED BY <1>3 DEF Min

-----------------------------------------------------------------------------
(* Type correctness *)

LEMMA DiedType ==
    ASSUME NEW s \in [Threads -> ThreadType]
    PROVE  /\ Died(s) \in [Threads -> ThreadType]
           /\ \A t \in Threads :
                /\ Died(s)[t].by = s[t].by /\ Died(s)[t].dr = s[t].dr
                /\ Died(s)[t].child = s[t].child
                /\ IF s[t].life \in {"absent", "gone"} THEN Died(s)[t] = s[t]
                   ELSE IF s[t].by = "none" THEN Died(s)[t] = [s[t] EXCEPT !.life = "gone"]
                   ELSE Died(s)[t].life = "zombie" /\ Died(s)[t].unread
BY DEF Died, ThreadType, Lives, Whys

LEMMA TargetType == ASSUME TypeOK, Target PROVE TypeOK'
<1>1. CASE ProcessExit
  BY <1>1, DiedType DEF ProcessExit, TypeOK
<1>2. ASSUME NEW t \in Threads, NEW near \in BOOLEAN, Touch(t, near) PROVE TypeOK'
  <2>1. th[t] \in ThreadType
    BY DEF TypeOK
  <2>2. /\ StoppedFor(th[t], "near") \in ThreadType
        /\ StoppedFor(th[t], "fault") \in ThreadType
        /\ StoppedFor(th[t], "hit") \in ThreadType
    BY <2>1, StoppedForType DEF Whys
  <2> QED BY <1>2, <2>2, DiedType DEF Touch, TypeOK
<1>3. ASSUME NEW t \in Threads, ReachStart(t) PROVE TypeOK'
  <2>1. StoppedFor(th[t], "start") \in ThreadType
    BY StoppedForType DEF TypeOK, Whys
  <2> QED BY <1>3, <2>1, DiedType DEF ReachStart, TypeOK
<1>4. ASSUME NEW t \in Threads, Clone(t) PROVE TypeOK'
  <2>1. PICK c \in Threads :
          /\ th[c].life = "absent"
          /\ th' = IF Follows(t)
                   THEN [th EXCEPT ![t] = [StoppedFor(@, "clone") EXCEPT !.child = c],
                                   ![c] = [StoppedFor(@, "born") EXCEPT !.by = th[t].by]]
                   ELSE [th EXCEPT ![c].life = "run"]
    BY <1>4 DEF Clone
  <2>2. /\ [StoppedFor(th[t], "clone") EXCEPT !.child = c] \in ThreadType
        /\ [StoppedFor(th[c], "born") EXCEPT !.by = th[t].by] \in ThreadType
        /\ [th[c] EXCEPT !.life = "run"] \in ThreadType
    BY StoppedForType DEF TypeOK, Whys, ThreadType, Lives
  <2>3. c # t
    BY <1>4, <2>1 DEF Clone, Running
  <2> QED BY <1>4, <2>1, <2>2, <2>3 DEF Clone, TypeOK
<1>5. ASSUME NEW t \in Threads, Signal(t) PROVE TypeOK'
  <2>1. StoppedFor(th[t], "signal") \in ThreadType
    BY StoppedForType DEF TypeOK, Whys
  <2> QED BY <1>5, <2>1 DEF Signal, TypeOK
<1>6. ASSUME NEW t \in Threads, ThreadExit(t) PROVE TypeOK'
  <2>1. /\ [th[t] EXCEPT !.life = "gone"] \in ThreadType
        /\ [th[t] EXCEPT !.life = "zombie", !.unread = TRUE] \in ThreadType
    <3>1. th[t] \in ThreadType
      BY DEF TypeOK
    <3> QED BY <3>1 DEF ThreadType, Lives
  <2> QED BY <1>6, <2>1 DEF ThreadExit, TypeOK
<1> QED BY <1>1, <1>2, <1>3, <1>4, <1>5, <1>6 DEF Target

\* Moving a tool to another position.
LEMMA GotoType ==
    ASSUME TypeOK, NEW x \in {"bg", "fg"}, NEW pc \in WorkerPcs \cup CallerPcs, Goto(x, pc)
    PROVE  /\ tool' \in [{"bg", "fg"} -> ToolType]
           /\ tool'[x] = [tool[x] EXCEPT !.pc = pc]
           /\ \A y \in {"bg", "fg"} \ {x} : tool'[y] = tool[y]
BY DEF TypeOK, Goto, ToolType

LEMMA IdleType == Idle \in ToolType
BY ThreadsAssumption DEF Idle, ToolType, Main, WorkerPcs

LEMMA ReturnType ==
    ASSUME TypeOK, NEW x \in {"bg", "fg"}, NEW ok \in BOOLEAN, Return(x, ok)
    PROVE  /\ tool' \in [{"bg", "fg"} -> ToolType]
           /\ tool'[x] = IF tool[x].ret = "idle" THEN Idle ELSE [tool[x] EXCEPT !.pc = tool[x].ret, !.ok = ok]
           /\ \A y \in {"bg", "fg"} \ {x} : tool'[y] = tool[y]
<1> DEFINE c == IF tool[x].ret = "idle" THEN Idle ELSE [tool[x] EXCEPT !.pc = tool[x].ret, !.ok = ok]
<1>1. tool[x] \in ToolType
  BY DEF TypeOK
<1>2. c \in ToolType
  <2>1. tool[x].ret \in WorkerPcs \cup CallerPcs
    BY <1>1 DEF ToolType, WorkerPcs, CallerPcs, Sys, Early
  <2>2. [tool[x] EXCEPT !.pc = tool[x].ret] \in ToolType
    BY <1>1, <2>1 DEF ToolType
  <2>3. [tool[x] EXCEPT !.pc = tool[x].ret, !.ok = ok] \in ToolType
    BY <2>2 DEF ToolType
  <2> QED BY <2>3, IdleType
<1>3. tool' = [tool EXCEPT ![x] = c]
  BY DEF Return, TypeOK
<1> HIDE DEF c
<1>4. /\ tool' \in [{"bg", "fg"} -> ToolType] /\ tool'[x] = c
      /\ \A y \in {"bg", "fg"} \ {x} : tool'[y] = tool[y]
  BY <1>2, <1>3 DEF TypeOK
<1> QED BY <1>4 DEF c

LEMMA SyscallType == ASSUME TypeOK, NEW x \in {"bg", "fg"}, RemoteSyscall(x) PROVE TypeOK'
<1>0. Main \in Threads /\ th[Main] \in ThreadType /\ tool[x] \in ToolType
  BY ThreadsAssumption DEF TypeOK, Main
<1>1. CASE SysSeize(x)
  <2>1. [th[Main] EXCEPT !.by = x] \in ThreadType
    BY <1>0 DEF ThreadType
  <2>2. tool' \in [{"bg", "fg"} -> ToolType]
    BY <1>1, GotoType, ReturnType DEF SysSeize, WorkerPcs, Sys, InnerSys
  <2> QED BY <1>0, <1>1, <2>1, <2>2 DEF SysSeize, TypeOK, kernel, Tools
<1>2. CASE SysInterrupt(x)
  <2>1. Interrupted(th[Main]) \in ThreadType
    BY <1>0, InterruptedType
  <2>2. tool' \in [{"bg", "fg"} -> ToolType]
    BY <1>2, GotoType, ReturnType DEF SysInterrupt, WorkerPcs, Sys, InnerSys
  <2> QED BY <1>0, <1>2, <2>1, <2>2 DEF SysInterrupt, TypeOK, kernel, Tools
<1>3. CASE SysWait(x)
  <2>1. Reaped(th[Main]) \in ThreadType
    BY <1>0, ReapedType
  <2>2. tool' \in [{"bg", "fg"} -> ToolType]
    BY <1>3, GotoType, ReturnType DEF SysWait, WorkerPcs, Sys, InnerSys
  <2> QED BY <1>0, <1>3, <2>1, <2>2 DEF SysWait, TypeOK, kernel, Tools
<1>4. CASE SysStep(x)
  <2>1. Stepped(th[Main]) \in ThreadType
    BY <1>0, SteppedType
  <2>2. signals' \in Nat
    BY <1>4 DEF SysStep, StepOutcomes, TypeOK
  <2>3. tool' \in [{"bg", "fg"} -> ToolType]
    <3>1. PICK b \in BOOLEAN : tool' = [tool EXCEPT ![x].pc = "sys_restore", ![x].ok = b]
      BY <1>4 DEF SysStep
    <3> QED BY <1>0, <3>1 DEF TypeOK, ToolType, WorkerPcs, Sys, InnerSys
  <2>4. pages' \subseteq {"bg", "fg", "path", "library"}
    BY <1>4 DEF SysStep, TypeOK
  <2>5. patched' \in BOOLEAN
    BY <1>4 DEF SysStep, Stopped
  <2> QED BY <1>0, <1>4, <2>1, <2>2, <2>3, <2>4, <2>5 DEF SysStep, TypeOK, Tools
<1>5. CASE SysRestore(x)
  <2>1. Freed(th[Main]) \in ThreadType
    BY <1>0, FreedType
  <2>2. tool' \in [{"bg", "fg"} -> ToolType]
    BY <1>0, <1>5, ReturnType DEF SysRestore, ToolType
  <2> QED BY <1>0, <1>5, <2>1, <2>2 DEF SysRestore, TypeOK, Tools
<1> QED BY <1>1, <1>2, <1>3, <1>4, <1>5 DEF RemoteSyscall

\* A thread of th is one, and so is the current thread of a tool.
LEMMA Threads1 == ASSUME TypeOK PROVE
    /\ Main \in Threads
    /\ \A t \in Threads : th[t] \in ThreadType
    /\ bg \in ToolType /\ fg \in ToolType
    /\ \A x \in {"bg", "fg"} : tool[x] \in ToolType /\ tool[x].cur \in Threads
    /\ bg.cur \in Threads /\ fg.cur \in Threads
    /\ bg.todo \subseteq Threads /\ bg.held \subseteq Threads
    /\ fg.todo \subseteq Threads /\ fg.held \subseteq Threads
BY ThreadsAssumption DEF TypeOK, Main, bg, fg, ToolType

LEMMA UserType == ASSUME TypeOK, User \/ Joined \/ End PROVE TypeOK'
<1>1. CASE Stop
  <2>1. [Idle EXCEPT !.pc = "join"] \in ToolType
    BY IdleType DEF ToolType, CallerPcs
  <2> QED BY <1>1, <2>1 DEF Stop, TypeOK, kernel
<1>2. ASSUME NEW k \in Finders, Start(k) PROVE TypeOK'
  <2>0. Listed \subseteq Threads /\ {Main} \subseteq Threads
    BY Threads1 DEF Listed
  <2>1. PICK todo \in SUBSET Threads :
          tool' = [tool EXCEPT !["bg"] =
                     IF k = "sw" THEN [Idle EXCEPT !.kind = k, !.pc = "sys_seize", !.op = "alloc", !.ret = "sw_list"]
                     ELSE [Idle EXCEPT !.kind = k, !.pc = "seize", !.todo = todo]]
    BY <1>2, <2>0 DEF Start
  <2>2. k \in {"none", "hw", "st", "sw", "trace", "alloc", "free", "protect", "inject", "thread"}
    BY KindsAssumption
  <2>3. [Idle EXCEPT !.kind = k, !.pc = "sys_seize", !.op = "alloc", !.ret = "sw_list"] \in ToolType
    BY IdleType, <2>2 DEF ToolType, WorkerPcs, Sys
  <2>4. [Idle EXCEPT !.kind = k, !.pc = "seize", !.todo = todo] \in ToolType
    BY IdleType, <2>2 DEF ToolType, WorkerPcs, Early
  <2>5. tool' \in [{"bg", "fg"} -> ToolType]
    BY <2>1, <2>3, <2>4 DEF TypeOK
  <2>6. uses' \in [start : Nat, call : Nat]
    BY <1>2 DEF Start, TypeOK
  <2> QED BY <1>2, <2>5, <2>6 DEF Start, TypeOK, kernel
<1>3. ASSUME NEW k \in Calls, Call(k) PROVE TypeOK'
  <2>1. PICK pc \in {"join", "seize", "sys_seize"}, op \in {"alloc", "free", "protect", "inject"},
             ret \in {"idle", "seize", "sys_seize", "thread_alloc"} :
          tool' = [tool EXCEPT !["fg"] = [Idle EXCEPT !.kind = k, !.pc = pc, !.todo = {Main}, !.op = op, !.ret = ret]]
    BY <1>3, KindsAssumption DEF Call
  <2>2. k \in {"none", "hw", "st", "sw", "trace", "alloc", "free", "protect", "inject", "thread"}
    BY KindsAssumption
  <2>3. pc \in WorkerPcs \cup CallerPcs /\ {Main} \in SUBSET Threads
    BY Threads1 DEF CallerPcs, Sys, Early
  <2>4. [Idle EXCEPT !.kind = k, !.pc = pc, !.todo = {Main}, !.op = op, !.ret = ret] \in ToolType
    BY IdleType, <2>2, <2>3 DEF ToolType
  <2>5. tool' \in [{"bg", "fg"} -> ToolType]
    BY <2>1, <2>4 DEF TypeOK
  <2>6. uses' \in [start : Nat, call : Nat]
    BY <1>3 DEF Call, TypeOK
  <2>7. stop' \in BOOLEAN
    BY <1>3 DEF Call, TypeOK
  <2> QED BY <1>3, <2>5, <2>6, <2>7 DEF Call, TypeOK, kernel
<1>4. CASE Joined
  <2>1. fg.ret \in WorkerPcs \cup CallerPcs
    BY Threads1 DEF ToolType, WorkerPcs, CallerPcs, Sys, Early
  <2>2. PICK ret \in {"idle", "thread_alloc"} :
          tool' = [tool EXCEPT !["fg"] = IF @.kind = "none" THEN Idle ELSE [@ EXCEPT !.pc = fg.ret, !.ret = ret]]
    BY <1>4 DEF Joined
  <2>3. [tool["fg"] EXCEPT !.pc = fg.ret, !.ret = ret] \in ToolType
    BY <2>1, Threads1 DEF ToolType, fg
  <2>4. tool' \in [{"bg", "fg"} -> ToolType]
    BY <2>2, <2>3, IdleType DEF TypeOK
  <2> QED BY <1>4, <2>4 DEF Joined, TypeOK, kernel, Tools
<1>5. CASE End
  <2>1. th' \in [Threads -> ThreadType]
    BY <1>5, FreedType DEF End, TypeOK
  <2> QED BY <1>5, <2>1, IdleType DEF End, TypeOK, kernel, Tools
<1> QED BY <1>1, <1>2, <1>3, <1>4, <1>5 DEF User

\* What the seizing actions make of the tool's record.
LEMMA SeizeTool ==
    ASSUME TypeOK, NEW x \in {"bg", "fg"}, Seize(x), NEW t, t = Min(tool[x].todo)
    PROVE  /\ tool' \in [{"bg", "fg"} -> ToolType] /\ t \in tool[x].todo
           /\ \A y \in {"bg", "fg"} \ {x} : tool'[y] = tool[y]
           /\ tool'[x].kind = tool[x].kind /\ tool'[x].ret = tool[x].ret /\ tool'[x].n = tool[x].n
           /\ tool'[x].todo = tool[x].todo \ {t}
           /\ IF th[t].by = "none" /\ t \in Listed
              THEN /\ tool'[x].cur = t /\ tool'[x].ok = (tool[x].kind = "sw")
                   /\ tool'[x].failed = tool[x].failed
                   /\ tool'[x].held = IF tool[x].kind = "sw" THEN tool[x].held \cup {t} ELSE tool[x].held
                   /\ tool'[x].pc = IF tool[x].kind = "sw" THEN "seize" ELSE "interrupt"
              ELSE /\ tool'[x].cur = tool[x].cur /\ tool'[x].ok = tool[x].ok
                   /\ tool'[x].failed = (tool[x].failed \/ th[t].by # x)
                   /\ tool'[x].held = tool[x].held
                   /\ tool'[x].pc = IF x = "fg" /\ t = Main THEN "release" ELSE "seize"
<1>0. tool[x] \in ToolType /\ tool \in [{"bg", "fg"} -> ToolType]
  BY DEF TypeOK
<1>1. t \in tool[x].todo /\ t \in Threads
  BY <1>0, MinIn DEF Seize, ToolType
<1>2. {"seize", "interrupt", "release"} \subseteq WorkerPcs \cup CallerPcs
  BY DEF CallerPcs, Early
<1> DEFINE rest == tool[x].todo \ {t}
<1>3. CASE th[t].by = "none" /\ t \in Listed
  <2> DEFINE sw == tool[x].kind = "sw"
             c == [tool[x] EXCEPT !.todo = rest, !.cur = t,
                     !.held = IF sw THEN @ \cup {t} ELSE @, !.ok = sw,
                     !.pc = IF sw THEN "seize" ELSE "interrupt"]
  <2>1. tool' = [tool EXCEPT ![x] = c]
    BY <1>0, <1>3 DEF Seize
  <2>2. /\ c \in ToolType
        /\ c.kind = tool[x].kind /\ c.ret = tool[x].ret /\ c.n = tool[x].n /\ c.todo = rest
        /\ c.cur = t /\ c.ok = sw /\ c.failed = tool[x].failed
        /\ c.held = IF sw THEN tool[x].held \cup {t} ELSE tool[x].held
        /\ c.pc = IF sw THEN "seize" ELSE "interrupt"
    BY <1>0, <1>1, <1>2 DEF ToolType
  <2> HIDE DEF c
  <2> QED BY <1>0, <1>1, <1>3, <2>1, <2>2
<1>4. CASE ~(th[t].by = "none" /\ t \in Listed)
  <2> DEFINE c == [tool[x] EXCEPT !.todo = rest, !.failed = @ \/ th[t].by # x,
                     !.pc = IF x = "fg" /\ t = Main THEN "release" ELSE "seize"]
  <2>1. tool' = [tool EXCEPT ![x] = c]
    BY <1>0, <1>4 DEF Seize
  <2>2. /\ c \in ToolType
        /\ c.kind = tool[x].kind /\ c.ret = tool[x].ret /\ c.n = tool[x].n /\ c.todo = rest
        /\ c.cur = tool[x].cur /\ c.ok = tool[x].ok
        /\ c.failed = (tool[x].failed \/ th[t].by # x) /\ c.held = tool[x].held
        /\ c.pc = IF x = "fg" /\ t = Main THEN "release" ELSE "seize"
    BY <1>0, <1>1, <1>2 DEF ToolType
  <2> HIDE DEF c
  <2> QED BY <1>0, <1>1, <1>4, <2>1, <2>2
<1> QED BY <1>3, <1>4

LEMMA InterruptTool ==
    ASSUME TypeOK, NEW x \in {"bg", "fg"}, Interrupt(x), NEW t, t = tool[x].cur
    PROVE  /\ tool' \in [{"bg", "fg"} -> ToolType]
           /\ \A y \in {"bg", "fg"} \ {x} : tool'[y] = tool[y]
           /\ tool'[x].kind = tool[x].kind /\ tool'[x].ret = tool[x].ret /\ tool'[x].n = tool[x].n
           /\ tool'[x].todo = tool[x].todo /\ tool'[x].cur = t
           /\ tool'[x].held = IF t \in Listed \/ tool[x].kind \notin {"hw", "st"} THEN tool[x].held
                              ELSE tool[x].held \cup {t}
           /\ tool'[x].pc = IF t \in Listed THEN "await"
                            ELSE IF x = "fg" /\ t = Main THEN "release" ELSE "seize"
<1>0. tool[x] \in ToolType /\ tool \in [{"bg", "fg"} -> ToolType] /\ t \in Threads
  BY DEF TypeOK, ToolType
<1>1. {"await", "seize", "release"} \subseteq WorkerPcs \cup CallerPcs
  BY DEF CallerPcs, Early
<1> DEFINE c == IF t \in Listed THEN [tool[x] EXCEPT !.pc = "await"]
                ELSE [tool[x] EXCEPT !.pc = IF x = "fg" /\ t = Main THEN "release" ELSE "seize",
                        !.held = IF tool[x].kind \in {"hw", "st"} THEN @ \cup {t} ELSE @]
<1>2. tool' = [tool EXCEPT ![x] = c]
  BY <1>0 DEF Interrupt, Goto
<1>3. /\ c \in ToolType
      /\ c.kind = tool[x].kind /\ c.ret = tool[x].ret /\ c.n = tool[x].n
      /\ c.todo = tool[x].todo /\ c.cur = t
      /\ c.held = IF t \in Listed \/ tool[x].kind \notin {"hw", "st"} THEN tool[x].held
                  ELSE tool[x].held \cup {t}
      /\ c.pc = IF t \in Listed THEN "await" ELSE IF x = "fg" /\ t = Main THEN "release" ELSE "seize"
  BY <1>0, <1>1 DEF ToolType
<1> HIDE DEF c
<1> QED BY <1>0, <1>2, <1>3

LEMMA HoldTool ==
    ASSUME TypeOK, NEW x \in {"bg", "fg"}, HoldThread(x), NEW t, t = tool[x].cur
    PROVE  /\ tool' \in [{"bg", "fg"} -> ToolType]
           /\ \A y \in {"bg", "fg"} \ {x} : tool'[y] = tool[y]
           /\ tool'[x].kind = tool[x].kind /\ tool'[x].ret = tool[x].ret /\ tool'[x].n = tool[x].n
           /\ tool'[x].cur = t
           /\ tool'[x].held = IF x = "bg" \/ th[t].life = "stop" THEN tool[x].held \cup {t}
                              ELSE tool[x].held
           /\ tool'[x].pc = IF ~(x = "bg" \/ th[t].life = "stop") /\ t = Main THEN "release" ELSE "seize"
<1>0. tool[x] \in ToolType /\ tool \in [{"bg", "fg"} -> ToolType] /\ t \in Threads
  BY DEF TypeOK, ToolType
<1>1. {"seize", "release"} \subseteq WorkerPcs \cup CallerPcs
  BY DEF CallerPcs, Early
<1> DEFINE took == x = "bg" \/ th[t].life = "stop"
           rest == IF x = "fg" /\ t = Main THEN Siblings ELSE tool[x].todo
           c == [tool[x] EXCEPT !.pc = IF ~took /\ t = Main THEN "release" ELSE "seize",
                   !.todo = rest, !.held = IF took THEN @ \cup {t} ELSE @]
<1>2. tool' = [tool EXCEPT ![x] = c]
  BY <1>0 DEF HoldThread
<1>3. rest \in SUBSET Threads
  BY <1>0 DEF Siblings, Listed, ToolType
<1>4. /\ c \in ToolType
      /\ c.kind = tool[x].kind /\ c.ret = tool[x].ret /\ c.n = tool[x].n /\ c.cur = t
      /\ c.held = IF took THEN tool[x].held \cup {t} ELSE tool[x].held
      /\ c.pc = IF ~took /\ t = Main THEN "release" ELSE "seize"
  <2> HIDE DEF rest
  <2> QED BY <1>0, <1>1, <1>3 DEF ToolType
<1> HIDE DEF c
<1> QED BY <1>0, <1>2, <1>4

LEMMA SeizingType ==
    ASSUME TypeOK, NEW x \in {"bg", "fg"}, Seize(x) \/ Interrupt(x) \/ HoldThread(x)
    PROVE  TypeOK'
<1>0. tool[x] \in ToolType /\ tool[x].cur \in Threads /\ th[tool[x].cur] \in ThreadType
  BY Threads1
<1>1. CASE Seize(x)
  <2> DEFINE t == Min(tool[x].todo)
  <2>1. t \in Threads /\ th[t] \in ThreadType
    BY <1>0, <1>1, SeizeTool, Threads1 DEF ToolType
  <2>2. [th[t] EXCEPT !.by = x] \in ThreadType
    BY <2>1 DEF ThreadType
  <2>3. th' \in [Threads -> ThreadType]
    BY <1>1, <2>1, <2>2 DEF Seize, TypeOK
  <2> QED BY <1>1, <2>3, SeizeTool DEF Seize, TypeOK, kernel, Tools
<1>2. CASE Interrupt(x)
  <2>1. Interrupted(th[tool[x].cur]) \in ThreadType
    BY <1>0, InterruptedType
  <2>2. th' \in [Threads -> ThreadType]
    BY <1>0, <1>2, <2>1 DEF Interrupt, TypeOK
  <2>3. UNCHANGED <<page, pages, patched, signals, cause, stop, hits, touches, uses>>
    BY <1>2 DEF Interrupt, kernel, Tools
  <2>4. tool' \in [{"bg", "fg"} -> ToolType]
    BY <1>2, InterruptTool
  <2> QED BY <2>2, <2>3, <2>4 DEF TypeOK
<1>3. CASE HoldThread(x)
  <2>1. Reaped(th[tool[x].cur]) \in ThreadType
    BY <1>0, ReapedType
  <2> QED BY <1>0, <1>3, <2>1, HoldTool DEF HoldThread, TypeOK, kernel, Tools
<1> QED BY <1>1, <1>2, <1>3
-----------------------------------------------------------------------------
(* What each step of the worker makes of its record. *)

LEMMA ArmTool ==
    ASSUME TypeOK, ArmThread
    PROVE  /\ tool' \in [{"bg", "fg"} -> ToolType] /\ fg' = fg
           /\ bg'.kind = bg.kind /\ bg'.ret = bg.ret /\ bg'.n = bg.n
           /\ bg'.todo = bg.todo /\ bg'.cur = bg.cur /\ bg'.ok = bg.ok
           /\ bg'.failed = bg.failed /\ bg'.pc = "seize" /\ bg'.held = bg.held \cup {bg.cur}
<1>0. /\ bg \in ToolType /\ bg.cur \in Threads /\ bg.todo \subseteq Threads /\ bg.held \subseteq Threads
      /\ tool \in [{"bg", "fg"} -> ToolType]
  BY Threads1 DEF TypeOK
<1>1. {"seize"} \subseteq WorkerPcs \cup CallerPcs
  BY DEF WorkerPcs, CallerPcs, Sys, InnerSys, Early, Poll, SwPoll, Cleaning, Tracing, Hijacked
<1> DEFINE c == [bg EXCEPT !.pc = "seize", !.held = bg.held \cup {bg.cur}]
<1>2. tool' = [tool EXCEPT !["bg"] = c]
  BY <1>0, <1>1 DEF ArmThread, Goto, bg
<1>3. /\ c \in ToolType
      /\ c.kind = bg.kind /\ c.ret = bg.ret /\ c.n = bg.n
      /\ c.todo = bg.todo /\ c.cur = bg.cur /\ c.ok = bg.ok
      /\ c.failed = bg.failed /\ c.pc = "seize" /\ c.held = bg.held \cup {bg.cur}
  BY <1>0, <1>1 DEF ToolType
<1> HIDE DEF c
<1> QED BY <1>0, <1>2, <1>3 DEF bg, fg

LEMMA SeizedAllTool ==
    ASSUME TypeOK, SeizedAll
    PROVE  /\ tool' \in [{"bg", "fg"} -> ToolType] /\ fg' = fg
           /\ bg'.kind = bg.kind /\ bg'.ret = bg.ret /\ bg'.n = bg.n
           /\ bg'.todo = bg.todo /\ bg'.held = bg.held /\ bg'.cur = bg.cur
           /\ bg'.ok = bg.ok /\ bg'.failed = bg.failed /\ bg'.pc = (IF bg.held = {} THEN "end" ELSE IF bg.kind = "trace" THEN "trace_run" ELSE "loop")
<1>0. /\ bg \in ToolType /\ bg.cur \in Threads /\ bg.todo \subseteq Threads /\ bg.held \subseteq Threads
      /\ tool \in [{"bg", "fg"} -> ToolType]
  BY Threads1 DEF TypeOK
<1>1. {"end", "loop", "trace_run"} \subseteq WorkerPcs \cup CallerPcs
  BY DEF WorkerPcs, CallerPcs, Sys, InnerSys, Early, Poll, SwPoll, Cleaning, Tracing, Hijacked
<1> DEFINE c == [bg EXCEPT !.pc = IF bg.held = {} THEN "end" ELSE IF bg.kind = "trace" THEN "trace_run" ELSE "loop"]
<1>2. tool' = [tool EXCEPT !["bg"] = c]
  BY <1>0, <1>1 DEF SeizedAll, Goto, bg
<1>3. /\ c \in ToolType
      /\ c.kind = bg.kind /\ c.ret = bg.ret /\ c.n = bg.n
      /\ c.todo = bg.todo /\ c.held = bg.held /\ c.cur = bg.cur
      /\ c.ok = bg.ok /\ c.failed = bg.failed /\ c.pc = (IF bg.held = {} THEN "end" ELSE IF bg.kind = "trace" THEN "trace_run" ELSE "loop")
  BY <1>0, <1>1 DEF ToolType
<1> HIDE DEF c
<1> QED BY <1>0, <1>2, <1>3 DEF bg, fg

LEMMA CloneEventTool ==
    ASSUME TypeOK, NEW w \in Threads, CloneEvent(w)
    PROVE  /\ tool' \in [{"bg", "fg"} -> ToolType] /\ fg' = fg
           /\ bg'.kind = bg.kind /\ bg'.ret = bg.ret /\ bg'.n = bg.n
           /\ bg'.todo = bg.todo /\ bg'.held = bg.held /\ bg'.ok = bg.ok
           /\ bg'.failed = bg.failed /\ bg'.pc = "newborn" /\ bg'.cur = w
<1>0. /\ bg \in ToolType /\ bg.cur \in Threads /\ bg.todo \subseteq Threads /\ bg.held \subseteq Threads
      /\ tool \in [{"bg", "fg"} -> ToolType]
  BY Threads1 DEF TypeOK
<1>1. {"newborn"} \subseteq WorkerPcs \cup CallerPcs
  BY DEF WorkerPcs, CallerPcs, Sys, InnerSys, Early, Poll, SwPoll, Cleaning, Tracing, Hijacked
<1> DEFINE c == [bg EXCEPT !.pc = "newborn", !.cur = w]
<1>2. tool' = [tool EXCEPT !["bg"] = c]
  BY <1>0, <1>1 DEF CloneEvent, Goto, bg
<1>3. /\ c \in ToolType
      /\ c.kind = bg.kind /\ c.ret = bg.ret /\ c.n = bg.n
      /\ c.todo = bg.todo /\ c.held = bg.held /\ c.ok = bg.ok
      /\ c.failed = bg.failed /\ c.pc = "newborn" /\ c.cur = w
  BY <1>0, <1>1 DEF ToolType
<1> HIDE DEF c
<1> QED BY <1>0, <1>2, <1>3 DEF bg, fg

LEMMA NewbornTool ==
    ASSUME TypeOK, Newborn
    PROVE  /\ tool' \in [{"bg", "fg"} -> ToolType] /\ fg' = fg
           /\ bg'.kind = bg.kind /\ bg'.ret = bg.ret /\ bg'.n = bg.n
           /\ bg'.todo = bg.todo /\ bg'.cur = bg.cur /\ bg'.ok = bg.ok
           /\ bg'.failed = bg.failed /\ bg'.pc = "loop" /\ bg'.held = bg.held \cup {th[bg.cur].child}
<1>0. /\ bg \in ToolType /\ bg.cur \in Threads /\ bg.todo \subseteq Threads /\ bg.held \subseteq Threads
      /\ tool \in [{"bg", "fg"} -> ToolType]
  BY Threads1 DEF TypeOK
<1>1. {"loop"} \subseteq WorkerPcs \cup CallerPcs
  BY DEF WorkerPcs, CallerPcs, Sys, InnerSys, Early, Poll, SwPoll, Cleaning, Tracing, Hijacked
<1>2. th[bg.cur].child \in Threads
  BY Threads1 DEF ThreadType
<1> DEFINE c == [bg EXCEPT !.pc = "loop", !.held = bg.held \cup {th[bg.cur].child}]
<1>3. tool' = [tool EXCEPT !["bg"] = c]
  BY <1>0, <1>1, <1>2 DEF Newborn, Goto, bg
<1>4. /\ c \in ToolType
      /\ c.kind = bg.kind /\ c.ret = bg.ret /\ c.n = bg.n
      /\ c.todo = bg.todo /\ c.cur = bg.cur /\ c.ok = bg.ok
      /\ c.failed = bg.failed /\ c.pc = "loop" /\ c.held = bg.held \cup {th[bg.cur].child}
  BY <1>0, <1>1, <1>2 DEF ToolType
<1> HIDE DEF c
<1> QED BY <1>0, <1>3, <1>4 DEF bg, fg

LEMMA ExitedTool ==
    ASSUME TypeOK, NEW w \in Threads, Exited(w)
    PROVE  /\ tool' \in [{"bg", "fg"} -> ToolType] /\ fg' = fg
           /\ bg'.kind = bg.kind /\ bg'.ret = bg.ret /\ bg'.n = bg.n
           /\ bg'.cur = bg.cur /\ bg'.failed = bg.failed /\ bg'.pc = (IF w = Main \/ bg.held \ {w} = {} THEN "clean" ELSE "loop")
           /\ bg'.todo = bg.held \ {w} /\ bg'.held = bg.held \ {w} /\ bg'.ok = FALSE
<1>0. /\ bg \in ToolType /\ bg.cur \in Threads /\ bg.todo \subseteq Threads /\ bg.held \subseteq Threads
      /\ tool \in [{"bg", "fg"} -> ToolType]
  BY Threads1 DEF TypeOK
<1>1. {"clean", "loop"} \subseteq WorkerPcs \cup CallerPcs
  BY DEF WorkerPcs, CallerPcs, Sys, InnerSys, Early, Poll, SwPoll, Cleaning, Tracing, Hijacked
<1> DEFINE c == [bg EXCEPT !.held = bg.held \ {w}, !.pc = IF w = Main \/ bg.held \ {w} = {} THEN "clean" ELSE "loop", !.todo = bg.held \ {w}, !.ok = FALSE]
<1>2. tool' = [tool EXCEPT !["bg"] = c]
  BY <1>0, <1>1 DEF Exited, Goto, bg
<1>3. /\ c \in ToolType
      /\ c.kind = bg.kind /\ c.ret = bg.ret /\ c.n = bg.n
      /\ c.cur = bg.cur /\ c.failed = bg.failed /\ c.pc = (IF w = Main \/ bg.held \ {w} = {} THEN "clean" ELSE "loop")
      /\ c.todo = bg.held \ {w} /\ c.held = bg.held \ {w} /\ c.ok = FALSE
  BY <1>0, <1>1 DEF ToolType
<1> HIDE DEF c
<1> QED BY <1>0, <1>2, <1>3 DEF bg, fg

LEMMA LeaveTool ==
    ASSUME TypeOK, LeaveLoop
    PROVE  /\ tool' \in [{"bg", "fg"} -> ToolType] /\ fg' = fg
           /\ bg'.kind = bg.kind /\ bg'.ret = bg.ret /\ bg'.n = bg.n
           /\ bg'.held = bg.held /\ bg'.cur = bg.cur /\ bg'.failed = bg.failed
           /\ bg'.pc = "clean" /\ bg'.todo = bg.held /\ bg'.ok = FALSE
<1>0. /\ bg \in ToolType /\ bg.cur \in Threads /\ bg.todo \subseteq Threads /\ bg.held \subseteq Threads
      /\ tool \in [{"bg", "fg"} -> ToolType]
  BY Threads1 DEF TypeOK
<1>1. {"clean"} \subseteq WorkerPcs \cup CallerPcs
  BY DEF WorkerPcs, CallerPcs, Sys, InnerSys, Early, Poll, SwPoll, Cleaning, Tracing, Hijacked
<1> DEFINE c == [bg EXCEPT !.pc = "clean", !.todo = bg.held, !.ok = FALSE]
<1>2. tool' = [tool EXCEPT !["bg"] = c]
  BY <1>0, <1>1 DEF LeaveLoop, Goto, bg
<1>3. /\ c \in ToolType
      /\ c.kind = bg.kind /\ c.ret = bg.ret /\ c.n = bg.n
      /\ c.held = bg.held /\ c.cur = bg.cur /\ c.failed = bg.failed
      /\ c.pc = "clean" /\ c.todo = bg.held /\ c.ok = FALSE
  BY <1>0, <1>1 DEF ToolType
<1> HIDE DEF c
<1> QED BY <1>0, <1>2, <1>3 DEF bg, fg

LEMMA CleanTool ==
    ASSUME TypeOK, NEW t, t = Min(bg.todo), CleanThread
    PROVE  /\ tool' \in [{"bg", "fg"} -> ToolType] /\ fg' = fg
           /\ th[t].by = "bg" /\ t \in Listed =>
                /\ bg'.kind = bg.kind /\ bg'.ret = bg.ret /\ bg'.n = bg.n
                /\ bg'.held = bg.held /\ bg'.ok = bg.ok /\ bg'.failed = bg.failed
                /\ bg'.pc = "clean_wait" /\ bg'.todo = bg.todo \ {t} /\ bg'.cur = t
           /\ ~(th[t].by = "bg" /\ t \in Listed) =>
                /\ bg'.kind = bg.kind /\ bg'.ret = bg.ret /\ bg'.n = bg.n
                /\ bg'.held = bg.held /\ bg'.cur = bg.cur /\ bg'.ok = bg.ok
                /\ bg'.failed = bg.failed /\ bg'.pc = bg.pc /\ bg'.todo = bg.todo \ {t}
<1>0. /\ bg \in ToolType /\ bg.cur \in Threads /\ bg.todo \subseteq Threads /\ bg.held \subseteq Threads
      /\ tool \in [{"bg", "fg"} -> ToolType]
  BY Threads1 DEF TypeOK
<1>1. {"clean_wait"} \subseteq WorkerPcs \cup CallerPcs
  BY DEF WorkerPcs, CallerPcs, Sys, InnerSys, Early, Poll, SwPoll, Cleaning, Tracing, Hijacked
<1>2. t \in Threads /\ t \in bg.todo
  BY <1>0, MinIn DEF CleanThread
<1>3. CASE th[t].by = "bg" /\ t \in Listed
  <2> DEFINE c == [bg EXCEPT !.pc = "clean_wait", !.cur = t, !.todo = bg.todo \ {t}]
  <2>1. tool' = [tool EXCEPT !["bg"] = c]
    BY <1>0, <1>1, <1>2, <1>3 DEF CleanThread, Goto, bg
  <2>2. /\ c \in ToolType
        /\ c.kind = bg.kind /\ c.ret = bg.ret /\ c.n = bg.n
        /\ c.held = bg.held /\ c.ok = bg.ok /\ c.failed = bg.failed
        /\ c.pc = "clean_wait" /\ c.todo = bg.todo \ {t} /\ c.cur = t
    BY <1>0, <1>1, <1>2, <1>3 DEF ToolType
  <2> HIDE DEF c
  <2> QED BY <1>0, <1>3, <2>1, <2>2 DEF bg, fg
<1>4. CASE ~(th[t].by = "bg" /\ t \in Listed)
  <2> DEFINE c == [bg EXCEPT !.todo = bg.todo \ {t}]
  <2>1. tool' = [tool EXCEPT !["bg"] = c]
    BY <1>0, <1>1, <1>2, <1>4 DEF CleanThread, Goto, bg
  <2>2. /\ c \in ToolType
        /\ c.kind = bg.kind /\ c.ret = bg.ret /\ c.n = bg.n
        /\ c.held = bg.held /\ c.cur = bg.cur /\ c.ok = bg.ok
        /\ c.failed = bg.failed /\ c.pc = bg.pc /\ c.todo = bg.todo \ {t}
    BY <1>0, <1>1, <1>2, <1>4 DEF ToolType
  <2> HIDE DEF c
  <2> QED BY <1>0, <1>4, <2>1, <2>2 DEF bg, fg
<1> QED BY <1>3, <1>4 DEF CleanThread

LEMMA ReleaseTool ==
    ASSUME TypeOK, Release
    PROVE  /\ tool' \in [{"bg", "fg"} -> ToolType] /\ fg' = fg
           /\ bg'.kind = bg.kind /\ bg'.ret = bg.ret /\ bg'.n = bg.n
           /\ bg'.todo = bg.todo /\ bg'.held = bg.held /\ bg'.cur = bg.cur
           /\ bg'.failed = bg.failed /\ bg'.pc = "clean" /\ bg'.ok = (bg.ok \/ th[bg.cur].life = "stop")
<1>0. /\ bg \in ToolType /\ bg.cur \in Threads /\ bg.todo \subseteq Threads /\ bg.held \subseteq Threads
      /\ tool \in [{"bg", "fg"} -> ToolType]
  BY Threads1 DEF TypeOK
<1>1. {"clean"} \subseteq WorkerPcs \cup CallerPcs
  BY DEF WorkerPcs, CallerPcs, Sys, InnerSys, Early, Poll, SwPoll, Cleaning, Tracing, Hijacked
<1> DEFINE c == [bg EXCEPT !.pc = "clean", !.ok = (bg.ok \/ th[bg.cur].life = "stop")]
<1>2. tool' = [tool EXCEPT !["bg"] = c]
  BY <1>0, <1>1 DEF Release, Goto, bg
<1>3. /\ c \in ToolType
      /\ c.kind = bg.kind /\ c.ret = bg.ret /\ c.n = bg.n
      /\ c.todo = bg.todo /\ c.held = bg.held /\ c.cur = bg.cur
      /\ c.failed = bg.failed /\ c.pc = "clean" /\ c.ok = (bg.ok \/ th[bg.cur].life = "stop")
  BY <1>0, <1>1 DEF ToolType
<1> HIDE DEF c
<1> QED BY <1>0, <1>2, <1>3 DEF bg, fg

LEMMA CleanedTool ==
    ASSUME TypeOK, Cleaned
    PROVE  /\ tool' \in [{"bg", "fg"} -> ToolType] /\ fg' = fg
           /\ bg.kind = "sw" =>
                /\ bg'.kind = bg.kind /\ bg'.n = bg.n /\ bg'.todo = bg.todo
                /\ bg'.held = bg.held /\ bg'.cur = bg.cur /\ bg'.ok = bg.ok
                /\ bg'.failed = bg.failed /\ bg'.pc = "sys_seize" /\ bg'.ret = "end"
           /\ bg.kind # "sw" =>
                /\ bg'.kind = bg.kind /\ bg'.ret = bg.ret /\ bg'.n = bg.n
                /\ bg'.todo = bg.todo /\ bg'.held = bg.held /\ bg'.cur = bg.cur
                /\ bg'.ok = bg.ok /\ bg'.failed = bg.failed /\ bg'.pc = "end"
<1>0. /\ bg \in ToolType /\ bg.cur \in Threads /\ bg.todo \subseteq Threads /\ bg.held \subseteq Threads
      /\ tool \in [{"bg", "fg"} -> ToolType]
  BY Threads1 DEF TypeOK
<1>1. {"end", "sys_seize"} \subseteq WorkerPcs \cup CallerPcs
  BY DEF WorkerPcs, CallerPcs, Sys, InnerSys, Early, Poll, SwPoll, Cleaning, Tracing, Hijacked
<1>2. CASE bg.kind = "sw"
  <2> DEFINE c == [bg EXCEPT !.pc = "sys_seize", !.op = "free", !.ret = "end"]
  <2>1. tool' = [tool EXCEPT !["bg"] = c]
    BY <1>0, <1>1, <1>2 DEF Cleaned, Goto, bg
  <2>2. /\ c \in ToolType
        /\ c.kind = bg.kind /\ c.n = bg.n /\ c.todo = bg.todo
        /\ c.held = bg.held /\ c.cur = bg.cur /\ c.ok = bg.ok
        /\ c.failed = bg.failed /\ c.pc = "sys_seize" /\ c.ret = "end"
    BY <1>0, <1>1, <1>2 DEF ToolType
  <2> HIDE DEF c
  <2> QED BY <1>0, <1>2, <2>1, <2>2 DEF bg, fg
<1>3. CASE bg.kind # "sw"
  <2> DEFINE c == [bg EXCEPT !.pc = "end"]
  <2>1. tool' = [tool EXCEPT !["bg"] = c]
    BY <1>0, <1>1, <1>3 DEF Cleaned, Goto, bg
  <2>2. /\ c \in ToolType
        /\ c.kind = bg.kind /\ c.ret = bg.ret /\ c.n = bg.n
        /\ c.todo = bg.todo /\ c.held = bg.held /\ c.cur = bg.cur
        /\ c.ok = bg.ok /\ c.failed = bg.failed /\ c.pc = "end"
    BY <1>0, <1>1, <1>3 DEF ToolType
  <2> HIDE DEF c
  <2> QED BY <1>0, <1>3, <2>1, <2>2 DEF bg, fg
<1> QED BY <1>2, <1>3 DEF Cleaned

LEMMA ListTool ==
    ASSUME TypeOK, ListPass
    PROVE  /\ tool' \in [{"bg", "fg"} -> ToolType] /\ fg' = fg
           /\ bg.n = 0 /\ ~bg.ok =>
                /\ bg'.kind = bg.kind /\ bg'.ret = bg.ret /\ bg'.n = bg.n
                /\ bg'.todo = bg.todo /\ bg'.held = bg.held /\ bg'.cur = bg.cur
                /\ bg'.ok = bg.ok /\ bg'.failed = bg.failed /\ bg'.pc = "end"
           /\ ~(bg.n = 0 /\ ~bg.ok) =>
                /\ bg'.kind = bg.kind /\ bg'.ret = bg.ret /\ bg'.held = bg.held
                /\ bg'.cur = bg.cur /\ bg'.failed = bg.failed /\ bg'.pc = "seize"
                /\ bg'.n = bg.n + 1 /\ bg'.todo = Listed \ bg.held /\ bg'.ok = FALSE
<1>0. /\ bg \in ToolType /\ bg.cur \in Threads /\ bg.todo \subseteq Threads /\ bg.held \subseteq Threads
      /\ tool \in [{"bg", "fg"} -> ToolType]
  BY Threads1 DEF TypeOK
<1>1. {"end", "seize"} \subseteq WorkerPcs \cup CallerPcs
  BY DEF WorkerPcs, CallerPcs, Sys, InnerSys, Early, Poll, SwPoll, Cleaning, Tracing, Hijacked
<1>2. Listed \ bg.held \in SUBSET Threads /\ bg.n + 1 \in Nat
  BY <1>0 DEF Listed, ToolType
<1>3. CASE bg.n = 0 /\ ~bg.ok
  <2> DEFINE c == [bg EXCEPT !.pc = "end"]
  <2>1. tool' = [tool EXCEPT !["bg"] = c]
    BY <1>0, <1>1, <1>2, <1>3 DEF ListPass, Goto, bg
  <2>2. /\ c \in ToolType
        /\ c.kind = bg.kind /\ c.ret = bg.ret /\ c.n = bg.n
        /\ c.todo = bg.todo /\ c.held = bg.held /\ c.cur = bg.cur
        /\ c.ok = bg.ok /\ c.failed = bg.failed /\ c.pc = "end"
    BY <1>0, <1>1, <1>2, <1>3 DEF ToolType
  <2> HIDE DEF c
  <2> QED BY <1>0, <1>3, <2>1, <2>2 DEF bg, fg
<1>4. CASE ~(bg.n = 0 /\ ~bg.ok)
  <2> DEFINE c == [bg EXCEPT !.pc = "seize", !.todo = Listed \ bg.held, !.n = bg.n + 1, !.ok = FALSE]
  <2>1. tool' = [tool EXCEPT !["bg"] = c]
    BY <1>0, <1>1, <1>2, <1>4 DEF ListPass, Goto, bg
  <2>2. /\ c \in ToolType
        /\ c.kind = bg.kind /\ c.ret = bg.ret /\ c.held = bg.held
        /\ c.cur = bg.cur /\ c.failed = bg.failed /\ c.pc = "seize"
        /\ c.n = bg.n + 1 /\ c.todo = Listed \ bg.held /\ c.ok = FALSE
    BY <1>0, <1>1, <1>2, <1>4 DEF ToolType
  <2> HIDE DEF c
  <2> QED BY <1>0, <1>4, <2>1, <2>2 DEF bg, fg
<1> QED BY <1>3, <1>4 DEF ListPass

LEMMA PassTool ==
    ASSUME TypeOK, NEW t, t = Min(bg.held), PassDone
    PROVE  /\ tool' \in [{"bg", "fg"} -> ToolType] /\ fg' = fg
           /\ PassNeeded =>
                /\ bg'.kind = bg.kind /\ bg'.ret = bg.ret /\ bg'.n = bg.n
                /\ bg'.todo = bg.todo /\ bg'.held = bg.held /\ bg'.cur = bg.cur
                /\ bg'.ok = bg.ok /\ bg'.failed = bg.failed /\ bg'.pc = "sw_list"
           /\ ~PassNeeded /\ bg.held = {} =>
                /\ bg'.kind = bg.kind /\ bg'.n = bg.n /\ bg'.todo = bg.todo
                /\ bg'.held = bg.held /\ bg'.cur = bg.cur /\ bg'.ok = bg.ok
                /\ bg'.failed = bg.failed /\ bg'.pc = "sys_seize" /\ bg'.ret = "end"
           /\ ~PassNeeded /\ bg.held # {} /\ t \in Listed =>
                /\ bg'.kind = bg.kind /\ bg'.ret = bg.ret /\ bg'.n = bg.n
                /\ bg'.todo = bg.todo /\ bg'.held = bg.held /\ bg'.ok = bg.ok
                /\ bg'.failed = bg.failed /\ bg'.pc = "await" /\ bg'.cur = t
           /\ ~PassNeeded /\ bg.held # {} /\ t \notin Listed =>
                /\ bg'.kind = bg.kind /\ bg'.ret = bg.ret /\ bg'.n = bg.n
                /\ bg'.todo = bg.todo /\ bg'.held = bg.held /\ bg'.cur = bg.cur
                /\ bg'.ok = bg.ok /\ bg'.failed = bg.failed /\ bg'.pc = "loop"
<1>0. /\ bg \in ToolType /\ bg.cur \in Threads /\ bg.todo \subseteq Threads /\ bg.held \subseteq Threads
      /\ tool \in [{"bg", "fg"} -> ToolType]
  BY Threads1 DEF TypeOK
<1>1. {"await", "loop", "sw_list", "sys_seize"} \subseteq WorkerPcs \cup CallerPcs
  BY DEF WorkerPcs, CallerPcs, Sys, InnerSys, Early, Poll, SwPoll, Cleaning, Tracing, Hijacked
<1>2. bg.held # {} => t \in Threads /\ t \in bg.held
  BY <1>0, MinIn
<1>3. CASE PassNeeded
  <2> DEFINE c == [bg EXCEPT !.pc = "sw_list"]
  <2>1. tool' = [tool EXCEPT !["bg"] = c]
    BY <1>0, <1>1, <1>2, <1>3 DEF PassDone, Goto, bg
  <2>2. /\ c \in ToolType
        /\ c.kind = bg.kind /\ c.ret = bg.ret /\ c.n = bg.n
        /\ c.todo = bg.todo /\ c.held = bg.held /\ c.cur = bg.cur
        /\ c.ok = bg.ok /\ c.failed = bg.failed /\ c.pc = "sw_list"
    BY <1>0, <1>1, <1>2, <1>3 DEF ToolType
  <2> HIDE DEF c
  <2> QED BY <1>0, <1>3, <2>1, <2>2 DEF bg, fg
<1>4. CASE ~PassNeeded /\ bg.held = {}
  <2> DEFINE c == [bg EXCEPT !.pc = "sys_seize", !.op = "free", !.ret = "end"]
  <2>1. tool' = [tool EXCEPT !["bg"] = c]
    BY <1>0, <1>1, <1>2, <1>4 DEF PassDone, Goto, bg
  <2>2. /\ c \in ToolType
        /\ c.kind = bg.kind /\ c.n = bg.n /\ c.todo = bg.todo
        /\ c.held = bg.held /\ c.cur = bg.cur /\ c.ok = bg.ok
        /\ c.failed = bg.failed /\ c.pc = "sys_seize" /\ c.ret = "end"
    BY <1>0, <1>1, <1>2, <1>4 DEF ToolType
  <2> HIDE DEF c
  <2> QED BY <1>0, <1>4, <2>1, <2>2 DEF bg, fg
<1>5. CASE ~PassNeeded /\ bg.held # {} /\ t \in Listed
  <2> DEFINE c == [bg EXCEPT !.pc = "await", !.cur = t]
  <2>1. tool' = [tool EXCEPT !["bg"] = c]
    BY <1>0, <1>1, <1>2, <1>5 DEF PassDone, Goto, bg
  <2>2. /\ c \in ToolType
        /\ c.kind = bg.kind /\ c.ret = bg.ret /\ c.n = bg.n
        /\ c.todo = bg.todo /\ c.held = bg.held /\ c.ok = bg.ok
        /\ c.failed = bg.failed /\ c.pc = "await" /\ c.cur = t
    BY <1>0, <1>1, <1>2, <1>5 DEF ToolType
  <2> HIDE DEF c
  <2> QED BY <1>0, <1>5, <2>1, <2>2 DEF bg, fg
<1>6. CASE ~PassNeeded /\ bg.held # {} /\ t \notin Listed
  <2> DEFINE c == [bg EXCEPT !.pc = "loop"]
  <2>1. tool' = [tool EXCEPT !["bg"] = c]
    BY <1>0, <1>1, <1>2, <1>6 DEF PassDone, Goto, bg
  <2>2. /\ c \in ToolType
        /\ c.kind = bg.kind /\ c.ret = bg.ret /\ c.n = bg.n
        /\ c.todo = bg.todo /\ c.held = bg.held /\ c.cur = bg.cur
        /\ c.ok = bg.ok /\ c.failed = bg.failed /\ c.pc = "loop"
    BY <1>0, <1>1, <1>2, <1>6 DEF ToolType
  <2> HIDE DEF c
  <2> QED BY <1>0, <1>6, <2>1, <2>2 DEF bg, fg
<1> QED BY <1>3, <1>4, <1>5, <1>6 DEF PassDone

LEMMA FaultTool ==
    ASSUME TypeOK, NEW w \in Threads, Fault(w)
    PROVE  /\ tool' \in [{"bg", "fg"} -> ToolType] /\ fg' = fg
           /\ bg'.kind = bg.kind /\ bg'.ret = bg.ret /\ bg'.n = bg.n
           /\ bg'.todo = bg.todo /\ bg'.held = bg.held /\ bg'.ok = bg.ok
           /\ bg'.failed = bg.failed /\ bg'.pc = "unprotect" /\ bg'.cur = w
<1>0. /\ bg \in ToolType /\ bg.cur \in Threads /\ bg.todo \subseteq Threads /\ bg.held \subseteq Threads
      /\ tool \in [{"bg", "fg"} -> ToolType]
  BY Threads1 DEF TypeOK
<1>1. {"unprotect"} \subseteq WorkerPcs \cup CallerPcs
  BY DEF WorkerPcs, CallerPcs, Sys, InnerSys, Early, Poll, SwPoll, Cleaning, Tracing, Hijacked
<1> DEFINE c == [bg EXCEPT !.pc = "unprotect", !.cur = w]
<1>2. tool' = [tool EXCEPT !["bg"] = c]
  BY <1>0, <1>1 DEF Fault, Goto, bg
<1>3. /\ c \in ToolType
      /\ c.kind = bg.kind /\ c.ret = bg.ret /\ c.n = bg.n
      /\ c.todo = bg.todo /\ c.held = bg.held /\ c.ok = bg.ok
      /\ c.failed = bg.failed /\ c.pc = "unprotect" /\ c.cur = w
  BY <1>0, <1>1 DEF ToolType
<1> HIDE DEF c
<1> QED BY <1>0, <1>2, <1>3 DEF bg, fg

LEMMA TraceEventTool ==
    ASSUME TypeOK, NEW w \in Threads, TraceEvent(w)
    PROVE  /\ tool' \in [{"bg", "fg"} -> ToolType] /\ fg' = fg
           /\ th[w].life = "zombie" =>
                /\ bg'.kind = bg.kind /\ bg'.ret = bg.ret /\ bg'.n = bg.n
                /\ bg'.todo = bg.todo /\ bg'.cur = bg.cur /\ bg'.ok = bg.ok
                /\ bg'.failed = bg.failed /\ bg'.pc = (IF w = Main \/ bg.held \ {w} = {} \/ stop THEN "detach_all" ELSE "trace_wait") /\ bg'.held = bg.held \ {w}
           /\ th[w].life # "zombie" /\ th[w].why = "start" /\ Stopped(w, "bg") =>
                /\ bg'.kind = bg.kind /\ bg'.ret = bg.ret /\ bg'.n = bg.n
                /\ bg'.todo = bg.todo /\ bg'.held = bg.held /\ bg'.ok = bg.ok
                /\ bg'.failed = bg.failed /\ bg'.pc = "disarm" /\ bg'.cur = w
           /\ th[w].life # "zombie" /\ ~(th[w].why = "start" /\ Stopped(w, "bg")) =>
                /\ bg'.kind = bg.kind /\ bg'.ret = bg.ret /\ bg'.n = bg.n
                /\ bg'.todo = bg.todo /\ bg'.held = bg.held /\ bg'.cur = bg.cur
                /\ bg'.ok = bg.ok /\ bg'.failed = bg.failed /\ bg'.pc = (IF stop THEN "detach_all" ELSE "trace_wait")
<1>0. /\ bg \in ToolType /\ bg.cur \in Threads /\ bg.todo \subseteq Threads /\ bg.held \subseteq Threads
      /\ tool \in [{"bg", "fg"} -> ToolType]
  BY Threads1 DEF TypeOK
<1>1. {"detach_all", "disarm", "trace_wait"} \subseteq WorkerPcs \cup CallerPcs
  BY DEF WorkerPcs, CallerPcs, Sys, InnerSys, Early, Poll, SwPoll, Cleaning, Tracing, Hijacked
<1>2. CASE th[w].life = "zombie"
  <2> DEFINE c == [bg EXCEPT !.held = bg.held \ {w}, !.pc = IF w = Main \/ bg.held \ {w} = {} \/ stop THEN "detach_all" ELSE "trace_wait"]
  <2>1. tool' = [tool EXCEPT !["bg"] = c]
    BY <1>0, <1>1, <1>2 DEF TraceEvent, Goto, bg
  <2>2. /\ c \in ToolType
        /\ c.kind = bg.kind /\ c.ret = bg.ret /\ c.n = bg.n
        /\ c.todo = bg.todo /\ c.cur = bg.cur /\ c.ok = bg.ok
        /\ c.failed = bg.failed /\ c.pc = (IF w = Main \/ bg.held \ {w} = {} \/ stop THEN "detach_all" ELSE "trace_wait") /\ c.held = bg.held \ {w}
    BY <1>0, <1>1, <1>2 DEF ToolType
  <2> HIDE DEF c
  <2> QED BY <1>0, <1>2, <2>1, <2>2 DEF bg, fg
<1>3. CASE th[w].life # "zombie" /\ th[w].why = "start" /\ Stopped(w, "bg")
  <2> DEFINE c == [bg EXCEPT !.pc = "disarm", !.cur = w]
  <2>1. tool' = [tool EXCEPT !["bg"] = c]
    BY <1>0, <1>1, <1>3 DEF TraceEvent, Goto, bg
  <2>2. /\ c \in ToolType
        /\ c.kind = bg.kind /\ c.ret = bg.ret /\ c.n = bg.n
        /\ c.todo = bg.todo /\ c.held = bg.held /\ c.ok = bg.ok
        /\ c.failed = bg.failed /\ c.pc = "disarm" /\ c.cur = w
    BY <1>0, <1>1, <1>3 DEF ToolType
  <2> HIDE DEF c
  <2> QED BY <1>0, <1>3, <2>1, <2>2 DEF bg, fg
<1>4. CASE th[w].life # "zombie" /\ ~(th[w].why = "start" /\ Stopped(w, "bg"))
  <2> DEFINE c == [bg EXCEPT !.pc = IF stop THEN "detach_all" ELSE "trace_wait"]
  <2>1. tool' = [tool EXCEPT !["bg"] = c]
    BY <1>0, <1>1, <1>4 DEF TraceEvent, Goto, bg
  <2>2. /\ c \in ToolType
        /\ c.kind = bg.kind /\ c.ret = bg.ret /\ c.n = bg.n
        /\ c.todo = bg.todo /\ c.held = bg.held /\ c.cur = bg.cur
        /\ c.ok = bg.ok /\ c.failed = bg.failed /\ c.pc = (IF stop THEN "detach_all" ELSE "trace_wait")
    BY <1>0, <1>1, <1>4 DEF ToolType
  <2> HIDE DEF c
  <2> QED BY <1>0, <1>4, <2>1, <2>2 DEF bg, fg
<1> QED BY <1>2, <1>3, <1>4 DEF TraceEvent

LEMMA DisarmTool ==
    ASSUME TypeOK, Disarm
    PROVE  /\ tool' \in [{"bg", "fg"} -> ToolType] /\ fg' = fg
           /\ bg'.kind = bg.kind /\ bg'.ret = bg.ret /\ bg'.n = bg.n
           /\ bg'.held = bg.held /\ bg'.cur = bg.cur /\ bg'.ok = bg.ok
           /\ bg'.failed = bg.failed /\ bg'.pc = "freeze" /\ bg'.todo = bg.held \ {bg.cur}
<1>0. /\ bg \in ToolType /\ bg.cur \in Threads /\ bg.todo \subseteq Threads /\ bg.held \subseteq Threads
      /\ tool \in [{"bg", "fg"} -> ToolType]
  BY Threads1 DEF TypeOK
<1>1. {"freeze"} \subseteq WorkerPcs \cup CallerPcs
  BY DEF WorkerPcs, CallerPcs, Sys, InnerSys, Early, Poll, SwPoll, Cleaning, Tracing, Hijacked
<1> DEFINE c == [bg EXCEPT !.pc = "freeze", !.todo = bg.held \ {bg.cur}]
<1>2. tool' = [tool EXCEPT !["bg"] = c]
  BY <1>0, <1>1 DEF Disarm, Goto, bg
<1>3. /\ c \in ToolType
      /\ c.kind = bg.kind /\ c.ret = bg.ret /\ c.n = bg.n
      /\ c.held = bg.held /\ c.cur = bg.cur /\ c.ok = bg.ok
      /\ c.failed = bg.failed /\ c.pc = "freeze" /\ c.todo = bg.held \ {bg.cur}
  BY <1>0, <1>1 DEF ToolType
<1> HIDE DEF c
<1> QED BY <1>0, <1>2, <1>3 DEF bg, fg

LEMMA FreezeTool ==
    ASSUME TypeOK, NEW t, t = Min(bg.todo), Freeze
    PROVE  /\ tool' \in [{"bg", "fg"} -> ToolType] /\ fg' = fg
           /\ t \in Listed /\ th[t].by = "bg" =>
                /\ bg'.kind = bg.kind /\ bg'.ret = bg.ret /\ bg'.n = bg.n
                /\ bg'.todo = bg.todo /\ bg'.held = bg.held /\ bg'.cur = bg.cur
                /\ bg'.ok = bg.ok /\ bg'.failed = bg.failed /\ bg'.pc = "freeze_wait"
           /\ ~(t \in Listed /\ th[t].by = "bg") =>
                /\ bg'.kind = bg.kind /\ bg'.ret = bg.ret /\ bg'.n = bg.n
                /\ bg'.held = bg.held /\ bg'.cur = bg.cur /\ bg'.ok = bg.ok
                /\ bg'.failed = bg.failed /\ bg'.pc = bg.pc /\ bg'.todo = bg.todo \ {t}
<1>0. /\ bg \in ToolType /\ bg.cur \in Threads /\ bg.todo \subseteq Threads /\ bg.held \subseteq Threads
      /\ tool \in [{"bg", "fg"} -> ToolType]
  BY Threads1 DEF TypeOK
<1>1. {"freeze_wait"} \subseteq WorkerPcs \cup CallerPcs
  BY DEF WorkerPcs, CallerPcs, Sys, InnerSys, Early, Poll, SwPoll, Cleaning, Tracing, Hijacked
<1>2. CASE t \in Listed /\ th[t].by = "bg"
  <2> DEFINE c == [bg EXCEPT !.pc = "freeze_wait"]
  <2>1. tool' = [tool EXCEPT !["bg"] = c]
    BY <1>0, <1>1, <1>2 DEF Freeze, Goto, bg
  <2>2. /\ c \in ToolType
        /\ c.kind = bg.kind /\ c.ret = bg.ret /\ c.n = bg.n
        /\ c.todo = bg.todo /\ c.held = bg.held /\ c.cur = bg.cur
        /\ c.ok = bg.ok /\ c.failed = bg.failed /\ c.pc = "freeze_wait"
    BY <1>0, <1>1, <1>2 DEF ToolType
  <2> HIDE DEF c
  <2> QED BY <1>0, <1>2, <2>1, <2>2 DEF bg, fg
<1>3. CASE ~(t \in Listed /\ th[t].by = "bg")
  <2> DEFINE c == [bg EXCEPT !.todo = bg.todo \ {t}]
  <2>1. tool' = [tool EXCEPT !["bg"] = c]
    BY <1>0, <1>1, <1>3 DEF Freeze, Goto, bg
  <2>2. /\ c \in ToolType
        /\ c.kind = bg.kind /\ c.ret = bg.ret /\ c.n = bg.n
        /\ c.held = bg.held /\ c.cur = bg.cur /\ c.ok = bg.ok
        /\ c.failed = bg.failed /\ c.pc = bg.pc /\ c.todo = bg.todo \ {t}
    BY <1>0, <1>1, <1>3 DEF ToolType
  <2> HIDE DEF c
  <2> QED BY <1>0, <1>3, <2>1, <2>2 DEF bg, fg
<1> QED BY <1>2, <1>3 DEF Freeze

LEMMA FreezeWaitTool ==
    ASSUME TypeOK, NEW t, t = Min(bg.todo), FreezeWait
    PROVE  /\ tool' \in [{"bg", "fg"} -> ToolType] /\ fg' = fg
           /\ bg'.kind = bg.kind /\ bg'.ret = bg.ret /\ bg'.n = bg.n
           /\ bg'.held = bg.held /\ bg'.cur = bg.cur /\ bg'.ok = bg.ok
           /\ bg'.failed = bg.failed /\ bg'.pc = "freeze" /\ bg'.todo = bg.todo \ {t}
<1>0. /\ bg \in ToolType /\ bg.cur \in Threads /\ bg.todo \subseteq Threads /\ bg.held \subseteq Threads
      /\ tool \in [{"bg", "fg"} -> ToolType]
  BY Threads1 DEF TypeOK
<1>1. {"freeze"} \subseteq WorkerPcs \cup CallerPcs
  BY DEF WorkerPcs, CallerPcs, Sys, InnerSys, Early, Poll, SwPoll, Cleaning, Tracing, Hijacked
<1> DEFINE c == [bg EXCEPT !.pc = "freeze", !.todo = bg.todo \ {t}]
<1>2. tool' = [tool EXCEPT !["bg"] = c]
  BY <1>0, <1>1 DEF FreezeWait, Goto, bg
<1>3. /\ c \in ToolType
      /\ c.kind = bg.kind /\ c.ret = bg.ret /\ c.n = bg.n
      /\ c.held = bg.held /\ c.cur = bg.cur /\ c.ok = bg.ok
      /\ c.failed = bg.failed /\ c.pc = "freeze" /\ c.todo = bg.todo \ {t}
  BY <1>0, <1>1 DEF ToolType
<1> HIDE DEF c
<1> QED BY <1>0, <1>2, <1>3 DEF bg, fg

LEMMA TraceStepTool ==
    ASSUME TypeOK, TraceStep
    PROVE  /\ tool' \in [{"bg", "fg"} -> ToolType] /\ fg' = fg
           /\ bg.n < MaxSteps /\ ~stop /\ Stopped(bg.cur, "bg") =>
                /\ bg'.kind = bg.kind /\ bg'.ret = bg.ret /\ bg'.todo = bg.todo
                /\ bg'.held = bg.held /\ bg'.cur = bg.cur /\ bg'.ok = bg.ok
                /\ bg'.failed = bg.failed /\ bg'.pc = bg.pc /\ bg'.n = bg.n + 1
           /\ ~(bg.n < MaxSteps /\ ~stop /\ Stopped(bg.cur, "bg")) =>
                /\ bg'.kind = bg.kind /\ bg'.ret = bg.ret /\ bg'.n = bg.n
                /\ bg'.todo = bg.todo /\ bg'.held = bg.held /\ bg'.cur = bg.cur
                /\ bg'.ok = bg.ok /\ bg'.failed = bg.failed /\ bg'.pc = "detach_all"
<1>0. /\ bg \in ToolType /\ bg.cur \in Threads /\ bg.todo \subseteq Threads /\ bg.held \subseteq Threads
      /\ tool \in [{"bg", "fg"} -> ToolType]
  BY Threads1 DEF TypeOK
<1>1. {"detach_all"} \subseteq WorkerPcs \cup CallerPcs
  BY DEF WorkerPcs, CallerPcs, Sys, InnerSys, Early, Poll, SwPoll, Cleaning, Tracing, Hijacked
<1>2. bg.n + 1 \in Nat
  BY <1>0 DEF ToolType
<1>3. CASE bg.n < MaxSteps /\ ~stop /\ Stopped(bg.cur, "bg")
  <2> DEFINE c == [bg EXCEPT !.n = bg.n + 1]
  <2>1. tool' = [tool EXCEPT !["bg"] = c]
    BY <1>0, <1>1, <1>2, <1>3 DEF TraceStep, Goto, bg
  <2>2. /\ c \in ToolType
        /\ c.kind = bg.kind /\ c.ret = bg.ret /\ c.todo = bg.todo
        /\ c.held = bg.held /\ c.cur = bg.cur /\ c.ok = bg.ok
        /\ c.failed = bg.failed /\ c.pc = bg.pc /\ c.n = bg.n + 1
    BY <1>0, <1>1, <1>2, <1>3 DEF ToolType
  <2> HIDE DEF c
  <2> QED BY <1>0, <1>3, <2>1, <2>2 DEF bg, fg
<1>4. CASE ~(bg.n < MaxSteps /\ ~stop /\ Stopped(bg.cur, "bg"))
  <2> DEFINE c == [bg EXCEPT !.pc = "detach_all"]
  <2>1. tool' = [tool EXCEPT !["bg"] = c]
    BY <1>0, <1>1, <1>2, <1>4 DEF TraceStep, Goto, bg
  <2>2. /\ c \in ToolType
        /\ c.kind = bg.kind /\ c.ret = bg.ret /\ c.n = bg.n
        /\ c.todo = bg.todo /\ c.held = bg.held /\ c.cur = bg.cur
        /\ c.ok = bg.ok /\ c.failed = bg.failed /\ c.pc = "detach_all"
    BY <1>0, <1>1, <1>2, <1>4 DEF ToolType
  <2> HIDE DEF c
  <2> QED BY <1>0, <1>4, <2>1, <2>2 DEF bg, fg
<1> QED BY <1>3, <1>4 DEF TraceStep

LEMMA GuardTool ==
    ASSUME TypeOK, GuardPage
    PROVE  /\ tool' \in [{"bg", "fg"} -> ToolType] /\ fg' = fg
           /\ bg'.kind = bg.kind /\ bg'.ret = bg.ret /\ bg'.n = bg.n
           /\ bg'.todo = bg.todo /\ bg'.held = bg.held /\ bg'.cur = bg.cur
           /\ bg'.ok = bg.ok /\ bg'.failed = bg.failed /\ bg'.pc = "loop"
<1>0. /\ bg \in ToolType /\ bg.cur \in Threads /\ bg.todo \subseteq Threads /\ bg.held \subseteq Threads
      /\ tool \in [{"bg", "fg"} -> ToolType]
  BY Threads1 DEF TypeOK
<1>1. {"loop"} \subseteq WorkerPcs \cup CallerPcs
  BY DEF WorkerPcs, CallerPcs, Sys, InnerSys, Early, Poll, SwPoll, Cleaning, Tracing, Hijacked
<1> DEFINE c == [bg EXCEPT !.pc = "loop"]
<1>2. tool' = [tool EXCEPT !["bg"] = c]
  BY <1>0, <1>1 DEF GuardPage, Goto, bg
<1>3. /\ c \in ToolType
      /\ c.kind = bg.kind /\ c.ret = bg.ret /\ c.n = bg.n
      /\ c.todo = bg.todo /\ c.held = bg.held /\ c.cur = bg.cur
      /\ c.ok = bg.ok /\ c.failed = bg.failed /\ c.pc = "loop"
  BY <1>0, <1>1 DEF ToolType
<1> HIDE DEF c
<1> QED BY <1>0, <1>2, <1>3 DEF bg, fg

LEMMA UnprotectTool ==
    ASSUME TypeOK, Unprotect
    PROVE  /\ tool' \in [{"bg", "fg"} -> ToolType] /\ fg' = fg
           /\ bg'.kind = bg.kind /\ bg'.ret = bg.ret /\ bg'.n = bg.n
           /\ bg'.todo = bg.todo /\ bg'.held = bg.held /\ bg'.cur = bg.cur
           /\ bg'.ok = bg.ok /\ bg'.failed = bg.failed /\ bg'.pc = "step_store"
<1>0. /\ bg \in ToolType /\ bg.cur \in Threads /\ bg.todo \subseteq Threads /\ bg.held \subseteq Threads
      /\ tool \in [{"bg", "fg"} -> ToolType]
  BY Threads1 DEF TypeOK
<1>1. {"step_store"} \subseteq WorkerPcs \cup CallerPcs
  BY DEF WorkerPcs, CallerPcs, Sys, InnerSys, Early, Poll, SwPoll, Cleaning, Tracing, Hijacked
<1> DEFINE c == [bg EXCEPT !.pc = "step_store"]
<1>2. tool' = [tool EXCEPT !["bg"] = c]
  BY <1>0, <1>1 DEF Unprotect, Goto, bg
<1>3. /\ c \in ToolType
      /\ c.kind = bg.kind /\ c.ret = bg.ret /\ c.n = bg.n
      /\ c.todo = bg.todo /\ c.held = bg.held /\ c.cur = bg.cur
      /\ c.ok = bg.ok /\ c.failed = bg.failed /\ c.pc = "step_store"
  BY <1>0, <1>1 DEF ToolType
<1> HIDE DEF c
<1> QED BY <1>0, <1>2, <1>3 DEF bg, fg

LEMMA StepStoreTool ==
    ASSUME TypeOK, StepStore
    PROVE  /\ tool' \in [{"bg", "fg"} -> ToolType] /\ fg' = fg
           /\ bg'.kind = bg.kind /\ bg'.ret = bg.ret /\ bg'.n = bg.n
           /\ bg'.todo = bg.todo /\ bg'.held = bg.held /\ bg'.cur = bg.cur
           /\ bg'.ok = bg.ok /\ bg'.failed = bg.failed /\ bg'.pc = "reguard"
<1>0. /\ bg \in ToolType /\ bg.cur \in Threads /\ bg.todo \subseteq Threads /\ bg.held \subseteq Threads
      /\ tool \in [{"bg", "fg"} -> ToolType]
  BY Threads1 DEF TypeOK
<1>1. {"reguard"} \subseteq WorkerPcs \cup CallerPcs
  BY DEF WorkerPcs, CallerPcs, Sys, InnerSys, Early, Poll, SwPoll, Cleaning, Tracing, Hijacked
<1> DEFINE c == [bg EXCEPT !.pc = "reguard"]
<1>2. tool' = [tool EXCEPT !["bg"] = c]
  BY <1>0, <1>1 DEF StepStore, Goto, bg
<1>3. /\ c \in ToolType
      /\ c.kind = bg.kind /\ c.ret = bg.ret /\ c.n = bg.n
      /\ c.todo = bg.todo /\ c.held = bg.held /\ c.cur = bg.cur
      /\ c.ok = bg.ok /\ c.failed = bg.failed /\ c.pc = "reguard"
  BY <1>0, <1>1 DEF ToolType
<1> HIDE DEF c
<1> QED BY <1>0, <1>2, <1>3 DEF bg, fg

LEMMA ReguardTool ==
    ASSUME TypeOK, Reguard
    PROVE  /\ tool' \in [{"bg", "fg"} -> ToolType] /\ fg' = fg
           /\ bg'.kind = bg.kind /\ bg'.ret = bg.ret /\ bg'.n = bg.n
           /\ bg'.todo = bg.todo /\ bg'.held = bg.held /\ bg'.cur = bg.cur
           /\ bg'.ok = bg.ok /\ bg'.failed = bg.failed /\ bg'.pc = "loop"
<1>0. /\ bg \in ToolType /\ bg.cur \in Threads /\ bg.todo \subseteq Threads /\ bg.held \subseteq Threads
      /\ tool \in [{"bg", "fg"} -> ToolType]
  BY Threads1 DEF TypeOK
<1>1. {"loop"} \subseteq WorkerPcs \cup CallerPcs
  BY DEF WorkerPcs, CallerPcs, Sys, InnerSys, Early, Poll, SwPoll, Cleaning, Tracing, Hijacked
<1> DEFINE c == [bg EXCEPT !.pc = "loop"]
<1>2. tool' = [tool EXCEPT !["bg"] = c]
  BY <1>0, <1>1 DEF Reguard, Goto, bg
<1>3. /\ c \in ToolType
      /\ c.kind = bg.kind /\ c.ret = bg.ret /\ c.n = bg.n
      /\ c.todo = bg.todo /\ c.held = bg.held /\ c.cur = bg.cur
      /\ c.ok = bg.ok /\ c.failed = bg.failed /\ c.pc = "loop"
  BY <1>0, <1>1 DEF ToolType
<1> HIDE DEF c
<1> QED BY <1>0, <1>2, <1>3 DEF bg, fg

LEMMA RunTool ==
    ASSUME TypeOK, RunToStart
    PROVE  /\ tool' \in [{"bg", "fg"} -> ToolType] /\ fg' = fg
           /\ bg'.kind = bg.kind /\ bg'.ret = bg.ret /\ bg'.n = bg.n
           /\ bg'.todo = bg.todo /\ bg'.held = bg.held /\ bg'.cur = bg.cur
           /\ bg'.ok = bg.ok /\ bg'.failed = bg.failed /\ bg'.pc = "trace_wait"
<1>0. /\ bg \in ToolType /\ bg.cur \in Threads /\ bg.todo \subseteq Threads /\ bg.held \subseteq Threads
      /\ tool \in [{"bg", "fg"} -> ToolType]
  BY Threads1 DEF TypeOK
<1>1. {"trace_wait"} \subseteq WorkerPcs \cup CallerPcs
  BY DEF WorkerPcs, CallerPcs, Sys, InnerSys, Early, Poll, SwPoll, Cleaning, Tracing, Hijacked
<1> DEFINE c == [bg EXCEPT !.pc = "trace_wait"]
<1>2. tool' = [tool EXCEPT !["bg"] = c]
  BY <1>0, <1>1 DEF RunToStart, Goto, bg
<1>3. /\ c \in ToolType
      /\ c.kind = bg.kind /\ c.ret = bg.ret /\ c.n = bg.n
      /\ c.todo = bg.todo /\ c.held = bg.held /\ c.cur = bg.cur
      /\ c.ok = bg.ok /\ c.failed = bg.failed /\ c.pc = "trace_wait"
  BY <1>0, <1>1 DEF ToolType
<1> HIDE DEF c
<1> QED BY <1>0, <1>2, <1>3 DEF bg, fg

LEMMA DetachTool ==
    ASSUME TypeOK, DetachAll
    PROVE  /\ tool' \in [{"bg", "fg"} -> ToolType] /\ fg' = fg
           /\ bg'.kind = bg.kind /\ bg'.ret = bg.ret /\ bg'.n = bg.n
           /\ bg'.todo = bg.todo /\ bg'.held = bg.held /\ bg'.cur = bg.cur
           /\ bg'.ok = bg.ok /\ bg'.failed = bg.failed /\ bg'.pc = "end"
<1>0. /\ bg \in ToolType /\ bg.cur \in Threads /\ bg.todo \subseteq Threads /\ bg.held \subseteq Threads
      /\ tool \in [{"bg", "fg"} -> ToolType]
  BY Threads1 DEF TypeOK
<1>1. {"end"} \subseteq WorkerPcs \cup CallerPcs
  BY DEF WorkerPcs, CallerPcs, Sys, InnerSys, Early, Poll, SwPoll, Cleaning, Tracing, Hijacked
<1> DEFINE c == [bg EXCEPT !.pc = "end"]
<1>2. tool' = [tool EXCEPT !["bg"] = c]
  BY <1>0, <1>1 DEF DetachAll, Goto, bg
<1>3. /\ c \in ToolType
      /\ c.kind = bg.kind /\ c.ret = bg.ret /\ c.n = bg.n
      /\ c.todo = bg.todo /\ c.held = bg.held /\ c.cur = bg.cur
      /\ c.ok = bg.ok /\ c.failed = bg.failed /\ c.pc = "end"
  BY <1>0, <1>1 DEF ToolType
<1> HIDE DEF c
<1> QED BY <1>0, <1>2, <1>3 DEF bg, fg
-----------------------------------------------------------------------------
(* What each step of an injection makes of the GUI thread's record. *)

\* The record d differs from c in its position, current thread, number and verdict only.
Moved(c, d) == /\ d.kind = c.kind /\ d.ret = c.ret /\ d.held = c.held
               /\ d.todo = c.todo

LEMMA FgSet ==
    ASSUME TypeOK, NEW c \in ToolType, tool' = [tool EXCEPT !["fg"] = c]
    PROVE  tool' \in [{"bg", "fg"} -> ToolType] /\ bg' = bg /\ fg' = c
BY DEF TypeOK, bg, fg

LEMMA AllocatedTool ==
    ASSUME TypeOK, ThreadAllocated
    PROVE  /\ tool' \in [{"bg", "fg"} -> ToolType] /\ bg' = bg
           /\ fg.ok => /\ fg'.pc = "seize" /\ fg'.kind = fg.kind /\ fg'.ret = fg.ret
                       /\ fg'.held = fg.held
           /\ ~fg.ok => fg' = Idle
<1>0. fg \in ToolType /\ {Main} \in SUBSET Threads /\ "seize" \in CallerPcs
  BY Threads1 DEF CallerPcs, Early
<1> DEFINE d == [fg EXCEPT !.pc = "seize", !.todo = {Main}, !.ok = FALSE]
           c == IF fg.ok THEN d ELSE Idle
<1>1. tool' = [tool EXCEPT !["fg"] = c]
  BY DEF ThreadAllocated, fg
<1>2. /\ d \in ToolType /\ d.pc = "seize" /\ d.kind = fg.kind /\ d.ret = fg.ret
      /\ d.held = fg.held
  BY <1>0 DEF ToolType
<1>3. tool' \in [{"bg", "fg"} -> ToolType] /\ bg' = bg /\ fg' = c
  <2>1. c \in ToolType
    BY <1>2, IdleType
  <2> HIDE DEF c
  <2> QED BY <1>1, <2>1, FgSet
<1> QED BY <1>2, <1>3

LEMMA HijackTool ==
    ASSUME TypeOK, Hijack, fg.kind \in {"inject", "thread"}
    PROVE  /\ tool' \in [{"bg", "fg"} -> ToolType] /\ bg' = bg
           /\ Moved(fg, fg') /\ fg'.pc = fg.kind /\ fg'.cur \in fg.held
<1>0. fg \in ToolType /\ fg.held \subseteq Threads /\ fg.kind \in CallerPcs
  BY Threads1 DEF CallerPcs, Hijacked
<1>1. PICK t \in fg.held : tool' = [tool EXCEPT !["fg"].cur = t, !["fg"].pc = fg.kind]
  BY DEF Hijack
<1> DEFINE c == [fg EXCEPT !.cur = t, !.pc = fg.kind]
<1>2. c \in ToolType /\ Moved(fg, c) /\ c.pc = fg.kind /\ c.cur \in fg.held
  BY <1>0 DEF ToolType, Moved
<1>3. tool' = [tool EXCEPT !["fg"] = c]
  BY <1>1 DEF fg, TypeOK
<1> HIDE DEF c
<1> QED BY <1>2, <1>3, FgSet

LEMMA InjectTool ==
    ASSUME TypeOK, MapPath \/ CallDlopen \/ UnmapPath
    PROVE  /\ tool' \in [{"bg", "fg"} -> ToolType] /\ bg' = bg
           /\ Moved(fg, fg') /\ fg'.cur = fg.cur
           /\ fg'.pc \in {"inject", "dlopen", "munmap", "release"}
           /\ fg.pc \in {"inject", "dlopen", "munmap"}
<1>0. fg \in ToolType /\ {"inject", "dlopen", "munmap", "release"} \subseteq CallerPcs
  BY Threads1 DEF CallerPcs, Hijacked
<1>1. PICK pc \in {"inject", "dlopen", "munmap", "release"}, n \in Nat, ok \in BOOLEAN :
         tool' = [tool EXCEPT !["fg"] = [fg EXCEPT !.pc = pc, !.n = n, !.ok = ok]]
  <2>1. CASE MapPath
    <3>1. PICK pc \in {"dlopen", "release"} : Goto("fg", pc)
      BY <2>1 DEF MapPath
    <3>2. [fg EXCEPT !.pc = pc] = [fg EXCEPT !.pc = pc, !.n = fg.n, !.ok = fg.ok]
      BY <1>0 DEF ToolType
    <3>3. tool' = [tool EXCEPT !["fg"] = [fg EXCEPT !.pc = pc]]
      BY <3>1 DEF Goto, fg, TypeOK
    <3>5. tool' = [tool EXCEPT !["fg"] = [fg EXCEPT !.pc = pc, !.n = fg.n, !.ok = fg.ok]]
      BY <3>2, <3>3, Zenon
    <3>6. fg.n \in Nat /\ fg.ok \in BOOLEAN
      BY <1>0 DEF ToolType
    <3> QED BY <3>5, <3>6, Zenon
  <2>2. CASE CallDlopen
    <3>1. tool' = [tool EXCEPT !["fg"].pc = "munmap", !["fg"].ok = ("library" \in pages')]
      BY <2>2 DEF CallDlopen
    <3> DEFINE ok == "library" \in pages'
    <3> HIDE DEF ok
    <3>2. [fg EXCEPT !.pc = "munmap", !.ok = ok] = [fg EXCEPT !.pc = "munmap", !.n = fg.n, !.ok = ok]
      BY <1>0 DEF ToolType
    <3>3. tool' = [tool EXCEPT !["fg"] = [fg EXCEPT !.pc = "munmap", !.ok = ok]]
      BY <3>1 DEF fg, TypeOK, ok
    <3>4. ok \in BOOLEAN
      BY DEF ok
    <3>5. tool' = [tool EXCEPT !["fg"] = [fg EXCEPT !.pc = "munmap", !.n = fg.n, !.ok = ok]]
      BY <3>2, <3>3, Zenon
    <3>6. fg.n \in Nat /\ fg.ok \in BOOLEAN
      BY <1>0 DEF ToolType
    <3> QED BY <3>4, <3>5, <3>6, Zenon
  <2>3. CASE UnmapPath
    <3>1. PICK pc \in {"release", "inject"} :
             tool' = [tool EXCEPT !["fg"].n = fg.n + 1, !["fg"].pc = pc]
      BY <2>3 DEF UnmapPath, fg
    <3>2. [fg EXCEPT !.n = fg.n + 1, !.pc = pc] = [fg EXCEPT !.pc = pc, !.n = fg.n + 1, !.ok = fg.ok]
      BY <1>0 DEF ToolType
    <3>3. tool' = [tool EXCEPT !["fg"] = [fg EXCEPT !.n = fg.n + 1, !.pc = pc]]
      BY <3>1 DEF fg, TypeOK
    <3>5. tool' = [tool EXCEPT !["fg"] = [fg EXCEPT !.pc = pc, !.n = fg.n + 1, !.ok = fg.ok]]
      BY <3>2, <3>3, Zenon
    <3>6. fg.n + 1 \in Nat /\ fg.ok \in BOOLEAN
      BY <1>0 DEF ToolType
    <3> QED BY <3>5, <3>6, Zenon
  <2> QED BY <2>1, <2>2, <2>3
<1> DEFINE c == [fg EXCEPT !.pc = pc, !.n = n, !.ok = ok]
<1>2. c \in ToolType /\ Moved(fg, c) /\ c.cur = fg.cur /\ c.pc = pc
  BY <1>0 DEF ToolType, Moved
<1>3. fg.pc \in {"inject", "dlopen", "munmap"}
  BY DEF MapPath, CallDlopen, UnmapPath
<1>4. tool' = [tool EXCEPT !["fg"] = c]
  BY <1>1
<1> HIDE DEF c
<1> QED BY <1>2, <1>3, <1>4, FgSet

LEMMA ThreadTool ==
    ASSUME TypeOK, RunThread \/ TryJoin
    PROVE  /\ tool' \in [{"bg", "fg"} -> ToolType] /\ bg' = bg
           /\ Moved(fg, fg') /\ fg'.cur = fg.cur
           /\ fg'.pc \in {"thread_join", "release"} /\ fg.pc \in {"thread", "thread_join"}
<1>0. fg \in ToolType /\ {"thread_join", "release"} \subseteq CallerPcs /\ Threads \subseteq Nat
  BY Threads1, ThreadsAssumption DEF CallerPcs, Hijacked
<1>1. PICK pc \in {"thread_join", "release"}, n \in Nat, ok \in BOOLEAN :
         tool' = [tool EXCEPT !["fg"] = [fg EXCEPT !.pc = pc, !.n = n, !.ok = ok]]
  <2>1. CASE RunThread
    <3>1. PICK c \in Threads, pc \in {"thread_join", "release"} :
             tool' = [tool EXCEPT !["fg"].pc = pc, !["fg"].n = c]
      BY <2>1 DEF RunThread
    <3>2. [fg EXCEPT !.pc = pc, !.n = c] = [fg EXCEPT !.pc = pc, !.n = c, !.ok = fg.ok]
      BY <1>0 DEF ToolType
    <3>3. tool' = [tool EXCEPT !["fg"] = [fg EXCEPT !.pc = pc, !.n = c]]
      BY <3>1 DEF fg, TypeOK
    <3>5. tool' = [tool EXCEPT !["fg"] = [fg EXCEPT !.pc = pc, !.n = c, !.ok = fg.ok]]
      BY <3>2, <3>3, Zenon
    <3>6. c \in Nat /\ fg.ok \in BOOLEAN
      BY <1>0 DEF ToolType
    <3> QED BY <3>5, <3>6, Zenon
  <2>2. CASE TryJoin
    <3> DEFINE ok == th[fg.n].life \in {"gone", "zombie"}
    <3>1. tool' = [tool EXCEPT !["fg"].pc = "release", !["fg"].ok = ok]
      BY <2>2 DEF TryJoin
    <3>4. ok \in BOOLEAN
      OBVIOUS
    <3> HIDE DEF ok
    <3>2. [fg EXCEPT !.pc = "release", !.ok = ok] = [fg EXCEPT !.pc = "release", !.n = fg.n, !.ok = ok]
      BY <1>0 DEF ToolType
    <3>3. tool' = [tool EXCEPT !["fg"] = [fg EXCEPT !.pc = "release", !.ok = ok]]
      BY <3>1 DEF fg, TypeOK
    <3>5. tool' = [tool EXCEPT !["fg"] = [fg EXCEPT !.pc = "release", !.n = fg.n, !.ok = ok]]
      BY <3>2, <3>3, Zenon
    <3>6. fg.n \in Nat /\ fg.ok \in BOOLEAN
      BY <1>0 DEF ToolType
    <3> QED BY <3>4, <3>5, <3>6, Zenon
  <2> QED BY <2>1, <2>2
<1> DEFINE c == [fg EXCEPT !.pc = pc, !.n = n, !.ok = ok]
<1>2. c \in ToolType /\ Moved(fg, c) /\ c.cur = fg.cur /\ c.pc = pc
  BY <1>0 DEF ToolType, Moved
<1>3. fg.pc \in {"thread", "thread_join"}
  BY DEF RunThread, TryJoin
<1>4. tool' = [tool EXCEPT !["fg"] = c]
  BY <1>1
<1> HIDE DEF c
<1> QED BY <1>2, <1>3, <1>4, FgSet

LEMMA ReleaseAllTool ==
    ASSUME TypeOK, ReleaseAll
    PROVE  /\ tool' \in [{"bg", "fg"} -> ToolType] /\ bg' = bg
           /\ fg.kind = "thread" => /\ fg'.pc = "sys_seize" /\ fg'.kind = fg.kind
                                    /\ fg'.ret = "idle" /\ fg'.held = {}
           /\ fg.kind # "thread" => fg' = Idle
<1>0. fg \in ToolType /\ "sys_seize" \in CallerPcs
  BY Threads1 DEF CallerPcs, Sys
<1> DEFINE d == [fg EXCEPT !.pc = "sys_seize", !.op = "free", !.ret = "idle", !.held = {}]
           c == IF fg.kind = "thread" THEN d ELSE Idle
<1>1. tool' = [tool EXCEPT !["fg"] = c]
  BY DEF ReleaseAll, fg
<1>2. d \in ToolType /\ d.pc = "sys_seize" /\ d.kind = fg.kind /\ d.ret = "idle" /\ d.held = {}
  BY <1>0 DEF ToolType
<1>3. tool' \in [{"bg", "fg"} -> ToolType] /\ bg' = bg /\ fg' = c
  <2>1. c \in ToolType
    BY <1>2, IdleType
  <2> HIDE DEF c
  <2> QED BY <1>1, <2>1, FgSet
<1> QED BY <1>2, <1>3

-----------------------------------------------------------------------------
(* What most steps do to a thread: its tracer stays, it is not born, armed *)
(* or revived, and only the worker's loops make a stopped thread run.       *)

Alike(r, s) ==
    /\ s \in ThreadType /\ Sane(s)
    /\ s.by = r.by /\ s.child = r.child
    /\ Live(s) => Live(r)
    /\ (s.life = "absent") = (r.life = "absent")
    /\ s.life = "run" => r.life = "run" \/ (r.by = "bg" /\ bg.pc \notin InnerSys)
    /\ s.life = "stop" /\ s.why = "clone" => r.life = "stop" /\ r.why = "clone"
Same(r, s) == Alike(r, s) /\ (s.dr = "hw" => r.dr = "hw")

\* No access is reported.
Quiet(r, s) == s.life = "stop" /\ s.why = "hit" => r.life = "stop" /\ r.why = "hit"

Gentle == th' \in [Threads -> ThreadType] /\ \A t \in Threads : Same(th[t], th'[t])
AllAlike == th' \in [Threads -> ThreadType] /\ \A t \in Threads : Alike(th[t], th'[t])
Silent == \A t \in Threads : Quiet(th[t], th'[t])

LEMMA SameItself ==
    ASSUME NEW r \in ThreadType, Sane(r)
    PROVE  Same(r, r) /\ Quiet(r, r)
BY DEF Same, Alike, Quiet

LEMMA SameTwice ==
    ASSUME NEW r, NEW s, NEW q, Same(r, s), Same(s, q)
    PROVE  Same(r, q) /\ (Quiet(r, s) /\ Quiet(s, q) => Quiet(r, q))
BY DEF Same, Alike, Quiet

LEMMA ResumedSame ==
    ASSUME NEW r \in ThreadType, Sane(r), r.life = "stop", r.by = "bg", bg.pc \notin InnerSys
    PROVE  Same(r, Resumed(r)) /\ Quiet(r, Resumed(r))
BY ResumedType DEF Same, Alike, Quiet, Sane, Live

LEMMA ReapedSame ==
    ASSUME NEW r \in ThreadType, Sane(r)
    PROVE  Same(r, Reaped(r)) /\ Quiet(r, Reaped(r))
BY ReapedType DEF Same, Alike, Quiet, Sane, Live

LEMMA SteppedSame ==
    ASSUME NEW r \in ThreadType, Sane(r)
    PROVE  Same(r, Stepped(r)) /\ Quiet(r, Stepped(r))
BY SteppedType DEF Same, Alike, Quiet, Sane, Live

LEMMA InterruptedSame ==
    ASSUME NEW r \in ThreadType, Sane(r), r.by # "none"
    PROVE  Same(r, Interrupted(r)) /\ Quiet(r, Interrupted(r))
BY InterruptedType DEF Same, Alike, Quiet, Sane, Live

LEMMA StoppedSame ==
    ASSUME NEW r \in ThreadType, Sane(r), r.life = "run", r.by # "none",
           NEW why \in Whys, why # "clone", why = "hit" => r.by = "bg"
    PROVE  Same(r, StoppedFor(r, why)) /\ (why # "hit" => Quiet(r, StoppedFor(r, why)))
BY StoppedForType DEF Same, Alike, Quiet, Sane, Live

LEMMA ArmedSame ==
    ASSUME NEW r \in ThreadType, Sane(r), NEW what \in {"none", "trace"}
    PROVE  Same(r, Armed(r, what)) /\ Quiet(r, Armed(r, what))
BY ArmedType DEF Same, Alike, Quiet, Sane, Live

\* A thread that has exited.
LEMMA ExitSame ==
    ASSUME NEW r \in ThreadType, Sane(r), NEW s \in ThreadType, r.life # "absent",
           \/ r.by = "none" /\ s = [r EXCEPT !.life = "gone"]
           \/ r.by # "none" /\ s.by = r.by /\ s.dr = r.dr /\ s.child = r.child /\ s.life = "zombie"
    PROVE  Same(r, s) /\ Quiet(r, s)
<1>1. CASE r.by = "none" /\ s = [r EXCEPT !.life = "gone"]
  <2>1. /\ s.by = r.by /\ s.dr = r.dr /\ s.child = r.child /\ s.life = "gone"
        /\ s.unread = r.unread
    BY <1>1 DEF ThreadType
  <2> QED BY <1>1, <2>1 DEF Same, Alike, Quiet, Sane, Live
<1>2. CASE r.by # "none" /\ s.by = r.by /\ s.dr = r.dr /\ s.child = r.child /\ s.life = "zombie"
  BY <1>2 DEF Same, Alike, Quiet, Sane, Live
<1> QED BY <1>1, <1>2

LEMMA DiedSame ==
    ASSUME TypeOK, SaneInv, th' = Died(th)
    PROVE  Gentle /\ Silent
<1>1. th' \in [Threads -> ThreadType]
  BY DiedType DEF TypeOK
<1>2. ASSUME NEW t \in Threads PROVE Same(th[t], th'[t]) /\ Quiet(th[t], th'[t])
  <2>1. th[t] \in ThreadType /\ Sane(th[t]) /\ th'[t] \in ThreadType
    BY <1>1 DEF TypeOK, SaneInv
  <2>2. CASE th[t].life \in {"absent", "gone"}
    BY <2>1, <2>2, DiedType, SameItself DEF TypeOK
  <2>3. CASE th[t].life \notin {"absent", "gone"}
    <3>1. /\ th'[t].by = th[t].by /\ th'[t].dr = th[t].dr /\ th'[t].child = th[t].child
          /\ IF th[t].by = "none" THEN th'[t] = [th[t] EXCEPT !.life = "gone"]
             ELSE th'[t].life = "zombie"
      BY <2>3, DiedType DEF TypeOK
    <3>2. CASE th[t].by = "none"
      BY <2>1, <2>3, <3>1, <3>2, ExitSame
    <3>3. CASE th[t].by # "none"
      BY <2>1, <2>3, <3>1, <3>3, ExitSame
    <3> QED BY <3>2, <3>3
  <2> QED BY <2>2, <2>3
<1> QED BY <1>1, <1>2 DEF Gentle, Silent

\* Nothing happens to the threads, or something to one of them.
LEMMA NoThread == ASSUME TypeOK, SaneInv, UNCHANGED th PROVE Gentle /\ Silent
BY SameItself DEF Gentle, Silent, TypeOK, SaneInv

LEMMA OneThread ==
    ASSUME TypeOK, SaneInv, NEW t \in Threads, NEW s, Same(th[t], s), th' = [th EXCEPT ![t] = s]
    PROVE  Gentle /\ (Quiet(th[t], s) => Silent) /\ th'[t] = s
<1>1. s \in ThreadType
  BY DEF Same, Alike
<1>2. /\ th' \in [Threads -> ThreadType] /\ th'[t] = s
      /\ \A u \in Threads \ {t} : th'[u] = th[u] /\ Same(th[u], th'[u]) /\ Quiet(th[u], th'[u])
  BY <1>1, SameItself DEF TypeOK, SaneInv
<1> QED BY <1>2 DEF Gentle, Silent

LEMMA SaneKept == ASSUME Gentle \/ AllAlike PROVE SaneInv' /\ AllAlike
BY DEF Gentle, AllAlike, SaneInv, Same, Alike

\* The actions that only do this.
ContinueOne(t) == IF Stopped(t, "bg") THEN Resumed(Reaped(th[t])) ELSE Reaped(th[t])

LEMMA ContinueSame ==
    ASSUME TypeOK, SaneInv, NEW t \in Threads, bg.pc \notin InnerSys
    PROVE  Same(th[t], ContinueOne(t)) /\ Quiet(th[t], ContinueOne(t))
<1>1. th[t] \in ThreadType /\ Sane(th[t])
  BY DEF TypeOK, SaneInv
<1>2. /\ Same(th[t], Reaped(th[t])) /\ Quiet(th[t], Reaped(th[t]))
      /\ Reaped(th[t]) \in ThreadType /\ Sane(Reaped(th[t]))
      /\ Reaped(th[t]).by = th[t].by
      /\ Reaped(th[t]).life = IF th[t].life = "zombie" THEN "gone" ELSE th[t].life
  BY <1>1, ReapedSame, ReapedType DEF Same, Alike
<1>3. CASE Stopped(t, "bg")
  <2>1. Same(Reaped(th[t]), Resumed(Reaped(th[t]))) /\ Quiet(Reaped(th[t]), Resumed(Reaped(th[t])))
    BY <1>2, <1>3, ResumedSame DEF Stopped
  <2> QED BY <1>2, <1>3, <2>1, SameTwice DEF ContinueOne
<1>4. CASE ~Stopped(t, "bg")
  BY <1>2, <1>4 DEF ContinueOne
<1> QED BY <1>3, <1>4

\* A thread the worker has stepped and lets run.
LEMMA StepRunSame ==
    ASSUME TypeOK, SaneInv, NEW t \in Threads, Stopped(t, "bg"), bg.pc \notin InnerSys
    PROVE  Same(th[t], Resumed(Stepped(th[t]))) /\ Quiet(th[t], Resumed(Stepped(th[t])))
<1>1. th[t] \in ThreadType /\ Sane(th[t])
  BY DEF TypeOK, SaneInv
<1>2. /\ Same(th[t], Stepped(th[t])) /\ Quiet(th[t], Stepped(th[t]))
      /\ Stepped(th[t]) \in ThreadType /\ Sane(Stepped(th[t]))
      /\ Stepped(th[t]).by = "bg" /\ Stepped(th[t]).life = "stop"
  BY <1>1, SteppedSame, SteppedType DEF Same, Alike, Stopped
<1>3. Same(Stepped(th[t]), Resumed(Stepped(th[t]))) /\ Quiet(Stepped(th[t]), Resumed(Stepped(th[t])))
  BY <1>2, ResumedSame
<1> QED BY <1>2, <1>3, SameTwice

\* The invariant these lemmas start from.
Inv == TypeOK /\ CleanInv

LEMMA ThreadFacts == ASSUME Inv PROVE
    /\ TypeOK /\ SaneInv /\ WorkerInv /\ CallerInv /\ Main \in Threads
    /\ \A t \in Threads : th[t] \in ThreadType /\ Sane(th[t])
    /\ bg.cur \in Threads /\ fg.cur \in Threads
BY Threads1 DEF Inv, CleanInv, SaneInv

LEMMA ForwardedSame ==
    ASSUME TypeOK, SaneInv, NEW w \in Threads, Forwarded(w)
    PROVE  Gentle /\ Silent /\ cause' \in {"guard", cause}
<1>1. CASE Stopped(w, "bg")
  BY <1>1, DiedSame DEF Forwarded
<1>2. CASE ~Stopped(w, "bg")
  <2>1. Same(th[w], Reaped(th[w])) /\ Quiet(th[w], Reaped(th[w]))
    BY ReapedSame DEF TypeOK, SaneInv
  <2>2. th' = [th EXCEPT ![w] = Reaped(th[w])] /\ UNCHANGED cause
    BY <1>2 DEF Forwarded
  <2> QED BY <2>1, <2>2, OneThread
<1> QED BY <1>1, <1>2

LEMMA TargetGentle ==
    ASSUME Inv, NEW t \in Threads,
           ProcessExit \/ Touch(t, FALSE) \/ Touch(t, TRUE) \/ ReachStart(t) \/ Signal(t) \/ ThreadExit(t)
    PROVE  /\ Gentle
           /\ \/ Silent
              \/ touches' = touches + 1 /\ th' = [th EXCEPT ![t] = StoppedFor(th[t], "hit")]
<1>0. /\ TypeOK /\ SaneInv
      /\ th[t] \in ThreadType /\ Sane(th[t])
  BY ThreadFacts
<1>1. CASE ProcessExit
  BY <1>0, <1>1, DiedSame DEF ProcessExit
<1>2. ASSUME NEW near \in BOOLEAN, Touch(t, near), page = "guard" PROVE Gentle /\ Silent
  <2>1. CASE th[t].by = "none"
    BY <1>0, <1>2, <2>1, DiedSame DEF Touch
  <2>2. CASE th[t].by # "none"
    <3>1. PICK why \in {"near", "fault"} : th' = [th EXCEPT ![t] = StoppedFor(th[t], why)]
      BY <1>2, <2>2 DEF Touch
    <3>2. Same(th[t], StoppedFor(th[t], why)) /\ Quiet(th[t], StoppedFor(th[t], why))
      BY <1>0, <1>2, <2>2, StoppedSame DEF Touch, Running, Whys
    <3> QED BY <1>0, <3>1, <3>2, OneThread
  <2> QED BY <2>1, <2>2
<1>3. ASSUME Touch(t, FALSE), page # "guard" PROVE
        /\ Gentle
        /\ Silent \/ (touches' = touches + 1 /\ th' = [th EXCEPT ![t] = StoppedFor(th[t], "hit")])
  <2>1. CASE th[t].dr # "hw"
    BY <1>0, <1>3, <2>1, NoThread DEF Touch
  <2>2. CASE th[t].dr = "hw"
    <3>1. th[t].by = "bg"
      BY <1>3, <2>2 DEF Touch, Running, Inv, CleanInv, ArmedInv, Live
    <3>2. touches' = touches + 1 /\ th' = [th EXCEPT ![t] = StoppedFor(th[t], "hit")]
      BY <1>0, <1>3, <2>2, <3>1 DEF Touch, TypeOK
    <3>3. Same(th[t], StoppedFor(th[t], "hit"))
      BY <1>0, <1>3, <3>1, StoppedSame DEF Touch, Running, Whys
    <3> QED BY <1>0, <3>2, <3>3, OneThread
  <2> QED BY <2>1, <2>2
<1>4. CASE ReachStart(t)
  <2>1. CASE th[t].by = "none"
    BY <1>0, <1>4, <2>1, DiedSame DEF ReachStart
  <2>2. CASE th[t].by # "none"
    <3>1. Same(th[t], StoppedFor(th[t], "start")) /\ Quiet(th[t], StoppedFor(th[t], "start"))
      BY <1>0, <1>4, <2>2, StoppedSame DEF ReachStart, Running, Whys
    <3> QED BY <1>0, <1>4, <2>2, <3>1, OneThread DEF ReachStart
  <2> QED BY <2>1, <2>2
<1>5. CASE Signal(t)
  <2>1. Same(th[t], StoppedFor(th[t], "signal")) /\ Quiet(th[t], StoppedFor(th[t], "signal"))
    BY <1>0, <1>5, StoppedSame DEF Signal, Running, Whys
  <2> QED BY <1>0, <1>5, <2>1, OneThread DEF Signal
<1>6. CASE ThreadExit(t)
  <2> DEFINE s == IF th[t].by = "none" THEN [th[t] EXCEPT !.life = "gone"]
                  ELSE [th[t] EXCEPT !.life = "zombie", !.unread = TRUE]
  <2>1. th' = [th EXCEPT ![t] = s] /\ th[t].life = "run"
    BY <1>6 DEF ThreadExit, Running
  <2>2. s \in ThreadType
    BY <1>0 DEF ThreadType, Lives
  <2>3. Same(th[t], s) /\ Quiet(th[t], s)
    <3>1. CASE th[t].by = "none"
      BY <1>0, <2>1, <2>2, <3>1, ExitSame
    <3>2. CASE th[t].by # "none"
      <4>1. s.by = th[t].by /\ s.dr = th[t].dr /\ s.child = th[t].child /\ s.life = "zombie"
        BY <1>0, <3>2 DEF ThreadType
      <4> QED BY <1>0, <2>1, <2>2, <3>2, <4>1, ExitSame
    <3> QED BY <3>1, <3>2
  <2> HIDE DEF s
  <2> QED BY <1>0, <2>1, <2>3, OneThread
<1>7. Touch(t, TRUE) => page = "guard"
  BY DEF Touch
<1> QED BY <1>1, <1>2, <1>3, <1>4, <1>5, <1>6, <1>7

LEMMA CallGentle ==
    ASSUME Inv, NEW x \in {"bg", "fg"},
           SysInterrupt(x) \/ SysWait(x) \/ SysStep(x) \/ Interrupt(x) \/ HoldThread(x)
    PROVE  Gentle /\ Silent
<1>0. /\ TypeOK /\ SaneInv /\ Main \in Threads /\ tool[x].cur \in Threads
      /\ th[Main] \in ThreadType /\ Sane(th[Main])
      /\ th[tool[x].cur] \in ThreadType /\ Sane(th[tool[x].cur])
  BY ThreadFacts, Threads1
<1>1. CASE SysInterrupt(x)
  <2>1. Same(th[Main], Interrupted(th[Main])) /\ Quiet(th[Main], Interrupted(th[Main]))
    BY <1>0, <1>1, InterruptedSame DEF SysInterrupt, Inv, CleanInv, SysInv, SysOf, InnerSys
  <2> QED BY <1>0, <1>1, <2>1, NoThread, OneThread DEF SysInterrupt
<1>2. CASE SysWait(x)
  BY <1>0, <1>2, ReapedSame, OneThread DEF SysWait
<1>3. CASE SysStep(x)
  BY <1>0, <1>3, SteppedSame, OneThread DEF SysStep
<1>4. CASE Interrupt(x)
  <2>1. th[tool[x].cur].by # "none"
    BY <1>4 DEF Interrupt, Inv, CleanInv, OwnInv, HeldInv, bg, fg
  <2>2. /\ Same(th[tool[x].cur], Interrupted(th[tool[x].cur]))
        /\ Quiet(th[tool[x].cur], Interrupted(th[tool[x].cur]))
    BY <1>0, <2>1, InterruptedSame
  <2> QED BY <1>0, <1>4, <2>2, NoThread, OneThread DEF Interrupt
<1>5. CASE HoldThread(x)
  BY <1>0, <1>5, ReapedSame, OneThread DEF HoldThread
<1> QED BY <1>1, <1>2, <1>3, <1>4, <1>5

LEMMA InjectGentle ==
    ASSUME Inv, \/ ThreadAllocated \/ Hijack \/ TryJoin \/ Joined \/ User
                   \/ MapPath \/ CallDlopen \/ UnmapPath
    PROVE  Gentle /\ Silent
<1>0. /\ TypeOK /\ SaneInv /\ fg.cur \in Threads
      /\ th[fg.cur] \in ThreadType /\ Sane(th[fg.cur])
  BY ThreadFacts
<1>1. CASE ThreadAllocated \/ Hijack \/ TryJoin \/ Joined \/ User
  BY <1>0, <1>1, NoThread DEF ThreadAllocated, Hijack, TryJoin, Joined, User, Start, Stop, Call
<1>2. CASE MapPath \/ CallDlopen \/ UnmapPath
  <2>1. th' = [th EXCEPT ![fg.cur] = Stepped(th[fg.cur])]
    BY <1>2 DEF MapPath, CallDlopen, UnmapPath
  <2> QED BY <1>0, <2>1, SteppedSame, OneThread
<1> QED BY <1>1, <1>2

LEMMA FinderGentle ==
    ASSUME Inv, NEW w \in Threads,
           \/ SeizedAll \/ WatchHit(w) \/ PassOn(w) \/ PassFault(w) \/ CloneEvent(w) \/ Exited(w) \/ LeaveLoop
           \/ CleanThread \/ Cleaned \/ ListPass \/ PassDone \/ GuardPage \/ Fault(w)
           \/ Unprotect \/ StepStore \/ Reguard
    PROVE  Gentle /\ Silent
<1>0. /\ TypeOK /\ SaneInv /\ bg.cur \in Threads
      /\ \A t \in Threads : th[t] \in ThreadType /\ Sane(th[t])
  BY ThreadFacts
<1>1. CASE SeizedAll \/ LeaveLoop \/ Cleaned \/ ListPass
  BY <1>0, <1>1, NoThread DEF SeizedAll, LeaveLoop, Cleaned, ListPass
<1>2. CASE WatchHit(w) \/ PassOn(w)
  <2>0. bg.pc \notin InnerSys
    BY <1>2 DEF WatchHit, PassOn, Polling, InnerSys
  <2>1. th' = [th EXCEPT ![w] = ContinueOne(w)]
    BY <1>2 DEF WatchHit, PassOn, Continue, ContinueOne
  <2> QED BY <1>0, <2>1, <2>0, ContinueSame, OneThread
<1>3. CASE CloneEvent(w) \/ Exited(w) \/ Fault(w)
  <2>1. th' = [th EXCEPT ![w] = Reaped(th[w])]
    BY <1>3 DEF CloneEvent, Exited, Fault
  <2> QED BY <1>0, <2>1, ReapedSame, OneThread
<1>4. CASE CleanThread
  <2> DEFINE t == Min(bg.todo)
  <2>1. t \in Threads
    BY <1>0, <1>4, MinIn, Threads1 DEF CleanThread
  <2>2. CASE th[t].by = "bg" /\ t \in Listed
    <3>1. Same(th[t], Interrupted(th[t])) /\ Quiet(th[t], Interrupted(th[t]))
      BY <1>0, <2>1, <2>2, InterruptedSame
    <3> QED BY <1>0, <1>4, <2>1, <2>2, <3>1, OneThread DEF CleanThread
  <2>3. CASE ~(th[t].by = "bg" /\ t \in Listed)
    BY <1>0, <1>4, <2>3, NoThread DEF CleanThread
  <2> QED BY <2>2, <2>3
<1>5. CASE PassDone
  <2> DEFINE t == Min(bg.held)
  <2>1. CASE ~PassNeeded /\ bg.held # {} /\ t \in Listed
    <3>1. t \in Threads /\ t \in bg.held
      BY <1>0, <2>1, MinIn, Threads1
    <3>2. th[t].by = "bg"
      BY <1>5, <2>1, <3>1 DEF PassDone, Inv, CleanInv, OwnInv, Keeping, Early, Listed, Live
    <3>3. Same(th[t], Interrupted(th[t])) /\ Quiet(th[t], Interrupted(th[t]))
      BY <1>0, <3>1, <3>2, InterruptedSame
    <3>4. th' = [th EXCEPT ![t] = Interrupted(th[t])]
      BY <1>5, <2>1 DEF PassDone
    <3> QED BY <1>0, <3>1, <3>3, <3>4, OneThread
  <2>2. CASE ~(~PassNeeded /\ bg.held # {} /\ t \in Listed)
    BY <1>0, <1>5, <2>2, NoThread DEF PassDone
  <2> QED BY <2>1, <2>2
<1>6. CASE GuardPage
  <2>0. bg.pc \notin InnerSys
    BY <1>6 DEF GuardPage, InnerSys
  <2>1. CASE th[bg.cur].life = "stop"
    <3>1. Stopped(bg.cur, "bg")
      BY <1>6, <2>1 DEF GuardPage, Inv, CleanInv, OwnInv, Stopped
    <3>2. th' = [th EXCEPT ![bg.cur] = Resumed(Stepped(th[bg.cur]))]
      BY <1>6, <2>1 DEF GuardPage
    <3> QED BY <1>0, <3>1, <3>2, <2>0, StepRunSame, OneThread
  <2>2. CASE th[bg.cur].life # "stop"
    <3>1. th' = [th EXCEPT ![bg.cur] = Reaped(th[bg.cur])]
      BY <1>6, <2>2 DEF GuardPage
    <3> QED BY <1>0, <3>1, ReapedSame, OneThread
  <2> QED BY <2>1, <2>2
<1>7. CASE Unprotect \/ StepStore
  <2>1. th' = [th EXCEPT ![bg.cur] = Stepped(th[bg.cur])]
    BY <1>7 DEF Unprotect, StepStore
  <2> QED BY <1>0, <2>1, SteppedSame, OneThread
<1>8. CASE Reguard
  <2>0. bg.pc \notin InnerSys
    BY <1>8 DEF Reguard, InnerSys
  <2>1. CASE Stopped(bg.cur, "bg")
    <3>1. th' = [th EXCEPT ![bg.cur] = Resumed(Stepped(th[bg.cur]))]
      BY <1>8, <2>1 DEF Reguard
    <3> QED BY <1>0, <2>1, <3>1, <2>0, StepRunSame, OneThread
  <2>2. CASE ~Stopped(bg.cur, "bg")
    <3>1. th' = [th EXCEPT ![bg.cur] = th[bg.cur]]
      BY <1>8, <2>2 DEF Reguard
    <3> QED BY <1>0, <3>1, SameItself, OneThread
  <2> QED BY <2>1, <2>2
<1>9. CASE PassFault(w)
  BY <1>0, <1>9, ForwardedSame DEF PassFault
<1> QED BY <1>1, <1>2, <1>3, <1>4, <1>5, <1>6, <1>7, <1>8, <1>9

LEMMA TracerGentle ==
    ASSUME Inv, NEW w \in Threads,
           RunToStart \/ TraceEvent(w) \/ Disarm \/ Freeze \/ FreezeWait \/ TraceStep
    PROVE  Gentle /\ Silent
<1>0. /\ TypeOK /\ SaneInv /\ bg.cur \in Threads
      /\ \A t \in Threads : th[t] \in ThreadType /\ Sane(th[t])
  BY ThreadFacts
<1>1. CASE RunToStart
  <2>0. bg.pc \notin InnerSys
    BY <1>1 DEF RunToStart, InnerSys
  <2>1. ASSUME NEW t \in Threads PROVE
          /\ th'[t] \in ThreadType
          /\ Same(th[t], th'[t]) /\ Quiet(th[t], th'[t])
    <3> DEFINE r == Armed(th[t], "trace")
    <3>1. th'[t] = IF t \in bg.held THEN IF Stopped(t, "bg") THEN Resumed(r) ELSE r ELSE th[t]
      BY <1>1, <2>1 DEF RunToStart, SetBreakpoint
    <3>2. /\ Same(th[t], r) /\ Quiet(th[t], r) /\ Same(th[t], th[t]) /\ Quiet(th[t], th[t])
          /\ r.by = th[t].by /\ r.life = th[t].life
      BY <1>0, <2>1, ArmedSame, SameItself, ArmedType
    <3>3. CASE t \in bg.held /\ Stopped(t, "bg")
      <4>1. Same(r, Resumed(r)) /\ Quiet(r, Resumed(r))
        BY <3>2, <3>3, <2>0, ResumedSame DEF Same, Alike, Stopped
      <4>2. th'[t] = Resumed(r)
        BY <3>1, <3>3
      <4> HIDE DEF r
      <4> QED BY <3>2, <4>1, <4>2, SameTwice DEF Same, Alike
    <3>4. CASE ~(t \in bg.held /\ Stopped(t, "bg"))
      <4>1. th'[t] \in {r, th[t]}
        BY <3>1, <3>4
      <4> QED BY <3>2, <4>1 DEF Same, Alike
    <3> QED BY <3>3, <3>4
  <2>2. th' \in [Threads -> ThreadType]
    BY <1>1, <2>1 DEF RunToStart
  <2> QED BY <2>1, <2>2 DEF Gentle, Silent
<1>2. CASE TraceEvent(w)
  <2>0. bg.pc \notin InnerSys
    BY <1>2 DEF TraceEvent, InnerSys
  <2>1. \/ th' = [th EXCEPT ![w] = Reaped(th[w])]
        \/ th' = [th EXCEPT ![w] = ContinueOne(w)]
        \/ Forwarded(w)
    BY <1>2 DEF TraceEvent, Continue, ContinueOne
  <2>2. CASE th' = [th EXCEPT ![w] = Reaped(th[w])]
    BY <1>0, <2>2, ReapedSame, OneThread
  <2>3. CASE th' = [th EXCEPT ![w] = ContinueOne(w)]
    BY <1>0, <2>3, <2>0, ContinueSame, OneThread
  <2>4. CASE Forwarded(w)
    BY <1>0, <2>4, ForwardedSame
  <2> QED BY <2>1, <2>2, <2>3, <2>4
<1>3. CASE Disarm
  <2>1. ASSUME NEW t \in Threads PROVE
          th'[t] \in ThreadType /\ Same(th[t], th'[t]) /\ Quiet(th[t], th'[t])
    <3>1. th'[t] \in {th[t], Armed(th[t], "none")}
      BY <1>3, <2>1 DEF Disarm, SetBreakpoint
    <3> QED BY <1>0, <2>1, <3>1, ArmedSame, SameItself DEF Same, Alike
  <2>2. th' \in [Threads -> ThreadType]
    BY <1>3, <2>1 DEF Disarm, SetBreakpoint
  <2> QED BY <2>1, <2>2 DEF Gentle, Silent
<1>4. CASE Freeze
  <2> DEFINE t == Min(bg.todo)
  <2>1. t \in Threads
    BY <1>0, <1>4, MinIn, Threads1 DEF Freeze
  <2>2. CASE t \in Listed /\ th[t].by = "bg"
    <3>1. Same(th[t], Interrupted(th[t])) /\ Quiet(th[t], Interrupted(th[t]))
      BY <1>0, <2>1, <2>2, InterruptedSame
    <3> QED BY <1>0, <1>4, <2>1, <2>2, <3>1, OneThread DEF Freeze
  <2>3. CASE ~(t \in Listed /\ th[t].by = "bg")
    BY <1>0, <1>4, <2>3, NoThread DEF Freeze
  <2> QED BY <2>2, <2>3
<1>5. CASE FreezeWait
  <2> DEFINE t == Min(bg.todo)
  <2>1. th' = [th EXCEPT ![t] = Reaped(th[t])]
    BY <1>5 DEF FreezeWait
  <2>2. CASE t \in Threads
    BY <1>0, <2>1, <2>2, ReapedSame, OneThread
  <2>3. CASE t \notin Threads
    <3>1. UNCHANGED th
      BY <1>0, <2>1, <2>3 DEF TypeOK
    <3> QED BY <1>0, <3>1, NoThread
  <2> QED BY <2>2, <2>3
<1>6. CASE TraceStep
  <2>1. \/ th' = [th EXCEPT ![bg.cur] = Stepped(th[bg.cur])]
        \/ UNCHANGED th
    BY <1>6 DEF TraceStep
  <2> QED BY <1>0, <2>1, SteppedSame, OneThread, NoThread
<1> QED BY <1>1, <1>2, <1>3, <1>4, <1>5, <1>6

-----------------------------------------------------------------------------
(* Type correctness, concluded *)

\* The two steps of a hardware finder that arm a thread, and let it and its parent run.
LEMMA ArmAlike ==
    ASSUME Inv, ArmThread
    PROVE  /\ AllAlike /\ Silent
           /\ \A t \in Threads \ {bg.cur} : th'[t] = th[t]
<1>0. /\ TypeOK /\ SaneInv /\ bg.cur \in Threads
      /\ \A t \in Threads : th[t] \in ThreadType /\ Sane(th[t])
  BY ThreadFacts
<1> DEFINE c == bg.cur
           r == Armed(Reaped(th[c]), "hw")
           s == IF r.life = "stop" THEN Resumed(r) ELSE r
<1>1. /\ th' = [th EXCEPT ![c] = s]
      /\ th[c].by = "bg"
  BY DEF ArmThread, Inv, CleanInv, OwnInv
<1>2. /\ Reaped(th[c]) \in ThreadType
      /\ r \in ThreadType /\ r.by = "bg" /\ r.child = th[c].child /\ ~r.unread /\ r.why = th[c].why
      /\ r.life = IF th[c].life = "zombie" THEN "gone" ELSE th[c].life
  BY <1>0, <1>1, ReapedType, ArmedType
<1>7. bg.pc \notin InnerSys
  BY DEF ArmThread, InnerSys
<1>3. Alike(th[c], r) /\ Quiet(th[c], r)
  BY <1>0, <1>1, <1>2 DEF Alike, Quiet, Sane, Live
<1>4. Alike(th[c], s) /\ Quiet(th[c], s)
  <2> HIDE DEF r
  <2>1. CASE r.life = "stop"
    <3>1. Same(r, Resumed(r)) /\ Quiet(r, Resumed(r))
      BY <1>2, <1>3, <1>7, <2>1, ResumedSame DEF Alike
    <3>2. s = Resumed(r)
      BY <2>1
    <3> QED BY <1>3, <3>1, <3>2 DEF Same, Alike, Quiet
  <2>2. CASE r.life # "stop"
    BY <1>3, <2>2
  <2> QED BY <2>1, <2>2
<1>5. s \in ThreadType
  BY <1>4 DEF Alike
<1> HIDE DEF s
<1>6. /\ th' \in [Threads -> ThreadType] /\ th'[c] = s
      /\ \A u \in Threads \ {c} : th'[u] = th[u] /\ Same(th[u], th'[u]) /\ Quiet(th[u], th'[u])
  BY <1>0, <1>1, <1>5, SameItself DEF TypeOK
<1> QED BY <1>4, <1>6 DEF AllAlike, Silent, Same

LEMMA NewbornAlike ==
    ASSUME Inv, Newborn, NEW c, c = th[bg.cur].child
    PROVE  /\ c \in Threads /\ AllAlike /\ Silent
           /\ \A t \in Threads \ {c} : th'[t].dr = th[t].dr
           /\ bg.kind = "sw" => th'[c].dr = th[c].dr
<1>0. /\ TypeOK /\ SaneInv /\ bg.cur \in Threads /\ c \in Threads
      /\ \A t \in Threads : th[t] \in ThreadType /\ Sane(th[t])
  BY ThreadFacts DEF ThreadType
<1> DEFINE a == Reaped(th[c])
           r == IF bg.kind = "sw" THEN a ELSE Armed(a, "hw")
           now(t) == IF t = c THEN r ELSE th[t]
<1>1. /\ a \in ThreadType /\ Same(th[c], a) /\ Quiet(th[c], a) /\ ~a.unread
      /\ a.by = th[c].by /\ a.child = th[c].child /\ a.why = th[c].why /\ a.dr = th[c].dr
      /\ a.life = IF th[c].life = "zombie" THEN "gone" ELSE th[c].life
  BY <1>0, ReapedSame, ReapedType
<1>2. /\ r \in ThreadType /\ r.by = th[c].by /\ r.child = th[c].child /\ ~r.unread /\ r.why = th[c].why
      /\ r.life = a.life /\ (bg.kind = "sw" => r.dr = th[c].dr)
      /\ (r.life = "absent" => r.dr = "none")
  <2> HIDE DEF a
  <2>1. a.life = "absent" => a.dr = "none"
    BY <1>0, <1>1 DEF Sane
  <2> QED BY <1>1, <2>1, ArmedType
<1>8. bg.pc \notin InnerSys
  BY DEF Newborn, InnerSys
<1>3. Alike(th[c], r) /\ Quiet(th[c], r)
  <2> HIDE DEF r, a
  <2> QED BY <1>0, <1>1, <1>2 DEF Alike, Quiet, Sane, Live
<1>4. \A t \in Threads : th'[t] = IF t \notin {c, bg.cur} THEN th[t]
                                ELSE IF Stopped(t, "bg") THEN Resumed(now(t)) ELSE now(t)
  BY <1>0 DEF Newborn
<1> HIDE DEF r, a
<1>5. ASSUME NEW t \in Threads
      PROVE  /\ now(t) \in ThreadType /\ Sane(now(t)) /\ Alike(th[t], now(t)) /\ Quiet(th[t], now(t))
             /\ Stopped(t, "bg") => now(t).life = "stop" /\ now(t).by = "bg"
             /\ t # c \/ bg.kind = "sw" => now(t).dr = th[t].dr
  <2>1. CASE t = c
    BY <1>1, <1>2, <1>3, <2>1 DEF Alike, Stopped
  <2>2. CASE t # c
    BY <1>0, <1>5, <2>2, SameItself DEF Same, Stopped
  <2> QED BY <2>1, <2>2
<1> HIDE DEF now
<1>6. ASSUME NEW t \in Threads
      PROVE  /\ Alike(th[t], th'[t]) /\ Quiet(th[t], th'[t])
             /\ t # c \/ bg.kind = "sw" => th'[t].dr = th[t].dr
  <2>1. CASE t \notin {c, bg.cur}
    BY <1>0, <1>4, <1>6, <2>1, SameItself DEF Same
  <2>2. CASE t \in {c, bg.cur} /\ Stopped(t, "bg")
    <3>1. th'[t] = Resumed(now(t))
      BY <1>4, <1>6, <2>2
    <3>2. Same(now(t), Resumed(now(t))) /\ Quiet(now(t), Resumed(now(t))) /\ Resumed(now(t)).dr = now(t).dr
      BY <1>5, <1>6, <1>8, <2>2, ResumedSame, ResumedType
    <3> QED BY <1>5, <1>6, <3>1, <3>2 DEF Same, Alike, Quiet
  <2>3. CASE t \in {c, bg.cur} /\ ~Stopped(t, "bg")
    BY <1>4, <1>5, <1>6, <2>3
  <2> QED BY <2>1, <2>2, <2>3
<1>7. th' \in [Threads -> ThreadType]
  <2>1. \A t \in Threads : th'[t] \in ThreadType
    BY <1>6 DEF Alike
  <2> QED BY <2>1 DEF Newborn
<1> QED BY <1>0, <1>6, <1>7 DEF AllAlike, Silent

-----------------------------------------------------------------------------
(* What keeps each part of the invariant. *)

\* The worker's side, when the worker does nothing.
LEMMA WorkerFrame ==
    ASSUME Inv, Gentle, bg' = bg
    PROVE  WorkerInv' /\ SysOf("bg")' /\ OwnInv' /\ ChildInv' /\ ArmedInv'
<1>0. /\ TypeOK /\ Main \in Threads /\ bg.cur \in Threads /\ bg.held \subseteq Threads
      /\ \A t \in Threads : th[t] \in ThreadType /\ Same(th[t], th'[t]) /\ th[t].child \in Threads
  BY ThreadFacts, Threads1 DEF Gentle, ThreadType
<1>1. WorkerInv'
  BY ThreadFacts DEF WorkerInv
<1>2. SysOf("bg")'
  BY <1>0 DEF SysOf, Inv, CleanInv, SysInv, Same, Alike, InnerSys, bg
<1>3. OwnInv'
  BY <1>0 DEF OwnInv, Inv, CleanInv, Same, Alike
<1>4. ChildInv'
  <2>1. \A w \in Threads : th'[w].child = th[w].child /\ th'[th[w].child].by = th[th[w].child].by
    BY <1>0 DEF Same, Alike
  <2>2. \A w \in Threads : th'[w].life = "stop" /\ th'[w].why = "clone" => th[w].life = "stop" /\ th[w].why = "clone"
    BY <1>0 DEF Same, Alike
  <2> QED BY <1>0, <2>1, <2>2 DEF ChildInv, Inv, CleanInv
<1>5. ArmedInv'
  <2> SUFFICES ASSUME NEW t \in Threads, th'[t].dr = "hw", Live(th'[t])
               PROVE  th'[t].by = "bg" /\ bg.kind \in {"hw", "st"} /\ t \in Place(bg)
    BY DEF ArmedInv, Place
  <2>1. th[t].dr = "hw" /\ Live(th[t]) /\ th'[t].by = th[t].by
    BY <1>0 DEF Same, Alike
  <2> QED BY <2>1 DEF ArmedInv, Inv, CleanInv
<1> QED BY <1>1, <1>2, <1>3, <1>4, <1>5

\* The GUI thread's side, when the GUI thread does nothing.
LEMMA CallerFrame ==
    ASSUME Inv, AllAlike, fg' = fg
    PROVE  CallerInv' /\ SysOf("fg")' /\ HeldInv'
<1>0. /\ TypeOK /\ Main \in Threads /\ fg.cur \in Threads
      /\ \A t \in Threads : th[t] \in ThreadType /\ Alike(th[t], th'[t])
  BY ThreadFacts DEF AllAlike
<1>1. CallerInv'
  BY ThreadFacts DEF CallerInv
<1>2. SysOf("fg")'
  BY <1>0 DEF SysOf, Inv, CleanInv, SysInv, Alike, InnerSys, fg
<1>3. HeldInv'
  <2>1. ASSUME NEW t \in Threads, th'[t].by = "fg", Live(th'[t])
        PROVE  \/ fg.pc \in InnerSys /\ t = Main
               \/ fg.pc \in {"interrupt", "await"} /\ t = fg.cur
               \/ fg.pc \in Early \cup Hijacked \cup {"release"} /\ t \in fg.held /\ th'[t].life = "stop"
    <3>1. th[t].by = "fg" /\ Live(th[t]) /\ (th[t].life = "stop" => th'[t].life = "stop")
      BY <1>0, <2>1 DEF Alike, Live
    <3> QED BY <3>1 DEF HeldInv, Inv, CleanInv
  <2>2. fg.pc \in {"interrupt", "await"} => th'[fg.cur].by = "fg"
    BY <1>0 DEF Alike, HeldInv, Inv, CleanInv
  <2> QED BY <2>1, <2>2 DEF HeldInv
<1> QED BY <1>1, <1>2, <1>3

LEMMA PatchKept ==
    ASSUME PatchInv, UNCHANGED patched, bg.pc = "sys_restore" => bg'.pc = "sys_restore",
           fg.pc = "sys_restore" => fg'.pc = "sys_restore"
    PROVE  PatchInv'
BY DEF PatchInv

\* The worker moves on.
LEMMA WorkerMove ==
    ASSUME Inv, AllAlike, fg' = fg, UNCHANGED patched, bg.pc \notin InnerSys, bg'.pc \notin InnerSys,
           bg'.pc # "idle", WorkerInv', ArmedInv', bg'.cur \in Threads, bg'.held \subseteq Threads,
           \A t \in bg'.held : th[t].life # "absent",
           bg'.pc \in Keeping => \A t \in bg'.held : Live(th'[t]) => th[t].by = "bg",
           bg'.pc \in {"interrupt", "await", "clean_wait"} => th[bg'.cur].by = "bg",
           bg'.pc \in Keeping => bg.pc \in Keeping, bg'.pc \in Sys => bg'.ret = "end",
           bg'.pc = "newborn" => th[th[bg'.cur].child].by = "bg"
    PROVE  CleanInv'
<1>0. /\ TypeOK /\ Main \in Threads
      /\ \A t \in Threads : th[t] \in ThreadType /\ Alike(th[t], th'[t]) /\ th[t].child \in Threads
  BY ThreadFacts, Threads1 DEF AllAlike, ThreadType
<1>1. SaneInv' /\ CallerInv' /\ SysOf("fg")' /\ HeldInv'
  BY SaneKept, CallerFrame
<1>2. SysOf("bg")'
  BY DEF SysOf, bg
<1>3. PatchInv'
  BY PatchKept DEF Inv, CleanInv, SysInv, InnerSys
<1>4. OwnInv'
  <2>1. \A t \in Threads : /\ th'[t].by = th[t].by
                           /\ (th'[t].life = "absent") = (th[t].life = "absent")
    BY <1>0 DEF Alike
  <2> QED BY <2>1 DEF OwnInv
<1>5. ChildInv'
  <2>1. \A w \in Threads : th'[w].child = th[w].child /\ th'[th[w].child].by = th[th[w].child].by
    BY <1>0 DEF Alike
  <2>2. \A w \in Threads : th'[w].life = "stop" /\ th'[w].why = "clone" => th[w].life = "stop" /\ th[w].why = "clone"
    BY <1>0 DEF Alike
  <2> QED BY <1>0, <2>1, <2>2 DEF ChildInv, Inv, CleanInv
<1> QED BY <1>1, <1>2, <1>3, <1>4, <1>5 DEF CleanInv, SysInv

LEMMA ArmedKept ==
    ASSUME Inv, Gentle, bg'.kind = bg.kind,
           \A t \in Threads : t \in Place(bg) /\ th'[t].dr = "hw" /\ Live(th'[t]) => t \in Place(bg')
    PROVE  ArmedInv'
<1>1. \A t \in Threads : Same(th[t], th'[t])
  BY DEF Gentle
<1> QED BY <1>1 DEF ArmedInv, Inv, CleanInv, Same, Alike

\* The target's own steps but clones.
LEMMA TargetKept ==
    ASSUME Inv, NEW t \in Threads,
           ProcessExit \/ Touch(t, FALSE) \/ Touch(t, TRUE) \/ ReachStart(t) \/ Signal(t) \/ ThreadExit(t)
    PROVE  CleanInv'
<1>1. Gentle /\ AllAlike /\ SaneInv'
  BY TargetGentle, SaneKept
<1>2. bg' = bg /\ fg' = fg /\ UNCHANGED patched
  BY DEF ProcessExit, Touch, ReachStart, Signal, ThreadExit, bg, fg
<1>3. PatchInv'
  BY <1>2, PatchKept DEF Inv, CleanInv, SysInv
<1> QED BY <1>1, <1>2, <1>3, WorkerFrame, CallerFrame DEF CleanInv, SysInv

-----------------------------------------------------------------------------
(* The worker's steps that leave every thread where it is. *)

LEMMA LoopKept ==
    ASSUME Inv, NEW w \in Threads, WatchHit(w) \/ PassOn(w) \/ PassFault(w)
    PROVE  CleanInv'
<1>1. Gentle /\ AllAlike /\ SaneInv'
  BY FinderGentle, SaneKept
<1>2. bg' = bg /\ fg' = fg /\ UNCHANGED patched
  BY DEF WatchHit, PassOn, PassFault, kernel, bg, fg
<1>3. PatchInv'
  BY <1>2, PatchKept DEF Inv, CleanInv, SysInv
<1> QED BY <1>1, <1>2, <1>3, WorkerFrame, CallerFrame DEF CleanInv, SysInv

LEMMA SeizedAllKept == ASSUME Inv, SeizedAll PROVE CleanInv'
<1>0. /\ TypeOK /\ WorkerInv /\ OwnInv /\ ChildInv /\ ArmedInv /\ bg \in ToolType
      /\ bg.cur \in Threads /\ bg.todo \subseteq Threads /\ bg.held \subseteq Threads
  BY Threads1 DEF Inv, CleanInv
<1>1. Gentle /\ AllAlike
  BY <1>0, FinderGentle, SaneKept
<1>3. /\ fg' = fg /\ UNCHANGED patched /\ bg' \in ToolType /\ bg'.kind = bg.kind
      /\ bg.pc \notin InnerSys /\ bg'.pc \notin InnerSys /\ bg'.pc # "idle"
  BY <1>0, SeizedAllTool DEF SeizedAll, InnerSys, kernel, bg
<1>4. WorkerInv'
  BY <1>0, SeizedAllTool DEF WorkerInv, SeizedAll, Keeping, WorkerPcs, Early, Poll, SwPoll, Cleaning, Tracing, Sys, InnerSys
<1>5. ArmedInv'
  <2>1. ASSUME NEW t \in Threads, t \in Place(bg), th'[t].dr = "hw", Live(th'[t])
        PROVE  t \in Place(bg')
    <3>1. bg.kind \in {"hw", "st"}
      BY <1>0, <1>1, <2>1 DEF ArmedInv, Gentle, Same, Alike
    <3> QED BY <1>0, <2>1, <3>1, SeizedAllTool DEF Place, SeizedAll, Early, Poll
  <2> QED BY <1>1, <1>3, <2>1, ArmedKept
<1>6. bg'.cur \in Threads /\ bg'.held \subseteq Threads
  BY <1>3 DEF ToolType
<1>9. \A t \in bg'.held : th[t].life # "absent"
  BY <1>0, SeizedAllTool DEF OwnInv, SeizedAll
<1>7. bg'.pc \in Keeping => \A t \in bg'.held : Live(th'[t]) => th[t].by = "bg"
  BY <1>0, <1>1, <1>6, SeizedAllTool DEF OwnInv, AllAlike, Alike, SeizedAll, Keeping, WorkerPcs, Early, Poll, SwPoll, Cleaning, Tracing, Sys, InnerSys
<1>8. /\ bg'.pc \in {"interrupt", "await", "clean_wait"} => th[bg'.cur].by = "bg"
      /\ bg'.pc \in Keeping => bg.pc \in Keeping
      /\ bg'.pc \in Sys => bg'.ret = "end"
      /\ bg'.pc = "newborn" => th[th[bg'.cur].child].by = "bg"
  BY <1>0, SeizedAllTool DEF WorkerInv, SeizedAll, Keeping, WorkerPcs, Early, Poll, SwPoll, Cleaning, Tracing, Sys, InnerSys
<1> QED BY <1>0, <1>1, <1>3, <1>4, <1>5, <1>6, <1>7, <1>8, <1>9, WorkerMove

LEMMA CloneEventKept == ASSUME Inv, NEW w \in Threads, CloneEvent(w) PROVE CleanInv'
<1>0. /\ TypeOK /\ WorkerInv /\ OwnInv /\ ChildInv /\ ArmedInv /\ bg \in ToolType
      /\ bg.cur \in Threads /\ bg.todo \subseteq Threads /\ bg.held \subseteq Threads
  BY Threads1 DEF Inv, CleanInv
<1>1. Gentle /\ AllAlike
  BY <1>0, FinderGentle, SaneKept
<1>3. /\ fg' = fg /\ UNCHANGED patched /\ bg' \in ToolType /\ bg'.kind = bg.kind
      /\ bg.pc \notin InnerSys /\ bg'.pc \notin InnerSys /\ bg'.pc # "idle"
  BY <1>0, CloneEventTool DEF CloneEvent, Polling, InnerSys, kernel, bg
<1>4. WorkerInv'
  BY <1>0, CloneEventTool DEF WorkerInv, CloneEvent, Polling, Keeping, WorkerPcs, Early, Poll, SwPoll, Cleaning, Tracing, Sys, InnerSys
<1>5. ArmedInv'
  <2>1. ASSUME NEW t \in Threads, t \in Place(bg), th'[t].dr = "hw", Live(th'[t])
        PROVE  t \in Place(bg')
    BY <1>0, <2>1, CloneEventTool DEF Place, CloneEvent, Polling, Early, Poll
  <2> QED BY <1>1, <1>3, <2>1, ArmedKept
<1>6. bg'.cur \in Threads /\ bg'.held \subseteq Threads
  BY <1>3 DEF ToolType
<1>9. \A t \in bg'.held : th[t].life # "absent"
  BY <1>0, CloneEventTool DEF OwnInv, CloneEvent, Polling
<1>7. bg'.pc \in Keeping => \A t \in bg'.held : Live(th'[t]) => th[t].by = "bg"
  BY <1>0, <1>1, <1>6, CloneEventTool DEF OwnInv, AllAlike, Alike, CloneEvent, Polling, Keeping, WorkerPcs, Early, Poll, SwPoll, Cleaning, Tracing, Sys, InnerSys
<1>8. /\ bg'.pc \in {"interrupt", "await", "clean_wait"} => th[bg'.cur].by = "bg"
      /\ bg'.pc \in Keeping => bg.pc \in Keeping
      /\ bg'.pc \in Sys => bg'.ret = "end"
      /\ bg'.pc = "newborn" => th[th[bg'.cur].child].by = "bg"
  BY <1>0, CloneEventTool DEF WorkerInv, ChildInv, CloneEvent, Polling, Keeping, Early, Poll, SwPoll, Sys, InnerSys
<1> QED BY <1>0, <1>1, <1>3, <1>4, <1>5, <1>6, <1>7, <1>8, <1>9, WorkerMove

LEMMA ExitedKept == ASSUME Inv, NEW w \in Threads, Exited(w) PROVE CleanInv'
<1>0. /\ TypeOK /\ WorkerInv /\ OwnInv /\ ChildInv /\ ArmedInv /\ bg \in ToolType
      /\ bg.cur \in Threads /\ bg.todo \subseteq Threads /\ bg.held \subseteq Threads
  BY Threads1 DEF Inv, CleanInv
<1>1. Gentle /\ AllAlike
  BY <1>0, FinderGentle, SaneKept
<1>2. /\ bg'.pc \in {"clean", "loop"} /\ bg'.kind = bg.kind /\ bg'.ret = bg.ret /\ bg'.n = bg.n
      /\ bg'.held = bg.held \ {w} /\ bg'.todo = bg.held \ {w} /\ bg'.cur = bg.cur
      /\ fg' = fg /\ bg' \in ToolType
  <2>1. bg'.pc \in {"clean", "loop"}
    BY <1>0, ExitedTool
  <2> QED BY <1>0, <2>1, ExitedTool DEF bg
<1>3. /\ fg' = fg /\ UNCHANGED patched /\ bg' \in ToolType /\ bg'.kind = bg.kind
      /\ bg.pc \notin InnerSys /\ bg'.pc \notin InnerSys /\ bg'.pc # "idle"
  BY <1>0, <1>2 DEF Exited, Polling, InnerSys, kernel, bg
<1>4. WorkerInv'
  BY <1>0, <1>2 DEF WorkerInv, Exited, Polling, Keeping, WorkerPcs, Early, Poll, SwPoll, Cleaning, Tracing, Sys, InnerSys
<1>5. ArmedInv'
  <2>1. ASSUME NEW t \in Threads, t \in Place(bg), th'[t].dr = "hw", Live(th'[t])
        PROVE  t \in Place(bg')
    <3>1. t # w
      <4>1. th'[w] = Reaped(th[w]) /\ th[w].life = "zombie" /\ th[w] \in ThreadType
        BY <1>0 DEF Exited, TypeOK
      <4>2. ~Live(th'[w])
        BY <4>1, ReapedType DEF Live
      <4> QED BY <2>1, <4>2
    <3> QED BY <1>0, <2>1, <3>1, <1>2 DEF Place, Exited, Polling, Early, Poll
  <2> QED BY <1>1, <1>3, <2>1, ArmedKept
<1>6. bg'.cur \in Threads /\ bg'.held \subseteq Threads
  BY <1>3 DEF ToolType
<1>9. \A t \in bg'.held : th[t].life # "absent"
  BY <1>0, <1>2 DEF OwnInv, Exited, Polling
<1>7. bg'.pc \in Keeping => \A t \in bg'.held : Live(th'[t]) => th[t].by = "bg"
  BY <1>0, <1>1, <1>6, <1>2 DEF OwnInv, AllAlike, Alike, Exited, Polling, Keeping, WorkerPcs, Early, Poll, SwPoll, Cleaning, Tracing, Sys, InnerSys
<1>8. /\ bg'.pc \in {"interrupt", "await", "clean_wait"} => th[bg'.cur].by = "bg"
      /\ bg'.pc \in Keeping => bg.pc \in Keeping
      /\ bg'.pc \in Sys => bg'.ret = "end"
      /\ bg'.pc = "newborn" => th[th[bg'.cur].child].by = "bg"
  BY <1>0, <1>2 DEF WorkerInv, Exited, Polling, Keeping, WorkerPcs, Early, Poll, SwPoll, Cleaning, Tracing, Sys, InnerSys
<1> QED BY <1>0, <1>1, <1>3, <1>4, <1>5, <1>6, <1>7, <1>8, <1>9, WorkerMove

LEMMA LeaveKept == ASSUME Inv, LeaveLoop PROVE CleanInv'
<1>0. /\ TypeOK /\ WorkerInv /\ OwnInv /\ ChildInv /\ ArmedInv /\ bg \in ToolType
      /\ bg.cur \in Threads /\ bg.todo \subseteq Threads /\ bg.held \subseteq Threads
  BY Threads1 DEF Inv, CleanInv
<1>1. Gentle /\ AllAlike
  BY <1>0, FinderGentle, SaneKept
<1>3. /\ fg' = fg /\ UNCHANGED patched /\ bg' \in ToolType /\ bg'.kind = bg.kind
      /\ bg.pc \notin InnerSys /\ bg'.pc \notin InnerSys /\ bg'.pc # "idle"
  BY <1>0, LeaveTool DEF LeaveLoop, InnerSys, kernel, bg
<1>4. WorkerInv'
  BY <1>0, LeaveTool DEF WorkerInv, LeaveLoop, Keeping, WorkerPcs, Early, Poll, SwPoll, Cleaning, Tracing, Sys, InnerSys
<1>5. ArmedInv'
  <2>1. ASSUME NEW t \in Threads, t \in Place(bg), th'[t].dr = "hw", Live(th'[t])
        PROVE  t \in Place(bg')
    BY <1>0, <2>1, LeaveTool DEF Place, LeaveLoop, Early, Poll
  <2> QED BY <1>1, <1>3, <2>1, ArmedKept
<1>6. bg'.cur \in Threads /\ bg'.held \subseteq Threads
  BY <1>3 DEF ToolType
<1>9. \A t \in bg'.held : th[t].life # "absent"
  BY <1>0, LeaveTool DEF OwnInv, LeaveLoop
<1>7. bg'.pc \in Keeping => \A t \in bg'.held : Live(th'[t]) => th[t].by = "bg"
  BY <1>0, <1>1, <1>6, LeaveTool DEF OwnInv, AllAlike, Alike, LeaveLoop, Keeping, WorkerPcs, Early, Poll, SwPoll, Cleaning, Tracing, Sys, InnerSys
<1>8. /\ bg'.pc \in {"interrupt", "await", "clean_wait"} => th[bg'.cur].by = "bg"
      /\ bg'.pc \in Keeping => bg.pc \in Keeping
      /\ bg'.pc \in Sys => bg'.ret = "end"
      /\ bg'.pc = "newborn" => th[th[bg'.cur].child].by = "bg"
  BY <1>0, LeaveTool DEF WorkerInv, LeaveLoop, Keeping, WorkerPcs, Early, Poll, SwPoll, Cleaning, Tracing, Sys, InnerSys
<1> QED BY <1>0, <1>1, <1>3, <1>4, <1>5, <1>6, <1>7, <1>8, <1>9, WorkerMove

LEMMA CleanKept == ASSUME Inv, CleanThread PROVE CleanInv'
<1>0. /\ TypeOK /\ WorkerInv /\ OwnInv /\ ChildInv /\ ArmedInv /\ bg \in ToolType
      /\ bg.cur \in Threads /\ bg.todo \subseteq Threads /\ bg.held \subseteq Threads
  BY Threads1 DEF Inv, CleanInv
<1>1. Gentle /\ AllAlike
  BY <1>0, FinderGentle, SaneKept
<1>2. PICK t0 : t0 = Min(bg.todo)
  OBVIOUS
<1>3. /\ fg' = fg /\ UNCHANGED patched /\ bg' \in ToolType /\ bg'.kind = bg.kind
      /\ bg.pc \notin InnerSys /\ bg'.pc \notin InnerSys /\ bg'.pc # "idle"
  BY <1>0, <1>2, CleanTool DEF CleanThread, InnerSys, kernel, bg
<1>4. WorkerInv'
  BY <1>0, <1>2, CleanTool DEF WorkerInv, CleanThread, Keeping, WorkerPcs, Early, Poll, SwPoll, Cleaning, Tracing, Sys, InnerSys
<1>5. ArmedInv'
  <2>1. ASSUME NEW t \in Threads, t \in Place(bg), th'[t].dr = "hw", Live(th'[t])
        PROVE  t \in Place(bg')
    <3>1. th[t].by = "bg" /\ Live(th[t])
      BY <1>0, <1>1, <2>1 DEF ArmedInv, Gentle, Same, Alike
    <3> QED BY <1>0, <1>2, <2>1, <3>1, <1>2, CleanTool DEF Place, CleanThread, Early, Poll, Listed, Live
  <2> QED BY <1>1, <1>3, <2>1, ArmedKept
<1>6. bg'.cur \in Threads /\ bg'.held \subseteq Threads
  BY <1>3 DEF ToolType
<1>9. \A t \in bg'.held : th[t].life # "absent"
  BY <1>0, <1>2, CleanTool DEF OwnInv, CleanThread
<1>7. bg'.pc \in Keeping => \A t \in bg'.held : Live(th'[t]) => th[t].by = "bg"
  BY <1>0, <1>1, <1>6, <1>2, CleanTool DEF OwnInv, AllAlike, Alike, CleanThread, Keeping, WorkerPcs, Early, Poll, SwPoll, Cleaning, Tracing, Sys, InnerSys
<1>8. /\ bg'.pc \in {"interrupt", "await", "clean_wait"} => th[bg'.cur].by = "bg"
      /\ bg'.pc \in Keeping => bg.pc \in Keeping
      /\ bg'.pc \in Sys => bg'.ret = "end"
      /\ bg'.pc = "newborn" => th[th[bg'.cur].child].by = "bg"
  BY <1>0, <1>2, <1>2, CleanTool DEF CleanThread, Keeping, Early, Poll, SwPoll, Sys, InnerSys
<1> QED BY <1>0, <1>1, <1>3, <1>4, <1>5, <1>6, <1>7, <1>8, <1>9, WorkerMove

LEMMA CleanedKept == ASSUME Inv, Cleaned PROVE CleanInv'
<1>0. /\ TypeOK /\ WorkerInv /\ OwnInv /\ ChildInv /\ ArmedInv /\ bg \in ToolType
      /\ bg.cur \in Threads /\ bg.todo \subseteq Threads /\ bg.held \subseteq Threads
  BY Threads1 DEF Inv, CleanInv
<1>1. Gentle /\ AllAlike
  BY <1>0, FinderGentle, SaneKept
<1>3. /\ fg' = fg /\ UNCHANGED patched /\ bg' \in ToolType /\ bg'.kind = bg.kind
      /\ bg.pc \notin InnerSys /\ bg'.pc \notin InnerSys /\ bg'.pc # "idle"
  BY <1>0, CleanedTool DEF Cleaned, InnerSys, kernel, bg
<1>4. WorkerInv'
  BY <1>0, CleanedTool DEF WorkerInv, Cleaned, Keeping, WorkerPcs, Early, Poll, SwPoll, Cleaning, Tracing, Sys, InnerSys
<1>5. ArmedInv'
  <2>1. ASSUME NEW t \in Threads, t \in Place(bg), th'[t].dr = "hw", Live(th'[t])
        PROVE  t \in Place(bg')
    BY <1>0, <2>1, CleanedTool DEF Place, Cleaned, Early, Poll
  <2> QED BY <1>1, <1>3, <2>1, ArmedKept
<1>6. bg'.cur \in Threads /\ bg'.held \subseteq Threads
  BY <1>3 DEF ToolType
<1>9. \A t \in bg'.held : th[t].life # "absent"
  BY <1>0, CleanedTool DEF OwnInv, Cleaned
<1>7. bg'.pc \in Keeping => \A t \in bg'.held : Live(th'[t]) => th[t].by = "bg"
  BY <1>0, <1>1, <1>6, CleanedTool DEF OwnInv, AllAlike, Alike, Cleaned, Keeping, WorkerPcs, Early, Poll, SwPoll, Cleaning, Tracing, Sys, InnerSys
<1>8. /\ bg'.pc \in {"interrupt", "await", "clean_wait"} => th[bg'.cur].by = "bg"
      /\ bg'.pc \in Keeping => bg.pc \in Keeping
      /\ bg'.pc \in Sys => bg'.ret = "end"
      /\ bg'.pc = "newborn" => th[th[bg'.cur].child].by = "bg"
  BY <1>0, CleanedTool DEF WorkerInv, Cleaned, Keeping, WorkerPcs, Early, Poll, SwPoll, Cleaning, Tracing, Sys, InnerSys
<1> QED BY <1>0, <1>1, <1>3, <1>4, <1>5, <1>6, <1>7, <1>8, <1>9, WorkerMove

LEMMA ListKept == ASSUME Inv, ListPass PROVE CleanInv'
<1>0. /\ TypeOK /\ WorkerInv /\ OwnInv /\ ChildInv /\ ArmedInv /\ bg \in ToolType
      /\ bg.cur \in Threads /\ bg.todo \subseteq Threads /\ bg.held \subseteq Threads
  BY Threads1 DEF Inv, CleanInv
<1>1. Gentle /\ AllAlike
  BY <1>0, FinderGentle, SaneKept
<1>3. /\ fg' = fg /\ UNCHANGED patched /\ bg' \in ToolType /\ bg'.kind = bg.kind
      /\ bg.pc \notin InnerSys /\ bg'.pc \notin InnerSys /\ bg'.pc # "idle"
  BY <1>0, ListTool DEF ListPass, InnerSys, kernel, bg
<1>4. WorkerInv'
  BY <1>0, ListTool DEF WorkerInv, ListPass, Keeping, WorkerPcs, Early, Poll, SwPoll, Cleaning, Tracing, Sys, InnerSys
<1>5. ArmedInv'
  <2>1. bg.kind \notin {"hw", "st"}
    BY <1>0 DEF WorkerInv, ListPass, Keeping, WorkerPcs, Early, Poll, SwPoll, Cleaning, Tracing, Sys, InnerSys
  <2> QED BY <1>0, <1>1, <1>3, <2>1, ArmedKept DEF ArmedInv, Gentle, Same, Alike
<1>6. bg'.cur \in Threads /\ bg'.held \subseteq Threads
  BY <1>3 DEF ToolType
<1>9. \A t \in bg'.held : th[t].life # "absent"
  BY <1>0, ListTool DEF OwnInv, ListPass
<1>7. bg'.pc \in Keeping => \A t \in bg'.held : Live(th'[t]) => th[t].by = "bg"
  BY <1>0, <1>1, <1>6, ListTool DEF OwnInv, AllAlike, Alike, ListPass, Keeping, WorkerPcs, Early, Poll, SwPoll, Cleaning, Tracing, Sys, InnerSys
<1>8. /\ bg'.pc \in {"interrupt", "await", "clean_wait"} => th[bg'.cur].by = "bg"
      /\ bg'.pc \in Keeping => bg.pc \in Keeping
      /\ bg'.pc \in Sys => bg'.ret = "end"
      /\ bg'.pc = "newborn" => th[th[bg'.cur].child].by = "bg"
  BY <1>0, ListTool DEF WorkerInv, ListPass, Keeping, WorkerPcs, Early, Poll, SwPoll, Cleaning, Tracing, Sys, InnerSys
<1> QED BY <1>0, <1>1, <1>3, <1>4, <1>5, <1>6, <1>7, <1>8, <1>9, WorkerMove

LEMMA PassKept == ASSUME Inv, PassDone PROVE CleanInv'
<1>0. /\ TypeOK /\ WorkerInv /\ OwnInv /\ ChildInv /\ ArmedInv /\ bg \in ToolType
      /\ bg.cur \in Threads /\ bg.todo \subseteq Threads /\ bg.held \subseteq Threads
  BY Threads1 DEF Inv, CleanInv
<1>1. Gentle /\ AllAlike
  BY <1>0, FinderGentle, SaneKept
<1>2. PICK t0 : t0 = Min(bg.held)
  OBVIOUS
<1>3. /\ fg' = fg /\ UNCHANGED patched /\ bg' \in ToolType /\ bg'.kind = bg.kind
      /\ bg.pc \notin InnerSys /\ bg'.pc \notin InnerSys /\ bg'.pc # "idle"
  BY <1>0, <1>2, PassTool DEF PassDone, InnerSys, kernel, bg
<1>4. WorkerInv'
  BY <1>0, <1>2, PassTool DEF WorkerInv, PassDone, Keeping, WorkerPcs, Early, Poll, SwPoll, Cleaning, Tracing, Sys, InnerSys
<1>5. ArmedInv'
  <2>1. bg.kind \notin {"hw", "st"}
    BY <1>0 DEF WorkerInv, PassDone, Keeping, WorkerPcs, Early, Poll, SwPoll, Cleaning, Tracing, Sys, InnerSys
  <2> QED BY <1>0, <1>1, <1>3, <2>1, ArmedKept DEF ArmedInv, Gentle, Same, Alike
<1>6. bg'.cur \in Threads /\ bg'.held \subseteq Threads
  BY <1>3 DEF ToolType
<1>9. \A t \in bg'.held : th[t].life # "absent"
  BY <1>0, <1>2, PassTool DEF OwnInv, PassDone
<1>7. bg'.pc \in Keeping => \A t \in bg'.held : Live(th'[t]) => th[t].by = "bg"
  BY <1>0, <1>1, <1>6, <1>2, PassTool DEF OwnInv, AllAlike, Alike, PassDone, Keeping, WorkerPcs, Early, Poll, SwPoll, Cleaning, Tracing, Sys, InnerSys
<1>8. /\ bg'.pc \in {"interrupt", "await", "clean_wait"} => th[bg'.cur].by = "bg"
      /\ bg'.pc \in Keeping => bg.pc \in Keeping
      /\ bg'.pc \in Sys => bg'.ret = "end"
      /\ bg'.pc = "newborn" => th[th[bg'.cur].child].by = "bg"
  <2>1. bg'.pc = "await" => bg'.cur = t0 /\ t0 \in Listed /\ bg.held # {}
    BY <1>0, <1>2, PassTool DEF PassDone
  <2>2. bg.held # {} => t0 \in bg.held
    BY <1>0, <1>2, MinIn
  <2> QED BY <1>0, <2>1, <2>2, <1>2, PassTool DEF PassDone, OwnInv, Listed, Live, WorkerInv, Keeping, Early, Poll, SwPoll, Sys, InnerSys
<1> QED BY <1>0, <1>1, <1>3, <1>4, <1>5, <1>6, <1>7, <1>8, <1>9, WorkerMove

LEMMA GuardKept == ASSUME Inv, GuardPage PROVE CleanInv'
<1>0. /\ TypeOK /\ WorkerInv /\ OwnInv /\ ChildInv /\ ArmedInv /\ bg \in ToolType
      /\ bg.cur \in Threads /\ bg.todo \subseteq Threads /\ bg.held \subseteq Threads
  BY Threads1 DEF Inv, CleanInv
<1>1. Gentle /\ AllAlike
  BY <1>0, FinderGentle, SaneKept
<1>3. /\ fg' = fg /\ UNCHANGED patched /\ bg' \in ToolType /\ bg'.kind = bg.kind
      /\ bg.pc \notin InnerSys /\ bg'.pc \notin InnerSys /\ bg'.pc # "idle"
  BY <1>0, GuardTool DEF GuardPage, InnerSys, kernel, bg
<1>4. WorkerInv'
  BY <1>0, GuardTool DEF WorkerInv, GuardPage, Keeping, WorkerPcs, Early, Poll, SwPoll, Cleaning, Tracing, Sys, InnerSys
<1>5. ArmedInv'
  <2>1. bg.kind \notin {"hw", "st"}
    BY <1>0 DEF WorkerInv, GuardPage, Keeping, WorkerPcs, Early, Poll, SwPoll, Cleaning, Tracing, Sys, InnerSys
  <2> QED BY <1>0, <1>1, <1>3, <2>1, ArmedKept DEF ArmedInv, Gentle, Same, Alike
<1>6. bg'.cur \in Threads /\ bg'.held \subseteq Threads
  BY <1>3 DEF ToolType
<1>9. \A t \in bg'.held : th[t].life # "absent"
  BY <1>0, GuardTool DEF OwnInv, GuardPage
<1>7. bg'.pc \in Keeping => \A t \in bg'.held : Live(th'[t]) => th[t].by = "bg"
  BY <1>0, <1>1, <1>6, GuardTool DEF OwnInv, AllAlike, Alike, GuardPage, Keeping, WorkerPcs, Early, Poll, SwPoll, Cleaning, Tracing, Sys, InnerSys
<1>8. /\ bg'.pc \in {"interrupt", "await", "clean_wait"} => th[bg'.cur].by = "bg"
      /\ bg'.pc \in Keeping => bg.pc \in Keeping
      /\ bg'.pc \in Sys => bg'.ret = "end"
      /\ bg'.pc = "newborn" => th[th[bg'.cur].child].by = "bg"
  BY <1>0, GuardTool DEF WorkerInv, GuardPage, Keeping, WorkerPcs, Early, Poll, SwPoll, Cleaning, Tracing, Sys, InnerSys
<1> QED BY <1>0, <1>1, <1>3, <1>4, <1>5, <1>6, <1>7, <1>8, <1>9, WorkerMove

LEMMA FaultKept == ASSUME Inv, NEW w \in Threads, Fault(w) PROVE CleanInv'
<1>0. /\ TypeOK /\ WorkerInv /\ OwnInv /\ ChildInv /\ ArmedInv /\ bg \in ToolType
      /\ bg.cur \in Threads /\ bg.todo \subseteq Threads /\ bg.held \subseteq Threads
  BY Threads1 DEF Inv, CleanInv
<1>1. Gentle /\ AllAlike
  BY <1>0, FinderGentle, SaneKept
<1>3. /\ fg' = fg /\ UNCHANGED patched /\ bg' \in ToolType /\ bg'.kind = bg.kind
      /\ bg.pc \notin InnerSys /\ bg'.pc \notin InnerSys /\ bg'.pc # "idle"
  BY <1>0, FaultTool DEF Fault, Polling, InnerSys, kernel, bg
<1>4. WorkerInv'
  BY <1>0, FaultTool DEF WorkerInv, Fault, Polling, Keeping, WorkerPcs, Early, Poll, SwPoll, Cleaning, Tracing, Sys, InnerSys
<1>5. ArmedInv'
  <2>1. bg.kind \notin {"hw", "st"}
    BY <1>0 DEF WorkerInv, Fault, Polling, Keeping, WorkerPcs, Early, Poll, SwPoll, Cleaning, Tracing, Sys, InnerSys
  <2> QED BY <1>0, <1>1, <1>3, <2>1, ArmedKept DEF ArmedInv, Gentle, Same, Alike
<1>6. bg'.cur \in Threads /\ bg'.held \subseteq Threads
  BY <1>3 DEF ToolType
<1>9. \A t \in bg'.held : th[t].life # "absent"
  BY <1>0, FaultTool DEF OwnInv, Fault, Polling
<1>7. bg'.pc \in Keeping => \A t \in bg'.held : Live(th'[t]) => th[t].by = "bg"
  BY <1>0, <1>1, <1>6, FaultTool DEF OwnInv, AllAlike, Alike, Fault, Polling, Keeping, WorkerPcs, Early, Poll, SwPoll, Cleaning, Tracing, Sys, InnerSys
<1>8. /\ bg'.pc \in {"interrupt", "await", "clean_wait"} => th[bg'.cur].by = "bg"
      /\ bg'.pc \in Keeping => bg.pc \in Keeping
      /\ bg'.pc \in Sys => bg'.ret = "end"
      /\ bg'.pc = "newborn" => th[th[bg'.cur].child].by = "bg"
  BY <1>0, FaultTool DEF WorkerInv, Fault, Polling, Keeping, WorkerPcs, Early, Poll, SwPoll, Cleaning, Tracing, Sys, InnerSys
<1> QED BY <1>0, <1>1, <1>3, <1>4, <1>5, <1>6, <1>7, <1>8, <1>9, WorkerMove

LEMMA UnprotectKept == ASSUME Inv, Unprotect PROVE CleanInv'
<1>0. /\ TypeOK /\ WorkerInv /\ OwnInv /\ ChildInv /\ ArmedInv /\ bg \in ToolType
      /\ bg.cur \in Threads /\ bg.todo \subseteq Threads /\ bg.held \subseteq Threads
  BY Threads1 DEF Inv, CleanInv
<1>1. Gentle /\ AllAlike
  BY <1>0, FinderGentle, SaneKept
<1>3. /\ fg' = fg /\ UNCHANGED patched /\ bg' \in ToolType /\ bg'.kind = bg.kind
      /\ bg.pc \notin InnerSys /\ bg'.pc \notin InnerSys /\ bg'.pc # "idle"
  BY <1>0, UnprotectTool DEF Unprotect, InnerSys, kernel, bg
<1>4. WorkerInv'
  BY <1>0, UnprotectTool DEF WorkerInv, Unprotect, Keeping, WorkerPcs, Early, Poll, SwPoll, Cleaning, Tracing, Sys, InnerSys
<1>5. ArmedInv'
  <2>1. bg.kind \notin {"hw", "st"}
    BY <1>0 DEF WorkerInv, Unprotect, Keeping, WorkerPcs, Early, Poll, SwPoll, Cleaning, Tracing, Sys, InnerSys
  <2> QED BY <1>0, <1>1, <1>3, <2>1, ArmedKept DEF ArmedInv, Gentle, Same, Alike
<1>6. bg'.cur \in Threads /\ bg'.held \subseteq Threads
  BY <1>3 DEF ToolType
<1>9. \A t \in bg'.held : th[t].life # "absent"
  BY <1>0, UnprotectTool DEF OwnInv, Unprotect
<1>7. bg'.pc \in Keeping => \A t \in bg'.held : Live(th'[t]) => th[t].by = "bg"
  BY <1>0, <1>1, <1>6, UnprotectTool DEF OwnInv, AllAlike, Alike, Unprotect, Keeping, WorkerPcs, Early, Poll, SwPoll, Cleaning, Tracing, Sys, InnerSys
<1>8. /\ bg'.pc \in {"interrupt", "await", "clean_wait"} => th[bg'.cur].by = "bg"
      /\ bg'.pc \in Keeping => bg.pc \in Keeping
      /\ bg'.pc \in Sys => bg'.ret = "end"
      /\ bg'.pc = "newborn" => th[th[bg'.cur].child].by = "bg"
  BY <1>0, UnprotectTool DEF WorkerInv, Unprotect, Keeping, WorkerPcs, Early, Poll, SwPoll, Cleaning, Tracing, Sys, InnerSys
<1> QED BY <1>0, <1>1, <1>3, <1>4, <1>5, <1>6, <1>7, <1>8, <1>9, WorkerMove

LEMMA StepStoreKept == ASSUME Inv, StepStore PROVE CleanInv'
<1>0. /\ TypeOK /\ WorkerInv /\ OwnInv /\ ChildInv /\ ArmedInv /\ bg \in ToolType
      /\ bg.cur \in Threads /\ bg.todo \subseteq Threads /\ bg.held \subseteq Threads
  BY Threads1 DEF Inv, CleanInv
<1>1. Gentle /\ AllAlike
  BY <1>0, FinderGentle, SaneKept
<1>3. /\ fg' = fg /\ UNCHANGED patched /\ bg' \in ToolType /\ bg'.kind = bg.kind
      /\ bg.pc \notin InnerSys /\ bg'.pc \notin InnerSys /\ bg'.pc # "idle"
  BY <1>0, StepStoreTool DEF StepStore, InnerSys, kernel, bg
<1>4. WorkerInv'
  BY <1>0, StepStoreTool DEF WorkerInv, StepStore, Keeping, WorkerPcs, Early, Poll, SwPoll, Cleaning, Tracing, Sys, InnerSys
<1>5. ArmedInv'
  <2>1. bg.kind \notin {"hw", "st"}
    BY <1>0 DEF WorkerInv, StepStore, Keeping, WorkerPcs, Early, Poll, SwPoll, Cleaning, Tracing, Sys, InnerSys
  <2> QED BY <1>0, <1>1, <1>3, <2>1, ArmedKept DEF ArmedInv, Gentle, Same, Alike
<1>6. bg'.cur \in Threads /\ bg'.held \subseteq Threads
  BY <1>3 DEF ToolType
<1>9. \A t \in bg'.held : th[t].life # "absent"
  BY <1>0, StepStoreTool DEF OwnInv, StepStore
<1>7. bg'.pc \in Keeping => \A t \in bg'.held : Live(th'[t]) => th[t].by = "bg"
  BY <1>0, <1>1, <1>6, StepStoreTool DEF OwnInv, AllAlike, Alike, StepStore, Keeping, WorkerPcs, Early, Poll, SwPoll, Cleaning, Tracing, Sys, InnerSys
<1>8. /\ bg'.pc \in {"interrupt", "await", "clean_wait"} => th[bg'.cur].by = "bg"
      /\ bg'.pc \in Keeping => bg.pc \in Keeping
      /\ bg'.pc \in Sys => bg'.ret = "end"
      /\ bg'.pc = "newborn" => th[th[bg'.cur].child].by = "bg"
  BY <1>0, StepStoreTool DEF WorkerInv, StepStore, Keeping, WorkerPcs, Early, Poll, SwPoll, Cleaning, Tracing, Sys, InnerSys
<1> QED BY <1>0, <1>1, <1>3, <1>4, <1>5, <1>6, <1>7, <1>8, <1>9, WorkerMove

LEMMA ReguardKept == ASSUME Inv, Reguard PROVE CleanInv'
<1>0. /\ TypeOK /\ WorkerInv /\ OwnInv /\ ChildInv /\ ArmedInv /\ bg \in ToolType
      /\ bg.cur \in Threads /\ bg.todo \subseteq Threads /\ bg.held \subseteq Threads
  BY Threads1 DEF Inv, CleanInv
<1>1. Gentle /\ AllAlike
  BY <1>0, FinderGentle, SaneKept
<1>3. /\ fg' = fg /\ UNCHANGED patched /\ bg' \in ToolType /\ bg'.kind = bg.kind
      /\ bg.pc \notin InnerSys /\ bg'.pc \notin InnerSys /\ bg'.pc # "idle"
  BY <1>0, ReguardTool DEF Reguard, InnerSys, kernel, bg
<1>4. WorkerInv'
  BY <1>0, ReguardTool DEF WorkerInv, Reguard, Keeping, WorkerPcs, Early, Poll, SwPoll, Cleaning, Tracing, Sys, InnerSys
<1>5. ArmedInv'
  <2>1. bg.kind \notin {"hw", "st"}
    BY <1>0 DEF WorkerInv, Reguard, Keeping, WorkerPcs, Early, Poll, SwPoll, Cleaning, Tracing, Sys, InnerSys
  <2> QED BY <1>0, <1>1, <1>3, <2>1, ArmedKept DEF ArmedInv, Gentle, Same, Alike
<1>6. bg'.cur \in Threads /\ bg'.held \subseteq Threads
  BY <1>3 DEF ToolType
<1>9. \A t \in bg'.held : th[t].life # "absent"
  BY <1>0, ReguardTool DEF OwnInv, Reguard
<1>7. bg'.pc \in Keeping => \A t \in bg'.held : Live(th'[t]) => th[t].by = "bg"
  BY <1>0, <1>1, <1>6, ReguardTool DEF OwnInv, AllAlike, Alike, Reguard, Keeping, WorkerPcs, Early, Poll, SwPoll, Cleaning, Tracing, Sys, InnerSys
<1>8. /\ bg'.pc \in {"interrupt", "await", "clean_wait"} => th[bg'.cur].by = "bg"
      /\ bg'.pc \in Keeping => bg.pc \in Keeping
      /\ bg'.pc \in Sys => bg'.ret = "end"
      /\ bg'.pc = "newborn" => th[th[bg'.cur].child].by = "bg"
  BY <1>0, ReguardTool DEF WorkerInv, Reguard, Keeping, WorkerPcs, Early, Poll, SwPoll, Cleaning, Tracing, Sys, InnerSys
<1> QED BY <1>0, <1>1, <1>3, <1>4, <1>5, <1>6, <1>7, <1>8, <1>9, WorkerMove

LEMMA RunToStartKept == ASSUME Inv, RunToStart PROVE CleanInv'
<1>0. /\ TypeOK /\ WorkerInv /\ OwnInv /\ ChildInv /\ ArmedInv /\ bg \in ToolType
      /\ bg.cur \in Threads /\ bg.todo \subseteq Threads /\ bg.held \subseteq Threads
  BY Threads1 DEF Inv, CleanInv
<1>1. Gentle /\ AllAlike
  BY <1>0, TracerGentle, SaneKept
<1>3. /\ fg' = fg /\ UNCHANGED patched /\ bg' \in ToolType /\ bg'.kind = bg.kind
      /\ bg.pc \notin InnerSys /\ bg'.pc \notin InnerSys /\ bg'.pc # "idle"
  BY <1>0, RunTool DEF RunToStart, InnerSys, kernel, bg
<1>4. WorkerInv'
  BY <1>0, RunTool DEF WorkerInv, RunToStart, Keeping, WorkerPcs, Early, Poll, SwPoll, Cleaning, Tracing, Sys, InnerSys
<1>5. ArmedInv'
  <2>1. bg.kind \notin {"hw", "st"}
    BY <1>0 DEF WorkerInv, RunToStart, Keeping, WorkerPcs, Early, Poll, SwPoll, Cleaning, Tracing, Sys, InnerSys
  <2> QED BY <1>0, <1>1, <1>3, <2>1, ArmedKept DEF ArmedInv, Gentle, Same, Alike
<1>6. bg'.cur \in Threads /\ bg'.held \subseteq Threads
  BY <1>3 DEF ToolType
<1>9. \A t \in bg'.held : th[t].life # "absent"
  BY <1>0, RunTool DEF OwnInv, RunToStart
<1>7. bg'.pc \in Keeping => \A t \in bg'.held : Live(th'[t]) => th[t].by = "bg"
  BY <1>0, <1>1, <1>6, RunTool DEF OwnInv, AllAlike, Alike, RunToStart, Keeping, WorkerPcs, Early, Poll, SwPoll, Cleaning, Tracing, Sys, InnerSys
<1>8. /\ bg'.pc \in {"interrupt", "await", "clean_wait"} => th[bg'.cur].by = "bg"
      /\ bg'.pc \in Keeping => bg.pc \in Keeping
      /\ bg'.pc \in Sys => bg'.ret = "end"
      /\ bg'.pc = "newborn" => th[th[bg'.cur].child].by = "bg"
  BY <1>0, RunTool DEF WorkerInv, RunToStart, Keeping, WorkerPcs, Early, Poll, SwPoll, Cleaning, Tracing, Sys, InnerSys
<1> QED BY <1>0, <1>1, <1>3, <1>4, <1>5, <1>6, <1>7, <1>8, <1>9, WorkerMove

LEMMA TraceEventKept == ASSUME Inv, NEW w \in Threads, TraceEvent(w) PROVE CleanInv'
<1>0. /\ TypeOK /\ WorkerInv /\ OwnInv /\ ChildInv /\ ArmedInv /\ bg \in ToolType
      /\ bg.cur \in Threads /\ bg.todo \subseteq Threads /\ bg.held \subseteq Threads
  BY Threads1 DEF Inv, CleanInv
<1>1. Gentle /\ AllAlike
  BY <1>0, TracerGentle, SaneKept
<1>3. /\ fg' = fg /\ UNCHANGED patched /\ bg' \in ToolType /\ bg'.kind = bg.kind
      /\ bg.pc \notin InnerSys /\ bg'.pc \notin InnerSys /\ bg'.pc # "idle"
  BY <1>0, TraceEventTool DEF TraceEvent, InnerSys, kernel, bg
<1>4. WorkerInv'
  BY <1>0, TraceEventTool DEF WorkerInv, TraceEvent, Keeping, WorkerPcs, Early, Poll, SwPoll, Cleaning, Tracing, Sys, InnerSys
<1>5. ArmedInv'
  <2>1. bg.kind \notin {"hw", "st"}
    BY <1>0 DEF WorkerInv, TraceEvent, Keeping, WorkerPcs, Early, Poll, SwPoll, Cleaning, Tracing, Sys, InnerSys
  <2> QED BY <1>0, <1>1, <1>3, <2>1, ArmedKept DEF ArmedInv, Gentle, Same, Alike
<1>6. bg'.cur \in Threads /\ bg'.held \subseteq Threads
  BY <1>3 DEF ToolType
<1>9. \A t \in bg'.held : th[t].life # "absent"
  BY <1>0, TraceEventTool DEF OwnInv, TraceEvent
<1>7. bg'.pc \in Keeping => \A t \in bg'.held : Live(th'[t]) => th[t].by = "bg"
  BY <1>0, <1>1, <1>6, TraceEventTool DEF OwnInv, AllAlike, Alike, TraceEvent, Keeping, WorkerPcs, Early, Poll, SwPoll, Cleaning, Tracing, Sys, InnerSys
<1>8. /\ bg'.pc \in {"interrupt", "await", "clean_wait"} => th[bg'.cur].by = "bg"
      /\ bg'.pc \in Keeping => bg.pc \in Keeping
      /\ bg'.pc \in Sys => bg'.ret = "end"
      /\ bg'.pc = "newborn" => th[th[bg'.cur].child].by = "bg"
  BY <1>0, TraceEventTool DEF WorkerInv, TraceEvent, Keeping, WorkerPcs, Early, Poll, SwPoll, Cleaning, Tracing, Sys, InnerSys
<1> QED BY <1>0, <1>1, <1>3, <1>4, <1>5, <1>6, <1>7, <1>8, <1>9, WorkerMove

LEMMA DisarmKept == ASSUME Inv, Disarm PROVE CleanInv'
<1>0. /\ TypeOK /\ WorkerInv /\ OwnInv /\ ChildInv /\ ArmedInv /\ bg \in ToolType
      /\ bg.cur \in Threads /\ bg.todo \subseteq Threads /\ bg.held \subseteq Threads
  BY Threads1 DEF Inv, CleanInv
<1>1. Gentle /\ AllAlike
  BY <1>0, TracerGentle, SaneKept
<1>3. /\ fg' = fg /\ UNCHANGED patched /\ bg' \in ToolType /\ bg'.kind = bg.kind
      /\ bg.pc \notin InnerSys /\ bg'.pc \notin InnerSys /\ bg'.pc # "idle"
  BY <1>0, DisarmTool DEF Disarm, InnerSys, kernel, bg
<1>4. WorkerInv'
  BY <1>0, DisarmTool DEF WorkerInv, Disarm, Keeping, WorkerPcs, Early, Poll, SwPoll, Cleaning, Tracing, Sys, InnerSys
<1>5. ArmedInv'
  <2>1. bg.kind \notin {"hw", "st"}
    BY <1>0 DEF WorkerInv, Disarm, Keeping, WorkerPcs, Early, Poll, SwPoll, Cleaning, Tracing, Sys, InnerSys
  <2> QED BY <1>0, <1>1, <1>3, <2>1, ArmedKept DEF ArmedInv, Gentle, Same, Alike
<1>6. bg'.cur \in Threads /\ bg'.held \subseteq Threads
  BY <1>3 DEF ToolType
<1>9. \A t \in bg'.held : th[t].life # "absent"
  BY <1>0, DisarmTool DEF OwnInv, Disarm
<1>7. bg'.pc \in Keeping => \A t \in bg'.held : Live(th'[t]) => th[t].by = "bg"
  BY <1>0, <1>1, <1>6, DisarmTool DEF OwnInv, AllAlike, Alike, Disarm, Keeping, WorkerPcs, Early, Poll, SwPoll, Cleaning, Tracing, Sys, InnerSys
<1>8. /\ bg'.pc \in {"interrupt", "await", "clean_wait"} => th[bg'.cur].by = "bg"
      /\ bg'.pc \in Keeping => bg.pc \in Keeping
      /\ bg'.pc \in Sys => bg'.ret = "end"
      /\ bg'.pc = "newborn" => th[th[bg'.cur].child].by = "bg"
  BY <1>0, DisarmTool DEF WorkerInv, Disarm, Keeping, WorkerPcs, Early, Poll, SwPoll, Cleaning, Tracing, Sys, InnerSys
<1> QED BY <1>0, <1>1, <1>3, <1>4, <1>5, <1>6, <1>7, <1>8, <1>9, WorkerMove

LEMMA FreezeKept == ASSUME Inv, Freeze PROVE CleanInv'
<1>0. /\ TypeOK /\ WorkerInv /\ OwnInv /\ ChildInv /\ ArmedInv /\ bg \in ToolType
      /\ bg.cur \in Threads /\ bg.todo \subseteq Threads /\ bg.held \subseteq Threads
  BY Threads1 DEF Inv, CleanInv
<1>1. Gentle /\ AllAlike
  BY <1>0, TracerGentle, SaneKept
<1>2. PICK t0 : t0 = Min(bg.todo)
  OBVIOUS
<1>3. /\ fg' = fg /\ UNCHANGED patched /\ bg' \in ToolType /\ bg'.kind = bg.kind
      /\ bg.pc \notin InnerSys /\ bg'.pc \notin InnerSys /\ bg'.pc # "idle"
  BY <1>0, <1>2, FreezeTool DEF Freeze, InnerSys, kernel, bg
<1>4. WorkerInv'
  BY <1>0, <1>2, FreezeTool DEF WorkerInv, Freeze, Keeping, WorkerPcs, Early, Poll, SwPoll, Cleaning, Tracing, Sys, InnerSys
<1>5. ArmedInv'
  <2>1. bg.kind \notin {"hw", "st"}
    BY <1>0 DEF WorkerInv, Freeze, Keeping, WorkerPcs, Early, Poll, SwPoll, Cleaning, Tracing, Sys, InnerSys
  <2> QED BY <1>0, <1>1, <1>3, <2>1, ArmedKept DEF ArmedInv, Gentle, Same, Alike
<1>6. bg'.cur \in Threads /\ bg'.held \subseteq Threads
  BY <1>3 DEF ToolType
<1>9. \A t \in bg'.held : th[t].life # "absent"
  BY <1>0, <1>2, FreezeTool DEF OwnInv, Freeze
<1>7. bg'.pc \in Keeping => \A t \in bg'.held : Live(th'[t]) => th[t].by = "bg"
  BY <1>0, <1>1, <1>6, <1>2, FreezeTool DEF OwnInv, AllAlike, Alike, Freeze, Keeping, WorkerPcs, Early, Poll, SwPoll, Cleaning, Tracing, Sys, InnerSys
<1>8. /\ bg'.pc \in {"interrupt", "await", "clean_wait"} => th[bg'.cur].by = "bg"
      /\ bg'.pc \in Keeping => bg.pc \in Keeping
      /\ bg'.pc \in Sys => bg'.ret = "end"
      /\ bg'.pc = "newborn" => th[th[bg'.cur].child].by = "bg"
  BY <1>0, <1>2, FreezeTool DEF WorkerInv, Freeze, Keeping, WorkerPcs, Early, Poll, SwPoll, Cleaning, Tracing, Sys, InnerSys
<1> QED BY <1>0, <1>1, <1>3, <1>4, <1>5, <1>6, <1>7, <1>8, <1>9, WorkerMove

LEMMA FreezeWaitKept == ASSUME Inv, FreezeWait PROVE CleanInv'
<1>0. /\ TypeOK /\ WorkerInv /\ OwnInv /\ ChildInv /\ ArmedInv /\ bg \in ToolType
      /\ bg.cur \in Threads /\ bg.todo \subseteq Threads /\ bg.held \subseteq Threads
  BY Threads1 DEF Inv, CleanInv
<1>1. Gentle /\ AllAlike
  BY <1>0, TracerGentle, SaneKept
<1>2. PICK t0 : t0 = Min(bg.todo)
  OBVIOUS
<1>3. /\ fg' = fg /\ UNCHANGED patched /\ bg' \in ToolType /\ bg'.kind = bg.kind
      /\ bg.pc \notin InnerSys /\ bg'.pc \notin InnerSys /\ bg'.pc # "idle"
  BY <1>0, <1>2, FreezeWaitTool DEF FreezeWait, InnerSys, kernel, bg
<1>4. WorkerInv'
  BY <1>0, <1>2, FreezeWaitTool DEF WorkerInv, FreezeWait, Keeping, WorkerPcs, Early, Poll, SwPoll, Cleaning, Tracing, Sys, InnerSys
<1>5. ArmedInv'
  <2>1. bg.kind \notin {"hw", "st"}
    BY <1>0 DEF WorkerInv, FreezeWait, Keeping, WorkerPcs, Early, Poll, SwPoll, Cleaning, Tracing, Sys, InnerSys
  <2> QED BY <1>0, <1>1, <1>3, <2>1, ArmedKept DEF ArmedInv, Gentle, Same, Alike
<1>6. bg'.cur \in Threads /\ bg'.held \subseteq Threads
  BY <1>3 DEF ToolType
<1>9. \A t \in bg'.held : th[t].life # "absent"
  BY <1>0, <1>2, FreezeWaitTool DEF OwnInv, FreezeWait
<1>7. bg'.pc \in Keeping => \A t \in bg'.held : Live(th'[t]) => th[t].by = "bg"
  BY <1>0, <1>1, <1>6, <1>2, FreezeWaitTool DEF OwnInv, AllAlike, Alike, FreezeWait, Keeping, WorkerPcs, Early, Poll, SwPoll, Cleaning, Tracing, Sys, InnerSys
<1>8. /\ bg'.pc \in {"interrupt", "await", "clean_wait"} => th[bg'.cur].by = "bg"
      /\ bg'.pc \in Keeping => bg.pc \in Keeping
      /\ bg'.pc \in Sys => bg'.ret = "end"
      /\ bg'.pc = "newborn" => th[th[bg'.cur].child].by = "bg"
  BY <1>0, <1>2, FreezeWaitTool DEF WorkerInv, FreezeWait, Keeping, WorkerPcs, Early, Poll, SwPoll, Cleaning, Tracing, Sys, InnerSys
<1> QED BY <1>0, <1>1, <1>3, <1>4, <1>5, <1>6, <1>7, <1>8, <1>9, WorkerMove

LEMMA TraceStepKept == ASSUME Inv, TraceStep PROVE CleanInv'
<1>0. /\ TypeOK /\ WorkerInv /\ OwnInv /\ ChildInv /\ ArmedInv /\ bg \in ToolType
      /\ bg.cur \in Threads /\ bg.todo \subseteq Threads /\ bg.held \subseteq Threads
  BY Threads1 DEF Inv, CleanInv
<1>1. Gentle /\ AllAlike
  BY <1>0, TracerGentle, SaneKept
<1>3. /\ fg' = fg /\ UNCHANGED patched /\ bg' \in ToolType /\ bg'.kind = bg.kind
      /\ bg.pc \notin InnerSys /\ bg'.pc \notin InnerSys /\ bg'.pc # "idle"
  BY <1>0, TraceStepTool DEF TraceStep, InnerSys, kernel, bg
<1>4. WorkerInv'
  BY <1>0, TraceStepTool DEF WorkerInv, TraceStep, Keeping, WorkerPcs, Early, Poll, SwPoll, Cleaning, Tracing, Sys, InnerSys
<1>5. ArmedInv'
  <2>1. bg.kind \notin {"hw", "st"}
    BY <1>0 DEF WorkerInv, TraceStep, Keeping, WorkerPcs, Early, Poll, SwPoll, Cleaning, Tracing, Sys, InnerSys
  <2> QED BY <1>0, <1>1, <1>3, <2>1, ArmedKept DEF ArmedInv, Gentle, Same, Alike
<1>6. bg'.cur \in Threads /\ bg'.held \subseteq Threads
  BY <1>3 DEF ToolType
<1>9. \A t \in bg'.held : th[t].life # "absent"
  BY <1>0, TraceStepTool DEF OwnInv, TraceStep
<1>7. bg'.pc \in Keeping => \A t \in bg'.held : Live(th'[t]) => th[t].by = "bg"
  BY <1>0, <1>1, <1>6, TraceStepTool DEF OwnInv, AllAlike, Alike, TraceStep, Keeping, WorkerPcs, Early, Poll, SwPoll, Cleaning, Tracing, Sys, InnerSys
<1>8. /\ bg'.pc \in {"interrupt", "await", "clean_wait"} => th[bg'.cur].by = "bg"
      /\ bg'.pc \in Keeping => bg.pc \in Keeping
      /\ bg'.pc \in Sys => bg'.ret = "end"
      /\ bg'.pc = "newborn" => th[th[bg'.cur].child].by = "bg"
  BY <1>0, TraceStepTool DEF WorkerInv, TraceStep, Keeping, WorkerPcs, Early, Poll, SwPoll, Cleaning, Tracing, Sys, InnerSys
<1> QED BY <1>0, <1>1, <1>3, <1>4, <1>5, <1>6, <1>7, <1>8, <1>9, WorkerMove

\* The worker arms a thread and moves on.
LEMMA ArmKept == ASSUME Inv, ArmThread PROVE CleanInv'
<1>0. /\ TypeOK /\ WorkerInv /\ OwnInv /\ ChildInv /\ ArmedInv /\ bg \in ToolType
      /\ bg.cur \in Threads /\ bg.todo \subseteq Threads /\ bg.held \subseteq Threads
  BY Threads1 DEF Inv, CleanInv
<1>1. AllAlike /\ \A t \in Threads \ {bg.cur} : th'[t] = th[t]
  BY ArmAlike
<1>2. /\ fg' = fg /\ UNCHANGED patched /\ bg' \in ToolType /\ bg'.kind = bg.kind
      /\ bg.pc \notin InnerSys /\ bg'.pc \notin InnerSys /\ bg'.pc # "idle"
  BY <1>0, ArmTool DEF ArmThread, InnerSys, kernel, bg
<1>3. WorkerInv'
  BY <1>0, ArmTool DEF WorkerInv, ArmThread, Keeping, WorkerPcs, Early, Poll, SwPoll, Cleaning, Tracing, Sys, InnerSys
<1>4. th[bg.cur].by = "bg"
  BY <1>0 DEF OwnInv, ArmThread
<1>5. ArmedInv'
  <2> SUFFICES ASSUME NEW t \in Threads, th'[t].dr = "hw", Live(th'[t])
               PROVE  th'[t].by = "bg" /\ bg'.kind \in {"hw", "st"} /\ t \in Place(bg')
    BY DEF ArmedInv
  <2>1. th'[t].by = th[t].by
    BY <1>1 DEF AllAlike, Alike
  <2>2. t \in bg.held \cup {bg.cur} /\ th[t].by = "bg"
    <3>1. CASE t = bg.cur
      BY <1>4, <3>1
    <3>2. CASE t # bg.cur
      BY <1>0, <1>1, <3>2 DEF ArmedInv, Place, ArmThread, Early
    <3> QED BY <3>1, <3>2
  <2> QED BY <1>0, <2>1, <2>2, <1>2, ArmTool DEF ArmThread, Place, Early
<1>6. bg'.cur \in Threads /\ bg'.held \subseteq Threads
  BY <1>2 DEF ToolType
<1>7. bg'.pc \in Keeping => \A t \in bg'.held : Live(th'[t]) => th[t].by = "bg"
  <2>1. \A t \in bg.held : Live(th'[t]) => th[t].by = "bg"
    BY <1>0, <1>1 DEF OwnInv, AllAlike, Alike, ArmThread, Keeping, Early
  <2> QED BY <1>0, <1>4, <2>1, ArmTool
<1>9. \A t \in bg'.held : th[t].life # "absent"
  BY <1>0, <1>4, ArmTool DEF OwnInv, Inv, CleanInv, SaneInv, Sane
<1>8. /\ bg'.pc \in {"interrupt", "await", "clean_wait"} => th[bg'.cur].by = "bg"
      /\ bg'.pc \in Keeping => bg.pc \in Keeping
      /\ bg'.pc \in Sys => bg'.ret = "end"
      /\ bg'.pc = "newborn" => th[th[bg'.cur].child].by = "bg"
  BY <1>0, ArmTool DEF ArmThread, Keeping, Early, Sys, InnerSys
<1> QED BY <1>0, <1>1, <1>2, <1>3, <1>5, <1>6, <1>7, <1>8, <1>9, WorkerMove

LEMMA NewbornKept == ASSUME Inv, Newborn PROVE CleanInv'
<1> DEFINE c == th[bg.cur].child
<1>0. /\ TypeOK /\ WorkerInv /\ OwnInv /\ ChildInv /\ ArmedInv /\ bg \in ToolType
      /\ bg.cur \in Threads /\ bg.todo \subseteq Threads /\ bg.held \subseteq Threads
  BY Threads1 DEF Inv, CleanInv
<1>1. /\ c \in Threads /\ AllAlike
      /\ \A t \in Threads \ {c} : th'[t].dr = th[t].dr
      /\ bg.kind = "sw" => th'[c].dr = th[c].dr
  BY NewbornAlike
<1>2. /\ fg' = fg /\ UNCHANGED patched /\ bg' \in ToolType /\ bg'.kind = bg.kind
      /\ bg.pc \notin InnerSys /\ bg'.pc \notin InnerSys /\ bg'.pc # "idle"
  BY <1>0, NewbornTool DEF Newborn, InnerSys, kernel, bg
<1>3. WorkerInv'
  BY <1>0, NewbornTool DEF WorkerInv, Newborn, Keeping, WorkerPcs, Early, Poll, SwPoll, Cleaning, Tracing, Sys, InnerSys
<1>4. th[c].by = "bg"
  BY <1>0 DEF ChildInv, Newborn
<1>5. ArmedInv'
  <2> SUFFICES ASSUME NEW t \in Threads, th'[t].dr = "hw", Live(th'[t])
               PROVE  th'[t].by = "bg" /\ bg'.kind \in {"hw", "st"} /\ t \in Place(bg')
    BY DEF ArmedInv
  <2>1. th'[t].by = th[t].by /\ (Live(th'[t]) => Live(th[t]))
    BY <1>1 DEF AllAlike, Alike
  <2>2. t \in bg.held \cup {c} /\ th[t].by = "bg" /\ bg.kind \in {"hw", "st"}
    <3>1. CASE t = c /\ bg.kind # "sw"
      BY <1>0, <1>4, <3>1 DEF WorkerInv, Newborn, Poll
    <3>2. CASE t # c \/ bg.kind = "sw"
      <4>1. th[t].dr = "hw"
        BY <1>1, <3>2
      <4> QED BY <1>0, <2>1, <4>1 DEF ArmedInv, Place, Newborn, Poll
    <3> QED BY <3>1, <3>2
  <2> QED BY <1>0, <2>1, <2>2, <1>2, NewbornTool DEF Newborn, Place, Poll
<1>6. bg'.cur \in Threads /\ bg'.held \subseteq Threads
  BY <1>2 DEF ToolType
<1>7. bg'.pc \in Keeping => \A t \in bg'.held : Live(th'[t]) => th[t].by = "bg"
  <2>1. \A t \in bg.held : Live(th'[t]) => th[t].by = "bg"
    BY <1>0, <1>1 DEF OwnInv, AllAlike, Alike, Newborn, Keeping, Poll
  <2> QED BY <1>0, <1>4, <2>1, NewbornTool
<1>9. \A t \in bg'.held : th[t].life # "absent"
  BY <1>0, <1>1, <1>4, NewbornTool DEF OwnInv, Inv, CleanInv, SaneInv, Sane
<1>8. /\ bg'.pc \in {"interrupt", "await", "clean_wait"} => th[bg'.cur].by = "bg"
      /\ bg'.pc \in Keeping => bg.pc \in Keeping
      /\ bg'.pc \in Sys => bg'.ret = "end"
      /\ bg'.pc = "newborn" => th[th[bg'.cur].child].by = "bg"
  BY <1>0, NewbornTool DEF Newborn, Keeping, Poll, Sys, InnerSys
<1> QED BY <1>0, <1>1, <1>2, <1>3, <1>5, <1>6, <1>7, <1>8, <1>9, WorkerMove

-----------------------------------------------------------------------------
(* Steps that let threads go. *)

\* A thread of x is let go, or nothing much happens to it.
LetGo(r, s, x) ==
    \/ Same(r, s)
    \/ /\ r.by = x /\ s.by = "none" /\ s \in ThreadType /\ Sane(s)
       /\ s.child = r.child /\ s.life # "stop" /\ (Live(s) => Live(r))
       /\ (s.life = "absent") = (r.life = "absent")
       /\ s.dr = "hw" => r.dr = "hw"
Letting(x) == th' \in [Threads -> ThreadType] /\ \A t \in Threads : LetGo(th[t], th'[t], x)

LEMMA FreedLetGo ==
    ASSUME NEW r \in ThreadType, Sane(r), NEW x, r.by = x
    PROVE  LetGo(r, Freed(r), x)
BY FreedType DEF LetGo, Sane, Live

\* ... disarmed first.
LEMMA DisarmedLetGo ==
    ASSUME NEW r \in ThreadType, Sane(r), NEW x, r.by = x, NEW s, s = [r EXCEPT !.dr = "none"]
    PROVE  LetGo(r, Freed(s), x) /\ Freed(s).dr = "none"
<1>1. /\ s \in ThreadType /\ s.by = r.by /\ s.life = r.life /\ s.why = r.why /\ s.unread = r.unread
      /\ s.child = r.child /\ s.dr = "none"
  BY DEF ThreadType
<1>2. LetGo(s, Freed(s), x) /\ Freed(s).dr = "none" /\ Freed(s).by = "none"
  <2>1. Sane(s)
    BY <1>1 DEF Sane
  <2> QED BY <1>1, <2>1, FreedType, FreedLetGo
<1>3. LetGo(r, Freed(s), x)
  BY ONLY <1>1, <1>2, r.by = x DEF LetGo, Same, Alike, Live
<1> QED BY <1>2, <1>3

LEMMA LettingFacts ==
    ASSUME Inv, NEW x \in {"bg", "fg"}, Letting(x)
    PROVE  /\ SaneInv' /\ Main \in Threads
           /\ \A t \in Threads : /\ th[t] \in ThreadType /\ LetGo(th[t], th'[t], x)
                                 /\ th[t].by # x => Same(th[t], th'[t])
                                 /\ th'[t].by \in {"none", th[t].by} /\ th'[t].child = th[t].child
                                 /\ th'[t].dr = "hw" => th[t].dr = "hw"
                                 /\ Live(th'[t]) => Live(th[t])
                                 /\ (th'[t].life = "absent") = (th[t].life = "absent")
                                 /\ th'[t].life = "stop" => Same(th[t], th'[t])
<1>1. /\ Main \in Threads /\ SaneInv
      /\ \A t \in Threads : th[t] \in ThreadType /\ LetGo(th[t], th'[t], x)
  BY ThreadFacts DEF Letting
<1>2. SaneInv'
  BY <1>1 DEF SaneInv, LetGo, Same, Alike
<1> QED BY <1>1, <1>2 DEF LetGo, Same, Alike

LEMMA CallerLetting ==
    ASSUME Inv, Letting("bg"), fg' = fg
    PROVE  SaneInv' /\ CallerInv' /\ SysOf("fg")' /\ HeldInv'
<1>0. /\ TypeOK /\ SaneInv' /\ Main \in Threads /\ fg.cur \in Threads
      /\ \A t \in Threads : th[t].by = "fg" => Same(th[t], th'[t])
      /\ \A t \in Threads : th'[t].by \in {"none", th[t].by}
  BY LettingFacts, ThreadFacts
<1>1. CallerInv'
  BY ThreadFacts DEF CallerInv
<1>2. SysOf("fg")'
  BY <1>0 DEF SysOf, Inv, CleanInv, SysInv, Same, Alike, InnerSys, fg
<1>3. HeldInv'
  <2>1. ASSUME NEW t \in Threads, th'[t].by = "fg", Live(th'[t])
        PROVE  \/ fg.pc \in InnerSys /\ t = Main
               \/ fg.pc \in {"interrupt", "await"} /\ t = fg.cur
               \/ fg.pc \in Early \cup Hijacked \cup {"release"} /\ t \in fg.held /\ th'[t].life = "stop"
    <3>1. th[t].by = "fg" /\ Live(th[t]) /\ (th[t].life = "stop" => th'[t].life = "stop")
      BY <1>0, <2>1 DEF Same, Alike, Live
    <3> QED BY <3>1 DEF HeldInv, Inv, CleanInv
  <2>2. fg.pc \in {"interrupt", "await"} => th'[fg.cur].by = "fg"
    BY <1>0 DEF Same, Alike, HeldInv, Inv, CleanInv
  <2> QED BY <2>1, <2>2 DEF HeldInv
<1> QED BY <1>0, <1>1, <1>2, <1>3

LEMMA WorkerLetting ==
    ASSUME Inv, Letting("fg"), bg' = bg
    PROVE  SaneInv' /\ WorkerInv' /\ SysOf("bg")' /\ OwnInv' /\ ChildInv' /\ ArmedInv'
<1>0. /\ TypeOK /\ SaneInv' /\ Main \in Threads /\ bg.cur \in Threads /\ bg.held \subseteq Threads
      /\ \A t \in Threads : th[t].by = "bg" => Same(th[t], th'[t])
      /\ \A t \in Threads : /\ th'[t].by \in {"none", th[t].by} /\ th'[t].child = th[t].child
                            /\ th'[t].dr = "hw" => th[t].dr = "hw"
                            /\ Live(th'[t]) => Live(th[t])
                            /\ (th'[t].life = "absent") = (th[t].life = "absent")
                            /\ th'[t].life = "stop" => Same(th[t], th'[t])
                            /\ th[t].child \in Threads
  BY LettingFacts, ThreadFacts, Threads1 DEF ThreadType
<1>1. WorkerInv'
  BY ThreadFacts DEF WorkerInv
<1>2. SysOf("bg")'
  BY <1>0 DEF SysOf, Inv, CleanInv, SysInv, Same, Alike, InnerSys, bg
<1>3. OwnInv'
  BY <1>0 DEF OwnInv, Inv, CleanInv, Same, Alike
<1>4. ChildInv'
  BY <1>0 DEF ChildInv, Inv, CleanInv, Same, Alike
<1>5. ArmedInv'
  BY <1>0 DEF ArmedInv, Inv, CleanInv, Same, Alike
<1> QED BY <1>0, <1>1, <1>2, <1>3, <1>4, <1>5

LEMMA ReleaseLetting ==
    ASSUME Inv, Release
    PROVE  /\ Letting("bg")
           /\ bg.kind # "sw" /\ Live(th'[bg.cur]) => th'[bg.cur].dr # "hw"
<1>0. /\ TypeOK /\ SaneInv /\ bg.cur \in Threads
      /\ \A t \in Threads : th[t] \in ThreadType /\ Sane(th[t])
  BY ThreadFacts
<1> DEFINE t == bg.cur
           r == IF bg.kind = "sw" THEN th[t] ELSE [th[t] EXCEPT !.dr = "none"]
           s == IF th[t].life = "stop" THEN Freed(r) ELSE Reaped(th[t])
<1>1. th' = [th EXCEPT ![t] = s]
  BY <1>0 DEF Release, TypeOK
<1>2. th[t].by = "bg" /\ th[t].unread
  BY DEF Release, Inv, CleanInv, OwnInv
<1>3. LetGo(th[t], s, "bg") /\ s \in ThreadType /\ (bg.kind # "sw" /\ Live(s) => s.dr # "hw")
  <2>1. CASE th[t].life = "stop" /\ bg.kind = "sw"
    BY <1>0, <1>2, <2>1, FreedLetGo, FreedType
  <2>2. CASE th[t].life = "stop" /\ bg.kind # "sw"
    <3>1. r \in ThreadType /\ s = Freed(r)
      BY <1>0, <2>2 DEF ThreadType
    <3>2. LetGo(th[t], Freed(r), "bg") /\ Freed(r).dr = "none"
      BY <1>0, <1>2, <2>2, DisarmedLetGo
    <3> QED BY <3>1, <3>2, FreedType
  <2>3. CASE th[t].life # "stop"
    <3>1. th[t].life = "zombie"
      BY <1>0, <1>2, <2>3 DEF Sane
    <3> QED BY <1>0, <3>1, ReapedSame, ReapedType DEF LetGo, Live
  <2> QED BY <2>1, <2>2, <2>3
<1> HIDE DEF s
<1>4. /\ th' \in [Threads -> ThreadType] /\ th'[t] = s
      /\ \A u \in Threads \ {t} : th'[u] = th[u] /\ Same(th[u], th'[u])
  BY <1>0, <1>1, <1>3, SameItself DEF TypeOK
<1> QED BY <1>3, <1>4 DEF Letting, LetGo

LEMMA ReleaseKept == ASSUME Inv, Release PROVE CleanInv'
<1>0. /\ TypeOK /\ WorkerInv /\ OwnInv /\ ArmedInv
  BY DEF Inv, CleanInv
<1>1. /\ Letting("bg")
      /\ bg.kind # "sw" /\ Live(th'[bg.cur]) => th'[bg.cur].dr # "hw"
  BY ReleaseLetting
<1>2. /\ fg' = fg /\ UNCHANGED patched /\ bg.pc = "clean_wait" /\ bg'.pc = "clean"
      /\ bg'.kind = bg.kind /\ bg'.todo = bg.todo /\ bg'.ret = bg.ret /\ bg'.held = bg.held /\ bg'.n = bg.n
  BY <1>0, ReleaseTool DEF Release, bg
<1>3. SaneInv' /\ CallerInv' /\ SysOf("fg")' /\ HeldInv'
  BY <1>1, <1>2, CallerLetting
<1>4. WorkerInv' /\ SysOf("bg")' /\ PatchInv' /\ ChildInv'
  <2>1. WorkerInv'
    BY <1>0, <1>2 DEF WorkerInv, WorkerPcs, Early, Poll, SwPoll, Cleaning, Tracing, Sys, InnerSys
  <2>2. SysOf("bg")'
    BY <1>2 DEF SysOf, bg, InnerSys
  <2>3. PatchInv'
    BY <1>2, PatchKept DEF Inv, CleanInv, SysInv
  <2>4. ChildInv'
    BY <1>2 DEF ChildInv, Keeping, Early, Poll, SwPoll, Sys, InnerSys
  <2> QED BY <2>1, <2>2, <2>3, <2>4
<1>5. OwnInv'
  BY <1>0, <1>1, <1>2, LettingFacts, Threads1 DEF LetGo, Same, Alike, OwnInv, Keeping, Early, Poll, SwPoll, Sys, InnerSys
<1>6. ArmedInv'
  <2> SUFFICES ASSUME NEW t \in Threads, th'[t].dr = "hw", Live(th'[t])
               PROVE  th'[t].by = "bg" /\ bg'.kind \in {"hw", "st"} /\ t \in Place(bg')
    BY DEF ArmedInv
  <2>1. th[t].dr = "hw" /\ Live(th[t])
    BY <1>1, LettingFacts
  <2>2. bg.kind \in {"hw", "st"} /\ t \in bg.todo \cup {bg.cur} /\ th[t].by = "bg"
    BY <1>0, <1>2, <2>1 DEF ArmedInv, Place, Early, Poll
  <2>3. t # bg.cur
    BY <1>1, <2>2
  <2>4. th'[t] = th[t]
    BY <1>0, <2>3 DEF Release, TypeOK
  <2> QED BY <1>2, <2>2, <2>3, <2>4 DEF Place, Early, Poll
<1> QED BY <1>3, <1>4, <1>5, <1>6 DEF CleanInv, SysInv

LEMMA EndLetting == ASSUME Inv, End \/ DetachAll PROVE Letting("bg")
<1>0. /\ TypeOK /\ SaneInv
      /\ \A t \in Threads : th[t] \in ThreadType /\ Sane(th[t])
  BY ThreadFacts
<1>1. ASSUME NEW t \in Threads PROVE th'[t] \in ThreadType /\ LetGo(th[t], th'[t], "bg")
  <2>1. th'[t] = th[t] \/ (th'[t] = Freed(th[t]) /\ th[t].by = "bg")
    BY <1>1 DEF End, DetachAll, Stopped
  <2>2. Same(th[t], th[t])
    BY <1>0, <1>1, SameItself
  <2> QED BY <1>0, <1>1, <2>1, <2>2, FreedLetGo, FreedType DEF LetGo
<1>2. th' \in [Threads -> ThreadType]
  BY <1>1 DEF End, DetachAll
<1> QED BY <1>1, <1>2 DEF Letting

LEMMA EndKept == ASSUME Inv, End PROVE CleanInv'
<1>0. /\ TypeOK /\ WorkerInv /\ OwnInv /\ ArmedInv
  BY DEF Inv, CleanInv
<1>1. Letting("bg")
  BY EndLetting
<1>2. /\ fg' = fg /\ UNCHANGED patched /\ bg.pc = "end" /\ bg' = Idle
  BY <1>0 DEF End, TypeOK, kernel, bg, fg
<1>3. SaneInv' /\ CallerInv' /\ SysOf("fg")' /\ HeldInv'
  BY <1>1, <1>2, CallerLetting
<1>4. WorkerInv'
  BY <1>2 DEF WorkerInv, Idle, WorkerPcs, Early, Poll, SwPoll, Cleaning, Tracing, Sys, InnerSys
<1>5. SysOf("bg")'
  BY <1>2 DEF SysOf, bg, InnerSys, Idle
<1>6. PatchInv'
  BY <1>2, PatchKept DEF Inv, CleanInv, SysInv
<1>7. ChildInv'
  BY <1>2 DEF ChildInv, Idle, Keeping, Early, Poll, SwPoll, Sys, InnerSys
<1>8. OwnInv'
  <2>1. \A t \in Threads : th'[t].by # "bg"
    BY <1>0, FreedType DEF End, TypeOK
  <2> QED BY <1>2, <2>1 DEF OwnInv, Idle, Keeping, Early, Poll, SwPoll, Sys, InnerSys
<1>9. ArmedInv'
  <2>1. \A t \in Threads : th'[t].dr = "hw" /\ Live(th'[t]) => th[t].dr = "hw" /\ Live(th[t])
    BY <1>1, LettingFacts
  <2>2. Place(bg) = {}
    BY <1>2 DEF Place, Early, Poll
  <2> QED BY <1>0, <2>1, <2>2 DEF ArmedInv
<1> QED BY <1>3, <1>4, <1>5, <1>6, <1>7, <1>8, <1>9 DEF CleanInv, SysInv

LEMMA DetachKept == ASSUME Inv, DetachAll PROVE CleanInv'
<1>0. /\ TypeOK /\ WorkerInv /\ OwnInv /\ ArmedInv
  BY DEF Inv, CleanInv
<1>1. Letting("bg")
  BY EndLetting
<1>2. /\ fg' = fg /\ UNCHANGED patched /\ bg.pc = "detach_all" /\ bg'.pc = "end" /\ bg'.kind = bg.kind
      /\ bg.kind = "trace"
  BY <1>0, DetachTool DEF DetachAll, kernel, WorkerInv, Tracing
<1>3. SaneInv' /\ CallerInv' /\ SysOf("fg")' /\ HeldInv'
  BY <1>1, <1>2, CallerLetting
<1>4. WorkerInv'
  BY <1>2 DEF WorkerInv, WorkerPcs, Early, Poll, SwPoll, Cleaning, Tracing, Sys, InnerSys
<1>5. SysOf("bg")'
  BY <1>2 DEF SysOf, bg, InnerSys
<1>6. PatchInv'
  BY <1>2, PatchKept DEF Inv, CleanInv, SysInv
<1>7. ChildInv' /\ OwnInv'
  BY <1>0, <1>1, <1>2, LettingFacts, Threads1, DetachTool DEF LetGo, Same, Alike, ChildInv, OwnInv, Keeping, Early, Poll, SwPoll, Sys, InnerSys
<1>8. ArmedInv'
  <2>1. \A t \in Threads : th'[t].dr = "hw" /\ Live(th'[t]) => th[t].dr = "hw" /\ Live(th[t])
    BY <1>1, LettingFacts
  <2> QED BY <1>0, <1>2, <2>1 DEF ArmedInv
<1> QED BY <1>3, <1>4, <1>5, <1>6, <1>7, <1>8 DEF CleanInv, SysInv

LEMMA ReleaseAllKept == ASSUME Inv, ReleaseAll PROVE CleanInv'
<1>0. /\ TypeOK /\ SaneInv /\ CallerInv /\ HeldInv
      /\ \A t \in Threads : th[t] \in ThreadType /\ Sane(th[t])
  BY ThreadFacts DEF Inv, CleanInv
<1>1. \A t \in Threads : th'[t] = IF t \in fg.held \cup {Main} /\ Stopped(t, "fg") THEN Freed(th[t]) ELSE th[t]
  BY DEF ReleaseAll
<1>2. Letting("fg")
  <2>1. ASSUME NEW t \in Threads PROVE th'[t] \in ThreadType /\ LetGo(th[t], th'[t], "fg")
    <3>1. th'[t] = th[t] \/ (th'[t] = Freed(th[t]) /\ th[t].by = "fg")
      BY <1>1, <2>1 DEF Stopped
    <3>2. Same(th[t], th[t])
      BY <1>0, <2>1, SameItself
    <3> QED BY <1>0, <2>1, <3>1, <3>2, FreedLetGo, FreedType DEF LetGo
  <2>2. th' \in [Threads -> ThreadType]
    BY <2>1 DEF ReleaseAll
  <2> QED BY <2>1, <2>2 DEF Letting
<1>3. /\ bg' = bg /\ UNCHANGED patched /\ fg.pc = "release"
      /\ \/ fg' = Idle
         \/ fg'.pc = "sys_seize" /\ fg'.kind = "thread" /\ fg'.ret = "idle" /\ fg'.held = {}
  BY <1>0, ReleaseAllTool DEF ReleaseAll, kernel
<1>4. SaneInv' /\ WorkerInv' /\ SysOf("bg")' /\ OwnInv' /\ ChildInv' /\ ArmedInv'
  BY <1>2, <1>3, WorkerLetting
<1>5. CallerInv'
  <2>1. CASE fg' = Idle
    BY <2>1 DEF CallerInv, Idle, CallerPcs, Sys, InnerSys, Early, Hijacked
  <2>2. CASE fg' # Idle
    BY <1>3, <2>2 DEF CallerInv, CallerPcs, Sys, InnerSys, Early, Hijacked
  <2> QED BY <2>1, <2>2
<1>6. fg'.pc \in {"idle", "sys_seize"}
  BY <1>3 DEF Idle
<1>7. SysOf("fg")'
  BY <1>6 DEF SysOf, fg, InnerSys
<1>8. PatchInv'
  BY <1>3, PatchKept DEF Inv, CleanInv, SysInv
<1>9. HeldInv'
  <2>1. ASSUME NEW t \in Threads, th'[t].by = "fg", Live(th'[t]) PROVE FALSE
    <3>1. th'[t] = th[t] /\ ~(t \in fg.held \cup {Main} /\ Stopped(t, "fg"))
      BY <1>0, <1>1, <2>1, FreedType
    <3>2. t \in fg.held /\ th[t].life = "stop"
      BY <1>0, <1>3, <2>1, <3>1 DEF HeldInv, InnerSys
    <3> QED BY <2>1, <3>1, <3>2 DEF Stopped
  <2> QED BY <1>6, <2>1 DEF HeldInv
<1> QED BY <1>3, <1>4, <1>5, <1>7, <1>8, <1>9 DEF CleanInv, SysInv

-----------------------------------------------------------------------------
(* The steps of the GUI thread. *)

LEMMA CallerMove ==
    ASSUME Inv, Gentle, bg' = bg, CallerInv', SysOf("fg")', PatchInv', HeldInv'
    PROVE  CleanInv'
BY WorkerFrame, SaneKept DEF CleanInv, SysInv

\* The GUI thread traces nobody.
Resting == {"idle", "join", "thread_alloc", "sys_seize"}
LEMMA NobodyHeld ==
    ASSUME Inv, fg.pc \in Resting
    PROVE  \A t \in Threads : th[t].by = "fg" => ~Live(th[t])
BY DEF Inv, CleanInv, HeldInv, Resting, InnerSys, Early, Hijacked

\* It goes on to a position where it traces nobody.
LEMMA RestHeld ==
    ASSUME Inv, \A t \in Threads : th'[t].by = "fg" => ~Live(th'[t]),
           fg'.pc \notin {"interrupt", "await"} \cup InnerSys
    PROVE  HeldInv' /\ SysOf("fg")'
BY DEF HeldInv, SysOf, InnerSys, fg

LEMMA UserKept == ASSUME Inv, User \/ Joined \/ ThreadAllocated PROVE CleanInv'
<1>0. /\ TypeOK /\ WorkerInv /\ CallerInv /\ OwnInv /\ ChildInv /\ ArmedInv /\ SaneInv
      /\ tool \in [{"bg", "fg"} -> ToolType]
  BY DEF Inv, CleanInv, TypeOK
<1>1. /\ Gentle /\ UNCHANGED th /\ UNCHANGED patched
  BY InjectGentle DEF User, Start, Stop, Call, Joined, ThreadAllocated, kernel
<1>2. PatchInv
  BY DEF Inv, CleanInv, SysInv
<1>3. ASSUME NEW k \in Finders, Start(k) PROVE CleanInv'
  <2>1. /\ fg' = fg /\ bg = Idle
        /\ \A t \in Threads : th[t].by # "bg"
    BY <1>0, <1>3 DEF Start, TypeOK, bg, fg, OwnInv, Idle
  <2>2. /\ bg'.kind \in {"hw", "st", "sw", "trace"} /\ bg'.held = {} /\ bg'.n = 0
        /\ \/ bg'.pc = "sys_seize" /\ bg'.ret = "sw_list" /\ bg'.kind = "sw"
           \/ bg'.pc = "seize" /\ bg'.kind # "sw"
    <3>1. k \in {"hw", "st", "sw", "trace"}
      BY KindsAssumption
    <3>2. CASE k = "sw"
      BY <1>0, <1>3, <3>2 DEF Start, bg, Idle
    <3>3. CASE k # "sw"
      <4>1. PICK todo : bg' = [Idle EXCEPT !.kind = k, !.pc = "seize", !.todo = todo]
        BY <1>0, <1>3, <3>3 DEF Start, bg
      <4> QED BY <3>1, <3>3, <4>1 DEF Idle
    <3> QED BY <3>2, <3>3
  <2>3. WorkerInv'
    BY <2>2 DEF WorkerInv, WorkerPcs, Early, Poll, SwPoll, Cleaning, Tracing, Sys, InnerSys
  <2>4. OwnInv'
    BY <1>1, <2>1, <2>2 DEF OwnInv
  <2>5. \A w \in Threads : ~(th[w].life = "stop" /\ th[w].why = "clone")
    BY <1>0, <2>1 DEF SaneInv, Sane
  <2>6. ChildInv'
    BY <1>1, <2>2, <2>5 DEF ChildInv
  <2>7. \A t \in Threads : ~(th[t].dr = "hw" /\ Live(th[t]))
    BY <1>0, <2>1 DEF ArmedInv
  <2>8. ArmedInv'
    BY <1>1, <2>7 DEF ArmedInv
  <2>9. SysOf("bg")'
    BY <2>2 DEF SysOf, bg, InnerSys
  <2>10. SaneInv' /\ CallerInv' /\ SysOf("fg")' /\ HeldInv'
    BY <1>1, <2>1, SaneKept, CallerFrame
  <2>11. PatchInv'
    BY <1>1, <1>2, <1>3, <2>1 DEF PatchInv, Start, Idle
  <2> QED BY <2>3, <2>4, <2>6, <2>8, <2>9, <2>10, <2>11 DEF CleanInv, SysInv
<1>4. ASSUME fg.pc \in Resting, bg' = bg, fg'.pc \notin {"interrupt", "await"} \cup InnerSys, CallerInv'
      PROVE  CleanInv'
  <2>1. \A t \in Threads : th'[t].by = "fg" => ~Live(th'[t])
    BY <1>1, <1>4, NobodyHeld
  <2>2. HeldInv' /\ SysOf("fg")'
    BY <1>4, <2>1, RestHeld
  <2>3. PatchInv'
    BY <1>1, <1>2, <1>4 DEF PatchInv, Resting
  <2> QED BY <1>1, <1>4, <2>2, <2>3, CallerMove
<1>5. CASE Stop
  <2>1. bg' = bg /\ fg.pc \in Resting /\ (fg' = fg \/ fg' = [Idle EXCEPT !.pc = "join"])
    BY <1>0, <1>5 DEF Stop, bg, fg, Resting
  <2>2. fg'.pc \notin {"interrupt", "await"} \cup InnerSys /\ CallerInv'
    BY <1>0, <2>1 DEF CallerInv, Idle, Resting, CallerPcs, Sys, InnerSys, Early, Hijacked
  <2> QED BY <1>4, <2>1, <2>2
<1>6. ASSUME NEW k \in Calls, Call(k) PROVE CleanInv'
  <2> DEFINE next == IF k = "inject" THEN "seize" ELSE "sys_seize"
             first == IF k \in {"inject", "thread"} /\ bg.pc # "idle" /\ bg.kind # "trace" THEN "join" ELSE next
             op == IF k = "thread" THEN "alloc" ELSE k
             ret == IF first = "join" THEN next ELSE IF k = "thread" THEN "thread_alloc" ELSE "idle"
  <2>1. k \in {"alloc", "free", "protect", "inject", "thread"}
    BY KindsAssumption
  <2>2. /\ bg' = bg /\ fg.pc \in Resting
        /\ fg'.kind = k /\ fg'.held = {}
        /\ \/ fg'.pc = "join" /\ fg'.ret = next /\ k \in {"inject", "thread"}
           \/ fg'.pc = next /\ fg'.ret = IF k = "thread" THEN "thread_alloc" ELSE "idle"
    <3>1. tool' = [tool EXCEPT !["fg"] =
                     [Idle EXCEPT !.kind = k, !.pc = first, !.todo = {Main}, !.op = op, !.ret = ret]]
      BY <1>6 DEF Call
    <3>2. fg' = [Idle EXCEPT !.kind = k, !.pc = first, !.todo = {Main}, !.op = op, !.ret = ret] /\ bg' = bg
      BY <1>0, <3>1 DEF bg, fg
    <3>3. fg.pc \in Resting
      BY <1>6 DEF Call, Resting
    <3>4. /\ fg'.kind = k /\ fg'.held = {} /\ fg'.pc = first /\ fg'.ret = ret
      <4> HIDE DEF first, ret, op
      <4> QED BY <3>2 DEF Idle
    <3> QED BY <3>2, <3>3, <3>4
  <2>3. fg'.pc \notin {"interrupt", "await"} \cup InnerSys /\ CallerInv'
    BY <2>1, <2>2 DEF CallerInv, Idle, Resting, CallerPcs, Sys, InnerSys, Early, Hijacked
  <2> QED BY <1>4, <2>2, <2>3
<1>7. CASE Joined
  <2>1. bg' = bg /\ fg.pc = "join"
    BY <1>0, <1>7 DEF Joined, bg
  <2>2. \/ fg' = Idle
        \/ /\ fg.kind # "none" /\ fg'.kind = fg.kind /\ fg'.pc = fg.ret /\ fg'.held = fg.held
           /\ fg'.ret = IF fg.kind = "thread" THEN "thread_alloc" ELSE "idle"
    <3>1. CASE fg.kind = "none"
      BY <1>0, <1>7, <3>1 DEF Joined, fg
    <3>2. CASE fg.kind # "none"
      <4>1. fg' = [fg EXCEPT !.pc = fg.ret, !.ret = IF fg.kind = "thread" THEN "thread_alloc" ELSE "idle"]
        BY <1>0, <1>7, <3>2 DEF Joined, fg
      <4>2. fg \in ToolType
        BY <1>0, Threads1
      <4> QED BY <3>2, <4>1, <4>2 DEF ToolType
    <3> QED BY <3>1, <3>2
  <2>3. fg'.pc \notin {"interrupt", "await"} \cup InnerSys /\ CallerInv'
    <3>1. CASE fg' = Idle
      BY <3>1 DEF CallerInv, Idle, CallerPcs, Sys, InnerSys, Early, Hijacked
    <3>2. CASE fg' # Idle
      BY <1>0, <2>1, <2>2, <3>2 DEF CallerInv, CallerPcs, Sys, InnerSys, Early, Hijacked
    <3> QED BY <3>1, <3>2
  <2> QED BY <1>4, <2>1, <2>3 DEF Resting
<1>8. CASE ThreadAllocated
  <2>1. /\ bg' = bg /\ fg.pc = "thread_alloc"
        /\ \/ fg' = Idle
           \/ fg'.pc = "seize" /\ fg'.kind = fg.kind /\ fg'.ret = fg.ret /\ fg'.held = fg.held
    BY <1>0, <1>8, AllocatedTool DEF ThreadAllocated
  <2>2. fg'.pc \notin {"interrupt", "await"} \cup InnerSys /\ CallerInv'
    <3>1. CASE fg' = Idle
      BY <3>1 DEF CallerInv, Idle, CallerPcs, Sys, InnerSys, Early, Hijacked
    <3>2. CASE fg' # Idle
      BY <1>0, <2>1, <3>2 DEF CallerInv, CallerPcs, Sys, InnerSys, Early, Hijacked
    <3> QED BY <3>1, <3>2
  <2> QED BY <1>4, <2>1, <2>2 DEF Resting
<1> QED BY <1>3, <1>5, <1>6, <1>7, <1>8 DEF User

LEMMA InjectKept ==
    ASSUME Inv, Hijack \/ MapPath \/ CallDlopen \/ UnmapPath \/ TryJoin
    PROVE  CleanInv'
<1>0. /\ TypeOK /\ CallerInv /\ HeldInv /\ PatchInv
  BY DEF Inv, CleanInv, SysInv
<1>1. Gentle
  BY InjectGentle
<1>2. /\ bg' = bg /\ UNCHANGED patched
      /\ fg'.kind = fg.kind /\ fg'.ret = fg.ret /\ fg'.held = fg.held
      /\ fg.pc \in {"seize"} \cup Hijacked /\ fg'.pc \in Hijacked \cup {"release"}
  <2>1. CASE Hijack
    <3>1. fg.pc = "seize" /\ fg.kind \in {"inject", "thread"}
      BY <1>0, <2>1 DEF Hijack, CallerInv, Early
    <3> QED BY <1>0, <2>1, <3>1, HijackTool DEF Hijack, Moved, Hijacked, kernel
  <2>2. CASE MapPath \/ CallDlopen \/ UnmapPath
    BY <1>0, <2>2, InjectTool DEF MapPath, CallDlopen, UnmapPath, Moved, Hijacked
  <2>3. CASE TryJoin
    BY <1>0, <2>3, ThreadTool DEF TryJoin, Moved, Hijacked, kernel
  <2> QED BY <2>1, <2>2, <2>3
<1>3. CallerInv'
  BY <1>0, <1>2 DEF CallerInv, CallerPcs, Sys, InnerSys, Early, Hijacked
<1>4. SysOf("fg")'
  BY <1>2 DEF SysOf, fg, InnerSys, Hijacked
<1>5. PatchInv'
  BY <1>0, <1>2, PatchKept DEF Hijacked
<1>6. HeldInv'
  <2>1. ASSUME NEW t \in Threads, th'[t].by = "fg", Live(th'[t]) PROVE t \in fg.held /\ th'[t].life = "stop"
    <3>1. Same(th[t], th'[t])
      BY <1>1 DEF Gentle
    <3>2. th[t].by = "fg" /\ Live(th[t]) /\ (th[t].life = "stop" => th'[t].life = "stop")
      BY <2>1, <3>1 DEF Same, Alike, Live
    <3> QED BY <1>0, <1>2, <3>2 DEF HeldInv, InnerSys, Hijacked
  <2> QED BY <1>2, <2>1 DEF HeldInv, Hijacked
<1> QED BY <1>1, <1>2, <1>3, <1>4, <1>5, <1>6, CallerMove

-----------------------------------------------------------------------------
(* Remote syscalls *)

LEMMA CallerReturn ==
    ASSUME Inv, fg.pc \in Sys, NEW ok \in BOOLEAN, Return("fg", ok)
    PROVE  bg' = bg /\ fg'.pc \in {"idle", "thread_alloc"} /\ CallerInv'
<1>0. TypeOK /\ CallerInv /\ fg \in ToolType
  BY Threads1 DEF Inv, CleanInv
<1>1. /\ bg' = bg
      /\ fg' = IF fg.ret = "idle" THEN Idle ELSE [fg EXCEPT !.pc = fg.ret, !.ok = ok]
  BY <1>0, ReturnType DEF bg, fg
<1>2. CASE fg.ret = "idle"
  BY <1>1, <1>2 DEF CallerInv, Idle, CallerPcs, Sys, InnerSys, Early, Hijacked
<1>3. CASE fg.ret # "idle"
  <2>1. /\ fg'.pc = "thread_alloc" /\ fg'.kind = fg.kind /\ fg'.held = fg.held /\ fg'.ret = fg.ret
        /\ fg.kind = "thread" /\ fg.held = {}
    BY <1>0, <1>1, <1>3 DEF ToolType, CallerInv
  <2> QED BY <1>1, <2>1 DEF CallerInv, CallerPcs, Sys, InnerSys, Early, Hijacked
<1> QED BY <1>2, <1>3

LEMMA WorkerReturn ==
    ASSUME Inv, bg.pc \in Sys, NEW ok \in BOOLEAN, Return("bg", ok)
    PROVE  /\ fg' = fg /\ bg'.pc \in {"sw_list", "end"} /\ bg'.pc = bg.ret /\ WorkerInv'
           /\ bg'.kind = "sw" /\ bg'.held = bg.held /\ bg'.ret = bg.ret /\ bg'.n = bg.n
<1>0. TypeOK /\ WorkerInv /\ bg \in ToolType
  BY Threads1 DEF Inv, CleanInv
<1>1. bg.ret \in {"sw_list", "end"} /\ bg.kind = "sw"
  BY <1>0 DEF WorkerInv
<1>2. fg' = fg /\ bg' = [bg EXCEPT !.pc = bg.ret, !.ok = ok]
  BY <1>0, <1>1, ReturnType DEF bg, fg
<1>3. /\ bg'.pc = bg.ret /\ bg'.kind = bg.kind /\ bg'.held = bg.held /\ bg'.ret = bg.ret /\ bg'.n = bg.n
  BY <1>0, <1>2 DEF ToolType
<1>4. WorkerInv'
  BY <1>1, <1>3 DEF WorkerInv, WorkerPcs, Early, Poll, SwPoll, Cleaning, Tracing, Sys, InnerSys
<1> QED BY <1>1, <1>2, <1>3, <1>4

\* What three of the five steps make of the record.
LEMMA SysTool ==
    ASSUME Inv, NEW x \in {"bg", "fg"}, SysInterrupt(x) \/ SysWait(x) \/ SysStep(x)
    PROVE  \/ Main \notin Listed /\ Return(x, FALSE) /\ (SysInterrupt(x) \/ SysWait(x))
           \/ /\ tool'[x].pc = IF SysInterrupt(x) THEN "sys_wait" ELSE IF SysWait(x) THEN "sys_step" ELSE "sys_restore"
              /\ tool'[x].kind = tool[x].kind /\ tool'[x].held = tool[x].held
              /\ tool'[x].ret = tool[x].ret /\ tool'[x].n = tool[x].n
              /\ tool'["bg"] = tool["bg"] \/ x = "bg"
              /\ tool'["fg"] = tool["fg"] \/ x = "fg"
              /\ SysInterrupt(x) \/ SysWait(x) => Main \in Listed
<1>0. TypeOK /\ tool[x] \in ToolType
  BY Threads1 DEF Inv
<1>1. ASSUME SysInterrupt(x), Main \in Listed
      PROVE  /\ tool'[x] = [tool[x] EXCEPT !.pc = "sys_wait"]
             /\ \A y \in {"bg", "fg"} \ {x} : tool'[y] = tool[y]
  BY <1>0, <1>1, GotoType DEF SysInterrupt, WorkerPcs, Sys, InnerSys
<1>2. ASSUME SysWait(x), Main \in Listed
      PROVE  /\ tool'[x] = [tool[x] EXCEPT !.pc = "sys_step"]
             /\ \A y \in {"bg", "fg"} \ {x} : tool'[y] = tool[y]
  BY <1>0, <1>2, GotoType DEF SysWait, WorkerPcs, Sys, InnerSys
<1>3. ASSUME SysStep(x)
      PROVE  /\ \E b \in BOOLEAN : tool'[x] = [tool[x] EXCEPT !.pc = "sys_restore", !.ok = b]
             /\ \A y \in {"bg", "fg"} \ {x} : tool'[y] = tool[y]
  <2>1. PICK b \in BOOLEAN : tool' = [tool EXCEPT ![x].pc = "sys_restore", ![x].ok = b]
    BY <1>3 DEF SysStep
  <2>2. tool' = [tool EXCEPT ![x] = [tool[x] EXCEPT !.pc = "sys_restore", !.ok = b]]
    BY <1>0, <2>1 DEF TypeOK
  <2> QED BY <1>0, <2>2 DEF TypeOK
<1>4. CASE SysInterrupt(x)
  BY <1>0, <1>1, <1>4 DEF SysInterrupt, ToolType
<1>5. CASE SysWait(x)
  <2>1. ~SysInterrupt(x)
    BY <1>5 DEF SysInterrupt, SysWait
  <2> QED BY <1>0, <1>2, <1>5, <2>1 DEF SysWait, ToolType
<1>6. CASE SysStep(x)
  <2>1. ~SysInterrupt(x) /\ ~SysWait(x)
    BY <1>6 DEF SysInterrupt, SysWait, SysStep
  <2> QED BY <1>0, <1>3, <1>6, <2>1 DEF ToolType
<1> QED BY <1>4, <1>5, <1>6

\* The main thread in them.
LEMMA SysMain ==
    ASSUME Inv, NEW x \in {"bg", "fg"}, SysInterrupt(x) \/ SysWait(x) \/ SysStep(x)
    PROVE  /\ tool[x].pc \in InnerSys /\ th[Main].by = x /\ th'[Main].by = x
           /\ SysWait(x) \/ SysStep(x) => th'[Main].life # "run"
           /\ SysInterrupt(x) \/ SysWait(x) => UNCHANGED patched
<1>0. /\ TypeOK /\ Main \in Threads /\ th[Main] \in ThreadType /\ Sane(th[Main])
  BY ThreadFacts
<1>1. Gentle
  BY CallGentle
<1>2. tool[x].pc \in InnerSys /\ th[Main].by = x
  BY DEF SysInterrupt, SysWait, SysStep, InnerSys, Inv, CleanInv, SysInv, SysOf
<1>3. th'[Main].by = x
  BY <1>0, <1>1, <1>2 DEF Gentle, Same, Alike
<1>4. CASE SysInterrupt(x)
  BY <1>2, <1>3, <1>4 DEF SysInterrupt, SysWait, SysStep, kernel
<1>5. CASE SysWait(x)
  <2>1. th[Main].life # "run" /\ th'[Main] = Reaped(th[Main])
    BY <1>0, <1>5 DEF SysWait, Sane, TypeOK
  <2> QED BY <1>0, <1>2, <1>3, <1>5, <2>1, ReapedType DEF SysWait, SysStep, SysInterrupt, kernel
<1>6. CASE SysStep(x)
  <2>1. th[Main].life # "run"
    BY <1>6 DEF SysStep, Inv, CleanInv, SysInv, SysOf, InnerSys
  <2>2. th'[Main] = Stepped(th[Main])
    BY <1>0, <1>6 DEF SysStep, TypeOK
  <2> QED BY <1>0, <1>2, <1>3, <1>6, <2>1, <2>2, SteppedType DEF SysStep, SysWait, SysInterrupt
<1> QED BY <1>4, <1>5, <1>6


LEMMA GentleLetting == ASSUME Gentle, NEW x PROVE Letting(x)
BY DEF Gentle, Letting, LetGo

\* The worker moves on inside a remote syscall, or out of it.
LEMMA WorkerSys ==
    ASSUME Inv, Letting("bg"), fg' = fg, bg.pc \in Sys, bg'.pc \in InnerSys \cup {"sw_list", "end"},
           bg'.pc \in InnerSys => bg.pc \in InnerSys, bg'.pc = "sw_list" => bg.ret = "sw_list",
           bg'.kind = bg.kind, bg'.ret = bg.ret, bg'.held = bg.held, WorkerInv', SysOf("bg")', PatchInv'
    PROVE  CleanInv'
<1>0. /\ TypeOK /\ WorkerInv /\ OwnInv /\ ChildInv /\ ArmedInv /\ bg.held \subseteq Threads
      /\ \A t \in Threads : th[t].child \in Threads
  BY Threads1 DEF Inv, CleanInv, ThreadType
<1>1. SaneInv' /\ CallerInv' /\ SysOf("fg")' /\ HeldInv'
  BY CallerLetting
<1>2. \A t \in Threads : /\ th'[t].by \in {"none", th[t].by}
                         /\ th'[t].dr = "hw" => th[t].dr = "hw"
                         /\ Live(th'[t]) => Live(th[t])
                         /\ (th'[t].life = "absent") = (th[t].life = "absent")
                         /\ th'[t].life = "stop" => Same(th[t], th'[t])
  BY LettingFacts
<1>3. bg.kind = "sw" /\ (bg.ret = "sw_list" => bg.held = {})
  BY <1>0 DEF WorkerInv
<1>4. OwnInv'
  BY <1>0, <1>2, <1>3 DEF OwnInv, Sys, InnerSys, Keeping, Early, Poll, SwPoll
<1>5. ChildInv'
  <2>1. \A w \in Threads : th'[w].life = "stop" /\ th'[w].why = "clone" => th[w].life = "stop" /\ th[w].why = "clone"
    BY <1>2 DEF Same, Alike
  <2> QED BY <1>0, <2>1 DEF ChildInv, Sys, InnerSys, Keeping, Early, Poll, SwPoll
<1>6. ArmedInv'
  BY <1>0, <1>2, <1>3 DEF ArmedInv
<1> QED BY <1>1, <1>4, <1>5, <1>6 DEF CleanInv, SysInv

\* The same of the GUI thread.
LEMMA CallerSys ==
    ASSUME Inv, Letting("fg"), bg' = bg, CallerInv', SysOf("fg")', PatchInv', HeldInv'
    PROVE  CleanInv'
BY WorkerLetting DEF CleanInv, SysInv

LEMMA CallerSysKept ==
    ASSUME Inv, SysInterrupt("fg") \/ SysWait("fg") \/ SysStep("fg")
    PROVE  CleanInv'
<1>0. TypeOK /\ CallerInv /\ HeldInv /\ PatchInv /\ Main \in Threads
  BY ThreadFacts DEF Inv, CleanInv, SysInv
<1>1. Gentle /\ Letting("fg")
  BY CallGentle, GentleLetting
<1>2. /\ fg.pc \in InnerSys /\ th'[Main].by = "fg"
      /\ SysWait("fg") \/ SysStep("fg") => th'[Main].life # "run"
      /\ SysInterrupt("fg") \/ SysWait("fg") => UNCHANGED patched
  BY SysMain DEF fg
<1>3. fg.pc \in {"sys_interrupt", "sys_wait", "sys_step"}
  BY DEF SysInterrupt, SysWait, SysStep, fg
<1>4. ASSUME NEW t \in Threads, th'[t].by = "fg", Live(th'[t]) PROVE t = Main /\ Live(th[t])
  <2>1. th[t].by = "fg" /\ Live(th[t])
    BY <1>1, <1>4 DEF Gentle, Same, Alike
  <2> QED BY <1>0, <1>3, <2>1 DEF HeldInv, Early, Hijacked
<1>5. CASE Main \notin Listed /\ Return("fg", FALSE) /\ (SysInterrupt("fg") \/ SysWait("fg"))
  <2>1. bg' = bg /\ fg'.pc \in {"idle", "thread_alloc"} /\ CallerInv'
    BY <1>2, <1>5, CallerReturn DEF Sys
  <2>2. HeldInv' /\ SysOf("fg")'
    BY <1>0, <1>4, <1>5, <2>1, RestHeld DEF Live, Listed, InnerSys
  <2>3. PatchInv'
    BY <1>0, <1>2, <1>3, <1>5, <2>1, PatchKept
  <2> QED BY <1>1, <2>1, <2>2, <2>3, CallerSys
<1>6. CASE ~(Main \notin Listed /\ Return("fg", FALSE) /\ (SysInterrupt("fg") \/ SysWait("fg")))
  <2>1. /\ fg'.pc = IF SysInterrupt("fg") THEN "sys_wait" ELSE IF SysWait("fg") THEN "sys_step" ELSE "sys_restore"
        /\ fg'.kind = fg.kind /\ fg'.held = fg.held /\ fg'.ret = fg.ret /\ bg' = bg
    BY <1>6, SysTool DEF fg, bg
  <2>2. CallerInv'
    BY <1>0, <1>2, <2>1 DEF CallerInv, CallerPcs, Sys, InnerSys, Early, Hijacked
  <2>3. SysOf("fg")'
    BY <1>2, <2>1 DEF SysOf, fg
  <2>4. PatchInv'
    BY <1>0, <1>2, <1>3, <2>1 DEF PatchInv
  <2>5. fg'.pc \in InnerSys
    BY <2>1 DEF InnerSys
  <2>6. HeldInv'
    BY <1>4, <2>5 DEF HeldInv, InnerSys
  <2> QED BY <1>1, <2>1, <2>2, <2>3, <2>4, <2>6, CallerSys
<1> QED BY <1>5, <1>6

LEMMA WorkerSysKept ==
    ASSUME Inv, SysInterrupt("bg") \/ SysWait("bg") \/ SysStep("bg")
    PROVE  CleanInv'
<1>0. TypeOK /\ WorkerInv /\ PatchInv /\ Main \in Threads
  BY ThreadFacts DEF Inv, CleanInv, SysInv
<1>1. Letting("bg")
  BY CallGentle, GentleLetting
<1>2. /\ bg.pc \in InnerSys /\ th'[Main].by = "bg"
      /\ SysWait("bg") \/ SysStep("bg") => th'[Main].life # "run"
      /\ SysInterrupt("bg") \/ SysWait("bg") => UNCHANGED patched
  BY SysMain DEF bg
<1>3. bg.pc \in {"sys_interrupt", "sys_wait", "sys_step"}
  BY DEF SysInterrupt, SysWait, SysStep, bg
<1>4. CASE Main \notin Listed /\ Return("bg", FALSE) /\ (SysInterrupt("bg") \/ SysWait("bg"))
  <2>1. /\ fg' = fg /\ bg'.pc \in {"sw_list", "end"} /\ bg'.pc = bg.ret /\ WorkerInv' /\ bg.kind = "sw"
        /\ bg'.kind = "sw" /\ bg'.held = bg.held /\ bg'.ret = bg.ret
    BY <1>0, <1>2, <1>4, WorkerReturn DEF Sys, WorkerInv
  <2>2. SysOf("bg")'
    BY <2>1 DEF SysOf, bg, InnerSys
  <2>3. PatchInv'
    BY <1>0, <1>2, <1>3, <1>4, <2>1, PatchKept
  <2> QED BY <1>1, <1>2, <2>1, <2>2, <2>3, WorkerSys DEF Sys, InnerSys
<1>5. CASE ~(Main \notin Listed /\ Return("bg", FALSE) /\ (SysInterrupt("bg") \/ SysWait("bg")))
  <2>1. /\ bg'.pc = IF SysInterrupt("bg") THEN "sys_wait" ELSE IF SysWait("bg") THEN "sys_step" ELSE "sys_restore"
        /\ bg'.kind = bg.kind /\ bg'.held = bg.held /\ bg'.ret = bg.ret /\ bg'.n = bg.n /\ fg' = fg
    BY <1>5, SysTool DEF fg, bg
  <2>2. WorkerInv'
    BY <1>0, <1>2, <2>1 DEF WorkerInv, WorkerPcs, Early, Poll, SwPoll, Cleaning, Tracing, Sys, InnerSys
  <2>3. SysOf("bg")'
    BY <1>2, <2>1 DEF SysOf, bg
  <2>4. PatchInv'
    BY <1>0, <1>2, <1>3, <2>1 DEF PatchInv
  <2>5. bg'.pc \in InnerSys /\ bg'.pc # "sw_list" /\ bg.pc \in Sys
    BY <1>2, <2>1 DEF Sys, InnerSys
  <2> QED BY <1>1, <1>2, <2>1, <2>2, <2>3, <2>4, <2>5, WorkerSys
<1> QED BY <1>4, <1>5

LEMMA SysRestoreKept == ASSUME Inv, NEW x \in {"bg", "fg"}, SysRestore(x) PROVE CleanInv'
<1>0. /\ TypeOK /\ WorkerInv /\ CallerInv /\ HeldInv /\ PatchInv /\ Main \in Threads
      /\ \A t \in Threads : th[t] \in ThreadType /\ Sane(th[t])
  BY ThreadFacts DEF Inv, CleanInv, SysInv
<1>1. /\ tool[x].pc = "sys_restore" /\ th[Main].by = x /\ th[Main].life # "run" /\ ~patched'
      /\ Return(x, tool[x].ok) /\ tool[x].ok \in BOOLEAN
  BY <1>0, Threads1 DEF SysRestore, Inv, CleanInv, SysInv, SysOf, InnerSys, ToolType
<1>2. Letting(x) /\ ~(th'[Main].by = x /\ Live(th'[Main])) /\ \A t \in Threads \ {Main} : th'[t] = th[t]
  <2>1. th' = [th EXCEPT ![Main] = IF Stopped(Main, x) THEN Freed(th[Main]) ELSE th[Main]]
    BY <1>0 DEF SysRestore, TypeOK
  <2>2. Same(th[Main], th[Main]) /\ LetGo(th[Main], Freed(th[Main]), x) /\ Freed(th[Main]) \in ThreadType
        /\ Freed(th[Main]).by = "none"
    BY <1>0, <1>1, SameItself, FreedLetGo, FreedType
  <2>3. /\ th' \in [Threads -> ThreadType] /\ LetGo(th[Main], th'[Main], x)
        /\ ~(th'[Main].by = x /\ Live(th'[Main]))
        /\ \A t \in Threads \ {Main} : th'[t] = th[t]
    BY <1>0, <1>1, <2>1, <2>2 DEF LetGo, Stopped, Live, TypeOK
  <2>4. \A t \in Threads : LetGo(th[t], th'[t], x)
    BY <1>0, <2>3, SameItself DEF LetGo
  <2> QED BY <2>3, <2>4 DEF Letting
<1>3. PatchInv'
  BY <1>1 DEF PatchInv
<1>4. CASE x = "fg"
  <2>1. bg' = bg /\ fg'.pc \in {"idle", "thread_alloc"} /\ CallerInv'
    BY <1>1, <1>4, CallerReturn DEF Sys, InnerSys, fg
  <2>2. \A t \in Threads : th'[t].by = "fg" => ~Live(th'[t])
    BY <1>0, <1>1, <1>2, <1>4 DEF HeldInv, InnerSys, Early, Hijacked, fg
  <2>3. HeldInv' /\ SysOf("fg")'
    BY <2>1, <2>2, RestHeld DEF InnerSys
  <2> QED BY <1>2, <1>3, <1>4, <2>1, <2>3, CallerSys
<1>5. CASE x = "bg"
  <2>1. /\ fg' = fg /\ bg'.pc \in {"sw_list", "end"} /\ bg'.pc = bg.ret /\ WorkerInv' /\ bg.kind = "sw"
        /\ bg'.kind = "sw" /\ bg'.held = bg.held /\ bg'.ret = bg.ret /\ bg.pc \in Sys
    BY <1>0, <1>1, <1>5, WorkerReturn DEF Sys, InnerSys, WorkerInv, bg
  <2>2. SysOf("bg")'
    BY <2>1 DEF SysOf, bg, InnerSys
  <2> QED BY <1>2, <1>3, <1>5, <2>1, <2>2, WorkerSys DEF InnerSys
<1> QED BY <1>4, <1>5

-----------------------------------------------------------------------------
(* PTRACE_SEIZE *)

Taken(t, x) == th[t].by = "none" /\ t \in Listed /\ th' = [th EXCEPT ![t].by = x]

LEMMA TakenFacts ==
    ASSUME Inv, NEW x \in {"bg", "fg"}, NEW t \in Threads, Taken(t, x)
    PROVE  /\ SaneInv' /\ th' \in [Threads -> ThreadType]
           /\ th[t].life = "run" /\ th[t].dr # "hw" /\ th[t].by = "none"
           /\ th'[t].by = x /\ th'[t].life = "run" /\ th'[t].dr = th[t].dr /\ th'[t].child = th[t].child
           /\ \A u \in Threads \ {t} : th'[u] = th[u]
<1>0. TypeOK /\ SaneInv /\ ArmedInv /\ th[t] \in ThreadType /\ Sane(th[t])
  BY ThreadFacts DEF Inv, CleanInv
<1>1. th[t].life = "run" /\ th[t].dr # "hw" /\ th[t].by = "none"
  BY <1>0 DEF Taken, Listed, Sane, ArmedInv, Live
<1> DEFINE s == [th[t] EXCEPT !.by = x]
<1>2. /\ s \in ThreadType /\ s.by = x /\ s.life = "run" /\ s.dr = th[t].dr /\ s.child = th[t].child
      /\ s.unread = th[t].unread
  BY <1>0, <1>1 DEF ThreadType
<1>3. th' = [th EXCEPT ![t] = s]
  BY DEF Taken
<1> HIDE DEF s
<1>4. /\ th' \in [Threads -> ThreadType] /\ th'[t] = s
      /\ \A u \in Threads \ {t} : th'[u] = th[u]
  BY <1>0, <1>2, <1>3 DEF TypeOK
<1>5. Sane(s)
  BY <1>0, <1>1, <1>2 DEF Sane
<1>6. SaneInv'
  BY <1>0, <1>4, <1>5 DEF SaneInv
<1> QED BY <1>1, <1>2, <1>4, <1>6

LEMMA TakenCaller ==
    ASSUME Inv, NEW t \in Threads, Taken(t, "bg"), fg' = fg
    PROVE  CallerInv' /\ SysOf("fg")' /\ HeldInv'
<1>0. /\ CallerInv /\ HeldInv /\ SysOf("fg") /\ Main \in Threads /\ fg.cur \in Threads
  BY ThreadFacts DEF Inv, CleanInv, SysInv
<1>1. /\ th'[t].by = "bg" /\ th[t].by = "none" /\ \A u \in Threads \ {t} : th'[u] = th[u]
  BY TakenFacts
<1>2. CallerInv'
  BY <1>0 DEF CallerInv
<1>3. SysOf("fg")'
  BY <1>0, <1>1 DEF SysOf, fg
<1>4. HeldInv'
  BY <1>0, <1>1 DEF HeldInv
<1> QED BY <1>2, <1>3, <1>4

LEMMA TakenWorker ==
    ASSUME Inv, NEW t \in Threads, Taken(t, "fg"), bg' = bg
    PROVE  WorkerInv' /\ SysOf("bg")' /\ OwnInv' /\ ChildInv' /\ ArmedInv'
<1>0. /\ WorkerInv /\ OwnInv /\ ChildInv /\ ArmedInv /\ SysOf("bg") /\ Main \in Threads /\ bg.cur \in Threads
      /\ bg.held \subseteq Threads /\ \A u \in Threads : th[u].child \in Threads
  BY ThreadFacts, Threads1 DEF Inv, CleanInv, SysInv, ThreadType
<1>1. /\ th[t].life = "run" /\ th[t].dr # "hw" /\ th[t].by = "none"
      /\ th'[t].by = "fg" /\ th'[t].life = "run" /\ th'[t].dr = th[t].dr /\ th'[t].child = th[t].child
      /\ \A u \in Threads \ {t} : th'[u] = th[u]
  BY TakenFacts
<1>2. WorkerInv'
  BY <1>0 DEF WorkerInv
<1>3. SysOf("bg")'
  BY <1>0, <1>1 DEF SysOf, bg
<1>4. OwnInv'
  BY <1>0, <1>1 DEF OwnInv, Live
<1>5. ChildInv'
  BY <1>0, <1>1 DEF ChildInv
<1>6. ArmedInv'
  BY <1>0, <1>1 DEF ArmedInv
<1> QED BY <1>2, <1>3, <1>4, <1>5, <1>6

LEMMA SysSeizeKept == ASSUME Inv, NEW x \in {"bg", "fg"}, SysSeize(x) PROVE CleanInv'
<1>0. /\ TypeOK /\ WorkerInv /\ CallerInv /\ HeldInv /\ PatchInv /\ OwnInv /\ ChildInv /\ ArmedInv
      /\ Main \in Threads /\ tool[x] \in ToolType /\ SaneInv /\ UNCHANGED patched
      /\ bg.held \subseteq Threads /\ \A u \in Threads : th[u].child \in Threads
  BY ThreadFacts, Threads1 DEF Inv, CleanInv, SysInv, SysSeize, kernel, ThreadType
<1>1. tool[x].pc = "sys_seize"
  BY DEF SysSeize
<1>2. CASE ~(th[Main].by = "none" /\ Main \in Listed)
  <2>1. Return(x, FALSE) /\ UNCHANGED th
    BY <1>2 DEF SysSeize
  <2>2. Gentle /\ Letting(x)
    BY <1>0, <2>1, NoThread, GentleLetting
  <2>3. CASE x = "fg"
    <3>1. bg' = bg /\ fg'.pc \in {"idle", "thread_alloc"} /\ CallerInv'
      BY <1>1, <2>1, <2>3, CallerReturn DEF Sys, fg
    <3>2. HeldInv' /\ SysOf("fg")'
      BY <1>1, <2>1, <2>3, <3>1, NobodyHeld, RestHeld DEF InnerSys, Resting, fg
    <3>3. PatchInv'
      BY <1>0, <1>1, <2>3, <3>1, PatchKept DEF fg
    <3> QED BY <2>2, <2>3, <3>1, <3>2, <3>3, CallerSys
  <2>4. CASE x = "bg"
    <3>1. /\ fg' = fg /\ bg'.pc \in {"sw_list", "end"} /\ bg'.pc = bg.ret /\ WorkerInv' /\ bg.kind = "sw"
          /\ bg'.kind = "sw" /\ bg'.held = bg.held /\ bg'.ret = bg.ret /\ bg.pc \in Sys
      BY <1>0, <1>1, <2>1, <2>4, WorkerReturn DEF Sys, WorkerInv, bg
    <3>2. SysOf("bg")'
      BY <3>1 DEF SysOf, bg, InnerSys
    <3>3. PatchInv'
      BY <1>0, <1>1, <2>4, <3>1, PatchKept DEF bg
    <3> QED BY <2>2, <2>4, <3>1, <3>2, <3>3, WorkerSys DEF InnerSys
  <2> QED BY <2>3, <2>4
<1>3. CASE th[Main].by = "none" /\ Main \in Listed
  <2>1. Taken(Main, x) /\ Goto(x, "sys_interrupt")
    BY <1>3 DEF SysSeize, Taken
  <2>2. /\ tool'[x].pc = "sys_interrupt" /\ tool'[x].kind = tool[x].kind /\ tool'[x].held = tool[x].held
        /\ tool'[x].ret = tool[x].ret /\ tool'[x].n = tool[x].n
        /\ \A y \in {"bg", "fg"} \ {x} : tool'[y] = tool[y]
    <3>1. "sys_interrupt" \in WorkerPcs \cup CallerPcs
      BY DEF WorkerPcs, Sys, InnerSys
    <3>2. /\ tool'[x] = [tool[x] EXCEPT !.pc = "sys_interrupt"]
          /\ \A y \in {"bg", "fg"} \ {x} : tool'[y] = tool[y]
      BY <1>0, <2>1, <3>1, GotoType
    <3> QED BY <1>0, <3>2 DEF ToolType
  <2>3. /\ SaneInv' /\ th[Main].dr # "hw" /\ th[Main].by = "none"
        /\ th'[Main].by = x /\ th'[Main].life = "run" /\ th'[Main].dr = th[Main].dr
        /\ th'[Main].child = th[Main].child /\ th[Main].life = "run"
        /\ \A u \in Threads \ {Main} : th'[u] = th[u]
    BY <1>0, <2>1, TakenFacts
  <2>4. CASE x = "fg"
    <3>1. bg' = bg /\ fg.pc = "sys_seize" /\ fg'.pc = "sys_interrupt" /\ fg'.kind = fg.kind
          /\ fg'.held = fg.held /\ fg'.ret = fg.ret
      BY <1>1, <2>2, <2>4 DEF bg, fg
    <3>2. CallerInv'
      BY <1>0, <3>1 DEF CallerInv, CallerPcs, Sys, InnerSys, Early, Hijacked
    <3>3. SysOf("fg")'
      BY <2>3, <2>4, <3>1 DEF SysOf, fg
    <3>4. HeldInv'
      <4>1. \A t \in Threads \ {Main} : th'[t].by = "fg" => ~Live(th'[t])
        BY <2>3, <3>1, NobodyHeld DEF Resting
      <4> QED BY <3>1, <4>1 DEF HeldInv, InnerSys
    <3>5. PatchInv'
      BY <1>0, <3>1, PatchKept
    <3> QED BY <1>0, <2>1, <2>3, <2>4, <3>1, <3>2, <3>3, <3>4, <3>5, TakenWorker DEF CleanInv, SysInv
  <2>5. CASE x = "bg"
    <3>1. fg' = fg /\ bg.pc = "sys_seize" /\ bg'.pc = "sys_interrupt" /\ bg'.kind = bg.kind
          /\ bg'.held = bg.held /\ bg'.ret = bg.ret /\ bg'.n = bg.n
      BY <1>1, <2>2, <2>5 DEF bg, fg
    <3>2. WorkerInv'
      BY <1>0, <3>1 DEF WorkerInv, WorkerPcs, Early, Poll, SwPoll, Cleaning, Tracing, Sys, InnerSys
    <3>3. SysOf("bg")'
      BY <2>3, <2>5, <3>1 DEF SysOf, bg
    <3>4. PatchInv'
      BY <1>0, <3>1, PatchKept
    <3>5. OwnInv'
      <4>1. bg.ret = "sw_list" => \A t \in Threads : th[t].by # "bg"
        BY <1>0, <3>1 DEF OwnInv, Sys, InnerSys
      <4>2. \A t \in bg'.held : th'[t].life # "absent"
        BY <1>0, <2>3, <3>1 DEF OwnInv
      <4> QED BY <2>3, <3>1, <4>1, <4>2 DEF OwnInv, Keeping, Early, Poll, SwPoll, Sys, InnerSys
    <3>6. ChildInv'
      BY <1>0, <2>3, <3>1 DEF ChildInv, Keeping, Early, Poll, SwPoll, Sys, InnerSys
    <3>7. ArmedInv'
      <4>1. bg.kind = "sw"
        BY <1>0, <3>1 DEF WorkerInv, Sys
      <4> QED BY <1>0, <2>3, <4>1 DEF ArmedInv
    <3> QED BY <1>0, <2>1, <2>3, <2>5, <3>1, <3>2, <3>3, <3>4, <3>5, <3>6, <3>7, TakenCaller DEF CleanInv, SysInv
  <2> QED BY <2>4, <2>5
<1> QED BY <1>2, <1>3

-----------------------------------------------------------------------------
(* Seizing the threads *)

\* The GUI thread goes on with the threads it holds.
LEMMA CallerHolds ==
    ASSUME Inv, Gentle, bg' = bg, UNCHANGED patched, fg.pc \in Early, fg'.pc \in {"seize", "release"},
           fg'.kind = fg.kind, fg'.ret = fg.ret, fg.held \subseteq fg'.held,
           \A t \in Threads : t = fg.cur /\ fg.pc \in {"interrupt", "await"} /\ Live(th'[t]) =>
               t \in fg'.held /\ th'[t].life = "stop"
    PROVE  CleanInv'
<1>0. CallerInv /\ HeldInv /\ PatchInv
  BY DEF Inv, CleanInv, SysInv
<1>1. CallerInv'
  BY <1>0 DEF CallerInv, CallerPcs, Sys, InnerSys, Early, Hijacked
<1>2. SysOf("fg")'
  BY DEF SysOf, fg, InnerSys
<1>3. PatchInv'
  BY <1>0, PatchKept DEF Early
<1>4. HeldInv'
  <2>1. ASSUME NEW t \in Threads, th'[t].by = "fg", Live(th'[t]) PROVE t \in fg'.held /\ th'[t].life = "stop"
    <3>1. th[t].by = "fg" /\ Live(th[t]) /\ (th[t].life = "stop" => th'[t].life = "stop")
      BY <2>1 DEF Gentle, Same, Alike, Live
    <3> QED BY <1>0, <2>1, <3>1 DEF HeldInv, InnerSys, Early
  <2> QED BY <2>1 DEF HeldInv, Early
<1> QED BY <1>1, <1>2, <1>3, <1>4, CallerMove

LEMMA SeizeKept == ASSUME Inv, NEW x \in {"bg", "fg"}, Seize(x) PROVE CleanInv'
<1> DEFINE t == Min(tool[x].todo)
<1>0. /\ TypeOK /\ WorkerInv /\ CallerInv /\ HeldInv /\ PatchInv /\ OwnInv /\ ChildInv /\ ArmedInv
      /\ Main \in Threads /\ tool[x] \in ToolType /\ SaneInv /\ UNCHANGED patched
      /\ bg.held \subseteq Threads /\ fg.held \subseteq Threads /\ bg.cur \in Threads
      /\ \A u \in Threads : th[u].child \in Threads
  BY ThreadFacts, Threads1 DEF Inv, CleanInv, SysInv, Seize, kernel, ThreadType
<1>1. /\ tool[x].pc = "seize" /\ tool' \in [{"bg", "fg"} -> ToolType] /\ t \in tool[x].todo /\ t \in Threads
      /\ \A y \in {"bg", "fg"} \ {x} : tool'[y] = tool[y]
      /\ tool'[x].kind = tool[x].kind /\ tool'[x].ret = tool[x].ret /\ tool'[x].n = tool[x].n
      /\ IF th[t].by = "none" /\ t \in Listed
         THEN /\ tool'[x].cur = t
              /\ tool'[x].held = IF tool[x].kind = "sw" THEN tool[x].held \cup {t} ELSE tool[x].held
              /\ tool'[x].pc = IF tool[x].kind = "sw" THEN "seize" ELSE "interrupt"
         ELSE /\ tool'[x].cur = tool[x].cur /\ tool'[x].held = tool[x].held
              /\ tool'[x].pc = IF x = "fg" /\ t = Main THEN "release" ELSE "seize"
  BY <1>0, SeizeTool DEF Seize, ToolType
<1>2. /\ bg'.cur \in Threads /\ bg'.held \subseteq Threads
  BY <1>1 DEF bg, ToolType
<1>3. CASE ~(th[t].by = "none" /\ t \in Listed)
  <2>1. Gentle /\ AllAlike /\ UNCHANGED th
    BY <1>0, <1>3, NoThread, SaneKept DEF Seize
  <2>2. CASE x = "fg"
    <3>1. /\ bg' = bg /\ fg.pc = "seize" /\ fg'.pc \in {"seize", "release"} /\ fg'.kind = fg.kind
          /\ fg'.held = fg.held /\ fg'.ret = fg.ret
      BY <1>1, <1>3, <2>2 DEF bg, fg
    <3> QED BY <1>0, <2>1, <3>1, CallerHolds DEF Early
  <2>3. CASE x = "bg"
    <3>1. /\ fg' = fg /\ bg.pc = "seize" /\ bg'.pc = "seize" /\ bg'.kind = bg.kind
          /\ bg'.held = bg.held /\ bg'.ret = bg.ret /\ bg'.n = bg.n
      BY <1>1, <1>3, <2>3 DEF bg, fg
    <3>2. WorkerInv'
      BY <1>0, <3>1 DEF WorkerInv, WorkerPcs, Early, Poll, SwPoll, Cleaning, Tracing, Sys, InnerSys
    <3>3. ArmedInv'
      BY <2>1, <3>1, ArmedKept DEF Place, Early
    <3>4. \A u \in bg'.held : th[u].life # "absent" /\ (Live(th'[u]) => th[u].by = "bg")
      BY <1>0, <2>1, <3>1 DEF OwnInv, Keeping, Early
    <3> QED BY <1>0, <1>2, <2>1, <3>1, <3>2, <3>3, <3>4, WorkerMove DEF InnerSys, Sys, Keeping, Early
  <2> QED BY <2>2, <2>3
<1>4. CASE th[t].by = "none" /\ t \in Listed
  <2>1. Taken(t, x)
    BY <1>4 DEF Seize, Taken
  <2>2. /\ SaneInv' /\ th[t].life = "run" /\ th[t].dr # "hw" /\ th[t].by = "none"
        /\ th'[t].by = x /\ th'[t].life = "run" /\ th'[t].dr = th[t].dr /\ th'[t].child = th[t].child
        /\ \A u \in Threads \ {t} : th'[u] = th[u]
    BY <1>1, <2>1, TakenFacts
  <2>3. CASE x = "fg"
    <3>1. /\ bg' = bg /\ fg.pc = "seize" /\ fg'.pc = "interrupt" /\ fg'.kind = fg.kind /\ fg'.cur = t
          /\ fg'.held = fg.held /\ fg'.ret = fg.ret
      BY <1>0, <1>1, <1>4, <2>3 DEF bg, fg, CallerInv, Early
    <3>2. CallerInv'
      BY <1>0, <3>1 DEF CallerInv, CallerPcs, Sys, InnerSys, Early, Hijacked
    <3>3. SysOf("fg")'
      BY <3>1 DEF SysOf, fg, InnerSys
    <3>4. HeldInv'
      <4>1. ASSUME NEW u \in Threads, u # t, th'[u].by = "fg", Live(th'[u])
            PROVE  u \in fg'.held /\ th'[u].life = "stop"
        BY <1>0, <2>2, <3>1, <4>1 DEF HeldInv, InnerSys
      <4> QED BY <2>2, <2>3, <3>1, <4>1 DEF HeldInv, Early
    <3>5. PatchInv'
      BY <1>0, <3>1, PatchKept
    <3> QED BY <1>1, <2>1, <2>2, <2>3, <3>1, <3>2, <3>3, <3>4, <3>5, TakenWorker DEF CleanInv, SysInv
  <2>4. CASE x = "bg"
    <3>1. /\ fg' = fg /\ bg.pc = "seize" /\ bg'.kind = bg.kind /\ bg'.ret = bg.ret /\ bg'.n = bg.n
          /\ bg'.cur = t
          /\ bg'.held = IF bg.kind = "sw" THEN bg.held \cup {t} ELSE bg.held
          /\ bg'.pc = IF bg.kind = "sw" THEN "seize" ELSE "interrupt"
      BY <1>1, <1>4, <2>4 DEF bg, fg
    <3>2. WorkerInv'
      BY <1>0, <3>1 DEF WorkerInv, WorkerPcs, Early, Poll, SwPoll, Cleaning, Tracing, Sys, InnerSys
    <3>3. SysOf("bg")'
      BY <3>1 DEF SysOf, bg, InnerSys
    <3>4. PatchInv'
      BY <1>0, <3>1, PatchKept
    <3>5. OwnInv'
      <4>1. /\ bg'.pc # "idle" /\ bg'.pc \notin Sys /\ bg'.pc \in Keeping /\ bg.pc \in Keeping
        BY <3>1 DEF Sys, InnerSys, Keeping, Early
      <4>2. \A u \in bg'.held : th'[u].life # "absent" /\ (Live(th'[u]) => th'[u].by = "bg")
        BY <1>0, <2>2, <2>4, <3>1, <4>1 DEF OwnInv
      <4> QED BY <2>2, <2>4, <3>1, <4>1, <4>2 DEF OwnInv
    <3>6. ChildInv'
      <4>1. /\ bg'.pc # "newborn" /\ bg'.pc \notin Sys /\ bg.pc \in Keeping
        BY <3>1 DEF Sys, InnerSys, Keeping, Early
      <4> QED BY <1>0, <2>2, <2>4, <4>1 DEF ChildInv
    <3>7. ArmedInv'
      BY <1>0, <2>2, <3>1 DEF ArmedInv, Place, Early
    <3> QED BY <1>1, <2>1, <2>2, <2>4, <3>1, <3>2, <3>3, <3>4, <3>5, <3>6, <3>7, TakenCaller DEF CleanInv, SysInv
  <2> QED BY <2>3, <2>4
<1> QED BY <1>3, <1>4

LEMMA InterruptKept == ASSUME Inv, NEW x \in {"bg", "fg"}, Interrupt(x) PROVE CleanInv'
<1> DEFINE t == tool[x].cur
<1>0. /\ TypeOK /\ WorkerInv /\ CallerInv /\ HeldInv /\ PatchInv /\ OwnInv /\ SaneInv
      /\ tool[x] \in ToolType /\ UNCHANGED patched /\ t \in Threads /\ bg.held \subseteq Threads
      /\ fg.cur \in Threads
  BY ThreadFacts, Threads1 DEF Inv, CleanInv, SysInv, Interrupt, kernel
<1>1. Gentle /\ AllAlike
  BY CallGentle, SaneKept
<1>2. /\ tool[x].pc = "interrupt" /\ tool' \in [{"bg", "fg"} -> ToolType]
      /\ \A y \in {"bg", "fg"} \ {x} : tool'[y] = tool[y]
      /\ tool'[x].kind = tool[x].kind /\ tool'[x].ret = tool[x].ret /\ tool'[x].n = tool[x].n
      /\ tool'[x].cur = t
      /\ tool'[x].held = IF t \in Listed \/ tool[x].kind \notin {"hw", "st"} THEN tool[x].held
                         ELSE tool[x].held \cup {t}
      /\ tool'[x].pc = IF t \in Listed THEN "await"
                       ELSE IF x = "fg" /\ t = Main THEN "release" ELSE "seize"
  BY <1>0, InterruptTool DEF Interrupt
<1>3. CASE x = "bg"
  <2>1. /\ fg' = fg /\ bg.pc = "interrupt" /\ bg'.kind = bg.kind /\ bg'.ret = bg.ret /\ bg'.n = bg.n
        /\ bg'.cur = bg.cur /\ bg'.pc \in {"await", "seize"} /\ bg.cur \in Threads
        /\ bg.held \subseteq bg'.held /\ bg'.held \subseteq bg.held \cup {bg.cur}
    BY <1>0, <1>2, <1>3 DEF bg, fg
  <2>2. WorkerInv'
    BY <1>0, <2>1 DEF WorkerInv, WorkerPcs, Early, Poll, SwPoll, Cleaning, Tracing, Sys, InnerSys
  <2>3. ArmedInv'
    BY <1>1, <2>1, ArmedKept DEF Place, Early
  <2>4. th[bg.cur].by = "bg" /\ th[bg.cur].life # "absent"
    BY <1>0, <2>1 DEF OwnInv, SaneInv, Sane
  <2>5. \A u \in bg'.held : th[u].life # "absent" /\ (Live(th'[u]) => th[u].by = "bg")
    <3>1. \A u \in bg.held : th[u].life # "absent" /\ (Live(th[u]) => th[u].by = "bg")
      BY <1>0, <2>1 DEF OwnInv, Keeping, Early
    <3>2. \A u \in Threads : Live(th'[u]) => Live(th[u])
      BY <1>1 DEF AllAlike, Alike
    <3> QED BY <1>0, <2>1, <2>4, <3>1, <3>2
  <2> QED BY <1>0, <1>1, <2>1, <2>2, <2>3, <2>4, <2>5, WorkerMove DEF InnerSys, Sys, Keeping, Early
<1>4. CASE x = "fg"
  <2>1. /\ bg' = bg /\ fg.pc = "interrupt" /\ fg'.kind = fg.kind /\ fg'.ret = fg.ret
        /\ fg'.held = fg.held /\ fg'.cur = fg.cur /\ t = fg.cur
        /\ fg'.pc = IF fg.cur \in Listed THEN "await" ELSE IF fg.cur = Main THEN "release" ELSE "seize"
    BY <1>0, <1>2, <1>4 DEF bg, fg, CallerInv, Early
  <2>2. CASE fg.cur \in Listed
    <3>1. CallerInv'
      BY <1>0, <2>1, <2>2 DEF CallerInv, CallerPcs, Sys, InnerSys, Early, Hijacked
    <3>2. SysOf("fg")'
      BY <2>1, <2>2 DEF SysOf, fg, InnerSys
    <3>3. PatchInv'
      BY <1>0, <2>1, PatchKept
    <3>4. HeldInv'
      <4>1. ASSUME NEW u \in Threads, u # fg.cur, th'[u].by = "fg", Live(th'[u])
            PROVE  u \in fg'.held /\ th'[u].life = "stop"
        <5>1. th[u].by = "fg" /\ Live(th[u]) /\ (th[u].life = "stop" => th'[u].life = "stop")
          BY <1>1, <4>1 DEF Gentle, Same, Alike, Live
        <5> QED BY <1>0, <2>1, <4>1, <5>1 DEF HeldInv, InnerSys
      <4>2. th'[fg.cur].by = "fg"
        BY <1>0, <1>1, <2>1 DEF HeldInv, Gentle, Same, Alike
      <4> QED BY <2>1, <2>2, <4>1, <4>2 DEF HeldInv, Early
    <3> QED BY <1>1, <2>1, <3>1, <3>2, <3>3, <3>4, CallerMove
  <2>3. CASE fg.cur \notin Listed
    <3>1. ~Live(th'[fg.cur])
      BY <1>0, <1>1, <2>3 DEF AllAlike, Alike, Live, Listed
    <3> QED BY <1>0, <1>1, <2>1, <2>3, <3>1, CallerHolds DEF Early
  <2> QED BY <2>2, <2>3
<1> QED BY <1>3, <1>4

LEMMA HoldKept == ASSUME Inv, NEW x \in {"bg", "fg"}, HoldThread(x) PROVE CleanInv'
<1> DEFINE t == tool[x].cur
<1>0. /\ TypeOK /\ WorkerInv /\ CallerInv /\ OwnInv /\ SaneInv
      /\ tool[x] \in ToolType /\ UNCHANGED patched /\ t \in Threads /\ bg.held \subseteq Threads
      /\ th[t] \in ThreadType /\ Sane(th[t])
  BY ThreadFacts, Threads1 DEF Inv, CleanInv, SysInv, HoldThread, kernel
<1>1. Gentle /\ AllAlike
  BY CallGentle, SaneKept
<1>2. tool[x].pc = "await"
  BY DEF HoldThread
<1>5. /\ tool' \in [{"bg", "fg"} -> ToolType]
      /\ \A y \in {"bg", "fg"} \ {x} : tool'[y] = tool[y]
      /\ tool'[x].kind = tool[x].kind /\ tool'[x].ret = tool[x].ret /\ tool'[x].n = tool[x].n
      /\ tool'[x].cur = t
      /\ tool'[x].held = IF x = "bg" \/ th[t].life = "stop" THEN tool[x].held \cup {t} ELSE tool[x].held
      /\ tool'[x].pc = IF ~(x = "bg" \/ th[t].life = "stop") /\ t = Main THEN "release" ELSE "seize"
  BY <1>0, HoldTool
<1>3. CASE x = "bg"
  <2>1. /\ fg' = fg /\ bg.pc = "await" /\ bg'.kind = bg.kind /\ bg'.ret = bg.ret /\ bg'.n = bg.n
        /\ bg'.cur = bg.cur /\ bg'.pc = "seize" /\ bg.cur \in Threads
        /\ bg'.held = bg.held \cup {bg.cur}
    BY <1>0, <1>2, <1>3, <1>5 DEF bg, fg
  <2>2. WorkerInv'
    BY <1>0, <2>1 DEF WorkerInv, WorkerPcs, Early, Poll, SwPoll, Cleaning, Tracing, Sys, InnerSys
  <2>3. ArmedInv'
    BY <1>1, <2>1, ArmedKept DEF Place, Early
  <2>4. th[bg.cur].by = "bg" /\ th[bg.cur].life # "absent"
    BY <1>0, <2>1 DEF OwnInv, SaneInv, Sane
  <2>5. \A u \in bg'.held : th[u].life # "absent" /\ (Live(th'[u]) => th[u].by = "bg")
    <3>1. \A u \in bg.held : th[u].life # "absent" /\ (Live(th[u]) => th[u].by = "bg")
      BY <1>0, <2>1 DEF OwnInv, Keeping, Early
    <3>2. \A u \in Threads : Live(th'[u]) => Live(th[u])
      BY <1>1 DEF AllAlike, Alike
    <3> QED BY <1>0, <2>1, <2>4, <3>1, <3>2
  <2> QED BY <1>0, <1>1, <2>1, <2>2, <2>3, <2>4, <2>5, WorkerMove DEF InnerSys, Sys, Keeping, Early
<1>4. CASE x = "fg"
  <2>1. /\ bg' = bg /\ fg.pc = "await" /\ fg'.kind = fg.kind /\ fg'.ret = fg.ret /\ t = fg.cur
        /\ fg.held \subseteq fg'.held /\ (th[t].life = "stop" => t \in fg'.held)
        /\ fg'.pc \in {"release", "seize"}
    BY <1>0, <1>2, <1>4, <1>5 DEF bg, fg
  <2>2. Live(th'[t]) => th[t].life = "stop" /\ th'[t].life = "stop"
    <3>1. th'[t] = Reaped(th[t]) /\ th[t].life \in {"stop", "zombie"}
      BY <1>0, <1>4 DEF HoldThread, TypeOK, Sane
    <3> QED BY <1>0, <3>1, ReapedType DEF Live
  <2> QED BY <1>0, <1>1, <2>1, <2>2, CallerHolds DEF Early
<1> QED BY <1>3, <1>4

-----------------------------------------------------------------------------
(* Births *)

\* A thread the target creates untraced.
Birth(c) ==
    /\ th' \in [Threads -> ThreadType] /\ th[c].life = "absent" /\ th'[c] = [th[c] EXCEPT !.life = "run"]
    /\ \A u \in Threads \ {c} : Same(th[u], th'[u])

LEMMA BirthFacts ==
    ASSUME Inv, NEW c \in Threads, Birth(c)
    PROVE  /\ SaneInv' /\ th[c].by = "none" /\ th'[c].by = "none" /\ th'[c].dr # "hw" /\ th'[c].life = "run"
           /\ th[c].life = "absent" /\ th'[c].child = th[c].child
           /\ \A u \in Threads \ {c} : /\ th'[u].by = th[u].by /\ th'[u].child = th[u].child
                                       /\ (th'[u].dr = "hw" => th[u].dr = "hw")
                                       /\ (Live(th'[u]) => Live(th[u]))
                                       /\ (th'[u].life = "absent") = (th[u].life = "absent")
                                       /\ Same(th[u], th'[u])
<1>1. th[c] \in ThreadType /\ Sane(th[c]) /\ th[c].life = "absent"
  BY ThreadFacts DEF Birth
<1>2. /\ th'[c].life = "run" /\ th'[c].by = th[c].by /\ th'[c].dr = th[c].dr /\ th'[c].unread = th[c].unread
      /\ th'[c].child = th[c].child
  BY <1>1 DEF Birth, ThreadType
<1>3. Sane(th'[c]) /\ th[c].by = "none" /\ th'[c].dr # "hw"
  BY <1>1, <1>2 DEF Sane
<1>4. \A u \in Threads \ {c} : Same(th[u], th'[u])
  BY DEF Birth
<1> QED BY <1>1, <1>2, <1>3, <1>4 DEF SaneInv, Same, Alike

LEMMA BirthWorker ==
    ASSUME Inv, NEW c \in Threads, Birth(c), bg' = bg
    PROVE  WorkerInv' /\ SysOf("bg")' /\ OwnInv' /\ ChildInv' /\ ArmedInv'
<1>0. /\ WorkerInv /\ OwnInv /\ ChildInv /\ ArmedInv /\ SysOf("bg") /\ Main \in Threads /\ bg.cur \in Threads
      /\ bg.held \subseteq Threads /\ \A u \in Threads : th[u].child \in Threads
  BY ThreadFacts, Threads1 DEF Inv, CleanInv, SysInv, ThreadType
<1>1. /\ th[c].by = "none" /\ th'[c].by = "none" /\ th'[c].dr # "hw" /\ th'[c].life = "run"
      /\ th[c].life = "absent" /\ th'[c].child = th[c].child
      /\ \A u \in Threads \ {c} : /\ th'[u].by = th[u].by /\ th'[u].child = th[u].child
                                  /\ (th'[u].dr = "hw" => th[u].dr = "hw")
                                  /\ (Live(th'[u]) => Live(th[u]))
                                  /\ (th'[u].life = "absent") = (th[u].life = "absent")
                                  /\ Same(th[u], th'[u])
  BY BirthFacts
<1>2. WorkerInv'
  BY <1>0 DEF WorkerInv
<1>3. SysOf("bg")'
  BY <1>0, <1>1 DEF SysOf, bg, Same, Alike, InnerSys
<1>4. OwnInv'
  <2>1. \A u \in bg.held : u # c
    BY <1>0, <1>1 DEF OwnInv
  <2> QED BY <1>0, <1>1, <2>1 DEF OwnInv
<1>5. ChildInv'
  <2>1. \A u \in Threads : th'[u].by = th[u].by /\ th'[u].child = th[u].child
    BY <1>1
  <2>2. \A w \in Threads : th'[w].life = "stop" /\ th'[w].why = "clone" => th[w].life = "stop" /\ th[w].why = "clone"
    BY <1>1 DEF Same, Alike
  <2> QED BY <1>0, <2>1, <2>2 DEF ChildInv
<1>6. ArmedInv'
  BY <1>0, <1>1 DEF ArmedInv
<1> QED BY <1>2, <1>3, <1>4, <1>5, <1>6

\* A thread born to one the worker follows.
Followed(t, c) ==
    /\ Running(t) /\ th[c].life = "absent" /\ Follows(t)
    /\ th' = [th EXCEPT ![t] = [StoppedFor(@, "clone") EXCEPT !.child = c],
                        ![c] = [StoppedFor(@, "born") EXCEPT !.by = th[t].by]]

LEMMA FollowedFacts ==
    ASSUME Inv, NEW t \in Threads, NEW c \in Threads, Followed(t, c)
    PROVE  /\ SaneInv' /\ t # c /\ th[c].life = "absent" /\ th[c].by = "none" /\ th[t].by = "bg" /\ th[t].life = "run"
           /\ th'[t].by = "bg" /\ th'[t].life = "stop" /\ th'[t].why = "clone" /\ th'[t].child = c
           /\ th'[t].dr = th[t].dr
           /\ th'[c].by = "bg" /\ th'[c].life = "stop" /\ th'[c].why = "born" /\ th'[c].dr # "hw"
           /\ th'[c].child = th[c].child
           /\ \A u \in Threads \ {t, c} : th'[u] = th[u]
<1>0. /\ TypeOK /\ SaneInv /\ th[t] \in ThreadType /\ th[c] \in ThreadType /\ Sane(th[t]) /\ Sane(th[c])
  BY ThreadFacts
<1>1. t # c /\ th[c].life = "absent" /\ th[c].by = "none" /\ th[c].dr = "none" /\ th[t].by = "bg" /\ th[t].life = "run"
  BY <1>0 DEF Followed, Running, Follows, Sane
<1> DEFINE p == [StoppedFor(th[t], "clone") EXCEPT !.child = c]
           q == [StoppedFor(th[c], "born") EXCEPT !.by = "bg"]
<1>2. /\ p \in ThreadType /\ p.by = "bg" /\ p.life = "stop" /\ p.why = "clone" /\ p.child = c /\ p.dr = th[t].dr
  BY <1>0, <1>1, StoppedForType DEF Whys, ThreadType
<1>3. /\ q \in ThreadType /\ q.by = "bg" /\ q.life = "stop" /\ q.why = "born" /\ q.dr = "none"
      /\ q.child = th[c].child
  BY <1>0, <1>1, StoppedForType DEF Whys, ThreadType
<1>4. th' = [th EXCEPT ![t] = p, ![c] = q]
  BY <1>0, <1>1 DEF Followed
<1> HIDE DEF p, q
<1>5. th'[t] = p /\ th'[c] = q /\ \A u \in Threads \ {t, c} : th'[u] = th[u]
  BY <1>0, <1>1, <1>4 DEF TypeOK
<1>6. SaneInv'
  BY <1>0, <1>2, <1>3, <1>5 DEF SaneInv, Sane
<1> QED BY <1>1, <1>2, <1>3, <1>5, <1>6

LEMMA FollowedKept ==
    ASSUME Inv, NEW t \in Threads, NEW c \in Threads, Followed(t, c), UNCHANGED tool, UNCHANGED patched
    PROVE  CleanInv'
<1>0. /\ WorkerInv /\ CallerInv /\ OwnInv /\ ChildInv /\ ArmedInv /\ HeldInv /\ SysOf("bg") /\ SysOf("fg") /\ PatchInv
      /\ Main \in Threads /\ bg.cur \in Threads /\ fg.cur \in Threads
      /\ bg.held \subseteq Threads /\ \A u \in Threads : th[u].child \in Threads
  BY ThreadFacts, Threads1 DEF Inv, CleanInv, SysInv, ThreadType
<1>1. /\ SaneInv' /\ t # c /\ th[c].life = "absent" /\ th[c].by = "none" /\ th[t].by = "bg" /\ th[t].life = "run"
      /\ th'[t].by = "bg" /\ th'[t].life = "stop" /\ th'[t].why = "clone" /\ th'[t].child = c
      /\ th'[t].dr = th[t].dr
      /\ th'[c].by = "bg" /\ th'[c].life = "stop" /\ th'[c].why = "born" /\ th'[c].dr # "hw"
      /\ th'[c].child = th[c].child
      /\ \A u \in Threads \ {t, c} : th'[u] = th[u]
  BY FollowedFacts
<1>2. bg' = bg /\ fg' = fg
  BY DEF bg, fg
<1>3. WorkerInv' /\ CallerInv' /\ PatchInv'
  BY <1>0, <1>2 DEF WorkerInv, CallerInv, PatchInv
<1>4. SysOf("bg")'
  BY <1>0, <1>1 DEF SysOf, bg
<1>5. SysOf("fg")'
  BY <1>0, <1>1 DEF SysOf, fg
<1>6. ~(bg.pc \in Sys /\ bg.ret = "sw_list")
  <2>1. ASSUME bg.pc \in Sys, bg.ret = "sw_list" PROVE FALSE
    <3>1. t = Main /\ bg.pc \in InnerSys
      BY <1>0, <1>1, <2>1 DEF OwnInv
    <3>2. bg.pc \notin {"sys_interrupt", "sys_wait"}
      BY <3>1 DEF Followed, Follows
    <3> QED BY <1>0, <1>1, <3>1, <3>2 DEF SysOf, InnerSys, bg
  <2> QED BY <2>1
<1>7. OwnInv'
  <2>1. \A u \in bg.held : u # c
    BY <1>0, <1>1 DEF OwnInv
  <2> QED BY <1>0, <1>1, <1>2, <1>6, <2>1 DEF OwnInv
<1>8. ChildInv'
  <2>1. \A u \in Threads : th[u].by = "bg" => th'[u].by = "bg"
    BY <1>1
  <2>2. \A u \in Threads \ {t} : th'[u].life = "stop" /\ th'[u].why = "clone" =>
            th[u].life = "stop" /\ th[u].why = "clone" /\ th'[u].child = th[u].child
    BY <1>1
  <2>3. bg.pc = "newborn" => th'[th'[bg.cur].child].by = "bg"
    <3>1. CASE bg.cur = t
      BY <1>1, <3>1
    <3>2. CASE bg.cur = c
      BY <1>0, <1>1, <2>1, <3>2 DEF ChildInv
    <3>3. CASE bg.cur \notin {t, c}
      BY <1>0, <1>1, <2>1, <3>3 DEF ChildInv
    <3> QED BY <3>1, <3>2, <3>3
  <2> QED BY <1>0, <1>1, <1>2, <1>6, <2>1, <2>2, <2>3 DEF ChildInv
<1>9. ArmedInv'
  BY <1>0, <1>1, <1>2 DEF ArmedInv, Live
<1>10. HeldInv'
  BY <1>0, <1>1, <1>2 DEF HeldInv, Live
<1> QED BY <1>1, <1>3, <1>4, <1>5, <1>7, <1>8, <1>9, <1>10 DEF CleanInv, SysInv

LEMMA CloneKept == ASSUME Inv, NEW t \in Threads, Clone(t) PROVE CleanInv'
<1>0. TypeOK /\ CallerInv /\ SysOf("fg") /\ HeldInv /\ PatchInv /\ Main \in Threads /\ fg.cur \in Threads /\ SaneInv
  BY ThreadFacts DEF Inv, CleanInv, SysInv
<1>1. UNCHANGED tool /\ UNCHANGED patched /\ bg' = bg /\ fg' = fg
  BY DEF Clone, bg, fg
<1>2. PICK c \in Threads :
        /\ th[c].life = "absent"
        /\ th' = IF Follows(t)
                 THEN [th EXCEPT ![t] = [StoppedFor(@, "clone") EXCEPT !.child = c],
                                 ![c] = [StoppedFor(@, "born") EXCEPT !.by = th[t].by]]
                 ELSE [th EXCEPT ![c].life = "run"]
  BY DEF Clone
<1>3. CASE Follows(t)
  <2>1. Followed(t, c)
    BY <1>2, <1>3 DEF Clone, Followed
  <2> QED BY <1>1, <2>1, FollowedKept
<1>4. CASE ~Follows(t)
  <2>1. Birth(c)
    <3>1. th[c] \in ThreadType /\ [th[c] EXCEPT !.life = "run"] \in ThreadType
      BY <1>0 DEF TypeOK, ThreadType, Lives
    <3> QED BY <1>0, <1>2, <1>4, <3>1, SameItself DEF Birth, TypeOK, SaneInv
  <2>2. /\ SaneInv' /\ th'[c].by = "none" /\ th[c].life = "absent" /\ th[c].by = "none"
        /\ \A u \in Threads \ {c} : Same(th[u], th'[u])
    BY <2>1, BirthFacts
  <2>3. CallerInv' /\ PatchInv'
    BY <1>0, <1>1 DEF CallerInv, PatchInv
  <2>4. SysOf("fg")'
    BY <1>0, <1>1, <2>2 DEF SysOf, fg, Same, Alike, InnerSys
  <2>5. HeldInv'
    <3>1. ASSUME NEW u \in Threads, th'[u].by = "fg", Live(th'[u])
          PROVE  \/ fg.pc \in InnerSys /\ u = Main
                 \/ fg.pc \in {"interrupt", "await"} /\ u = fg.cur
                 \/ fg.pc \in Early \cup Hijacked \cup {"release"} /\ u \in fg.held /\ th'[u].life = "stop"
      <4>1. th[u].by = "fg" /\ Live(th[u]) /\ (th[u].life = "stop" => th'[u].life = "stop")
        BY <2>2, <3>1 DEF Same, Alike, Live
      <4> QED BY <1>0, <4>1 DEF HeldInv
    <3>2. fg.pc \in {"interrupt", "await"} => th'[fg.cur].by = "fg"
      BY <1>0, <2>2 DEF Same, Alike, HeldInv
    <3> QED BY <1>1, <3>1, <3>2 DEF HeldInv
  <2> QED BY <1>1, <2>1, <2>2, <2>3, <2>4, <2>5, BirthWorker DEF CleanInv, SysInv
<1> QED BY <1>3, <1>4

\* What a step on the hijacked thread that may create another does to the threads.
LEMMA RunThreadBirth ==
    ASSUME Inv, RunThread
    PROVE  /\ \/ Gentle /\ Silent
              \/ \E c \in Threads : Birth(c) /\ th' = [th EXCEPT ![fg.cur] = Stepped(@), ![c].life = "run"]
           /\ th' \in [Threads -> ThreadType]
<1>0. /\ TypeOK /\ SaneInv /\ fg.cur \in Threads
      /\ \A t \in Threads : th[t] \in ThreadType /\ Sane(th[t])
  BY ThreadFacts
<1> DEFINE s == Stepped(th[fg.cur])
<1>1. Same(th[fg.cur], s) /\ Quiet(th[fg.cur], s) /\ s \in ThreadType
  BY <1>0, SteppedSame, SteppedType
<1>2. PICK o \in StepOutcomes(fg.cur, "fg"), c \in Threads :
        th' = IF o.exec /\ th[c].life = "absent" THEN [th EXCEPT ![fg.cur] = s, ![c].life = "run"]
                                                 ELSE [th EXCEPT ![fg.cur] = s]
  BY DEF RunThread, CallOutcomes
<1>3. CASE o.exec /\ th[c].life = "absent"
  <2>1. th[fg.cur].life = "stop"
    BY <1>2, <1>3 DEF StepOutcomes, Stopped
  <2>2. c # fg.cur
    BY <1>3, <2>1
  <2>3. [th[c] EXCEPT !.life = "run"] \in ThreadType
    BY <1>0 DEF ThreadType, Lives
  <2> HIDE DEF s
  <2>4. /\ th' \in [Threads -> ThreadType] /\ th'[c] = [th[c] EXCEPT !.life = "run"] /\ th'[fg.cur] = s
        /\ \A u \in Threads \ {c, fg.cur} : th'[u] = th[u]
    BY <1>0, <1>1, <1>2, <1>3, <2>2, <2>3 DEF TypeOK
  <2>5. Birth(c)
    BY <1>0, <1>1, <1>3, <2>4, SameItself DEF Birth
  <2> QED BY <1>2, <1>3, <2>4, <2>5 DEF s
<1>4. CASE ~(o.exec /\ th[c].life = "absent")
  BY <1>0, <1>1, <1>2, <1>4, OneThread DEF Gentle
<1> QED BY <1>3, <1>4

LEMMA RunThreadKept == ASSUME Inv, RunThread PROVE CleanInv'
<1>0. TypeOK /\ CallerInv /\ HeldInv /\ PatchInv
  BY DEF Inv, CleanInv, SysInv
<1>1. /\ bg' = bg /\ UNCHANGED patched /\ fg.pc = "thread"
      /\ fg'.kind = fg.kind /\ fg'.ret = fg.ret /\ fg'.held = fg.held
      /\ fg'.pc \in {"thread_join", "release"}
  BY <1>0, ThreadTool DEF RunThread, Moved
<1>2. CallerInv'
  BY <1>0, <1>1 DEF CallerInv, CallerPcs, Sys, InnerSys, Early, Hijacked
<1>3. SysOf("fg")'
  BY <1>1 DEF SysOf, fg, InnerSys
<1>4. PatchInv'
  BY <1>0, <1>1, PatchKept
<1>5. ASSUME \A t \in Threads : th'[t].by = "fg" => Same(th[t], th'[t]) PROVE HeldInv'
  <2>1. ASSUME NEW t \in Threads, th'[t].by = "fg", Live(th'[t]) PROVE t \in fg.held /\ th'[t].life = "stop"
    <3>1. Same(th[t], th'[t])
      BY <1>5, <2>1
    <3>2. th[t].by = "fg" /\ Live(th[t]) /\ (th[t].life = "stop" => th'[t].life = "stop")
      BY <2>1, <3>1 DEF Same, Alike, Live
    <3> QED BY <1>0, <1>1, <3>2 DEF HeldInv, InnerSys, Hijacked
  <2> QED BY <1>1, <2>1 DEF HeldInv, Hijacked
<1>6. CASE Gentle
  BY <1>1, <1>2, <1>3, <1>4, <1>5, <1>6, CallerMove DEF Gentle
<1>7. ASSUME NEW c \in Threads, Birth(c) PROVE CleanInv'
  <2>1. /\ SaneInv' /\ th'[c].by = "none"
        /\ \A u \in Threads \ {c} : Same(th[u], th'[u])
    BY <1>7, BirthFacts
  <2>2. HeldInv'
    BY <1>5, <2>1
  <2> QED BY <1>1, <1>2, <1>3, <1>4, <1>7, <2>1, <2>2, BirthWorker DEF CleanInv, SysInv
<1> QED BY <1>6, <1>7, RunThreadBirth

-----------------------------------------------------------------------------
(* Type correctness of the steps of the tools, by what they do to the threads. *)

LEMMA StepSignals == ASSUME TypeOK, NEW t, NEW x, NEW o \in StepOutcomes(t, x) PROVE o.sig \in Nat /\ signals + o.sig \in Nat
BY DEF StepOutcomes, TypeOK

LEMMA ProtectType ==
    ASSUME TypeOK, NEW t, NEW x, NEW o \in StepOutcomes(t, x), NEW prot \in {"orig", "guard"}, Protect(t, o, prot)
    PROVE  page' \in {"orig", "guard"} /\ signals' \in Nat
BY StepSignals DEF Protect, TypeOK

LEMMA FinderType ==
    ASSUME Inv, NEW w \in Threads,
           \/ SeizedAll \/ ArmThread \/ CloneEvent(w) \/ Newborn \/ Exited(w) \/ LeaveLoop \/ CleanThread
           \/ Cleaned \/ ListPass \/ PassDone
    PROVE  TypeOK'
<1>0. TypeOK
  BY DEF Inv
<1>1. th' \in [Threads -> ThreadType]
  BY FinderGentle, ArmAlike, NewbornAlike DEF Gentle, AllAlike
<1>2. tool' \in [{"bg", "fg"} -> ToolType]
  BY <1>0, SeizedAllTool, ArmTool, CloneEventTool, NewbornTool, ExitedTool, LeaveTool, CleanTool, CleanedTool,
     ListTool, PassTool
<1>3. UNCHANGED <<kernel, Tools>>
  BY DEF SeizedAll, ArmThread, CloneEvent, Newborn, Exited, LeaveLoop, CleanThread, Cleaned, ListPass, PassDone
<1> QED BY <1>0, <1>1, <1>2, <1>3 DEF TypeOK, kernel, Tools

LEMMA LoopType ==
    ASSUME Inv, NEW w \in Threads, WatchHit(w) \/ PassOn(w) \/ PassFault(w) \/ Fault(w) \/ StepStore
    PROVE  TypeOK'
<1>0. TypeOK
  BY DEF Inv
<1>1. th' \in [Threads -> ThreadType]
  BY FinderGentle DEF Gentle
<1>2. CASE WatchHit(w) \/ PassOn(w)
  <2>1. hits' \in Nat
    BY <1>0, <1>2 DEF WatchHit, PassOn, RecordHit, TypeOK
  <2>2. UNCHANGED <<page, pages, patched, signals, cause, tool, stop, touches, uses>>
    BY <1>2 DEF WatchHit, PassOn, kernel
  <2> QED BY <1>0, <1>1, <2>1, <2>2 DEF TypeOK
<1>3. CASE PassFault(w)
  <2>1. cause' \in {"guard", cause}
    BY <1>0, <1>3, ForwardedSame DEF PassFault, Inv, CleanInv
  <2> QED BY <1>0, <1>1, <1>3, <2>1 DEF PassFault, TypeOK, Tools
<1>4. CASE Fault(w)
  <2>1. hits' \in Nat
    BY <1>0, <1>4 DEF Fault, RecordHit, TypeOK
  <2>2. UNCHANGED <<page, pages, patched, signals, cause, stop, touches, uses>>
    BY <1>4 DEF Fault, kernel
  <2>3. tool' \in [{"bg", "fg"} -> ToolType]
    BY <1>0, <1>4, FaultTool
  <2> QED BY <1>0, <1>1, <2>1, <2>2, <2>3 DEF TypeOK
<1>5. CASE StepStore
  <2>1. signals' \in Nat /\ touches' \in Nat
    BY <1>0, <1>5, StepSignals DEF StepStore, TypeOK
  <2> QED BY <1>0, <1>1, <1>5, <2>1, StepStoreTool DEF StepStore, TypeOK
<1> QED BY <1>2, <1>3, <1>4, <1>5

LEMMA ProtectsType ==
    ASSUME Inv, Release \/ GuardPage \/ Unprotect \/ Reguard
    PROVE  TypeOK'
<1>0. TypeOK /\ Main \in Threads
  BY ThreadFacts
<1>1. th' \in [Threads -> ThreadType]
  BY <1>0, FinderGentle, ReleaseLetting DEF Gentle, Letting
<1>2. tool' \in [{"bg", "fg"} -> ToolType]
  BY <1>0, ReleaseTool, GuardTool, UnprotectTool, ReguardTool
<1>3. UNCHANGED <<pages, patched, cause, Tools>>
  BY DEF Release, GuardPage, Unprotect, Reguard
<1>4. page' \in {"orig", "guard"} /\ signals' \in Nat
  <2>1. CASE Release
    <3>1. CASE th[bg.cur].life = "stop" /\ bg.kind = "sw" /\ ~bg.ok
      <4>1. PICK o \in StepOutcomes(bg.cur, "bg") : Protect(bg.cur, o, "orig")
        BY <2>1, <3>1 DEF Release
      <4> QED BY <1>0, <4>1, ProtectType
    <3>2. CASE ~(th[bg.cur].life = "stop" /\ bg.kind = "sw" /\ ~bg.ok)
      <4>1. UNCHANGED <<page, signals>>
        BY <2>1, <3>2 DEF Release
      <4> QED BY <1>0, <4>1 DEF TypeOK
    <3> QED BY <3>1, <3>2
  <2>2. CASE GuardPage \/ Unprotect \/ Reguard
    <3>1. PICK o \in StepOutcomes(bg.cur, "bg"), prot \in {"orig", "guard"} : Protect(bg.cur, o, prot)
      BY <2>2 DEF GuardPage, Unprotect, Reguard
    <3> QED BY <1>0, <3>1, ProtectType
  <2> QED BY <2>1, <2>2
<1> QED BY <1>0, <1>1, <1>2, <1>3, <1>4 DEF TypeOK, Tools

LEMMA TracerType ==
    ASSUME Inv, NEW w \in Threads,
           RunToStart \/ Disarm \/ Freeze \/ FreezeWait \/ TraceStep \/ DetachAll \/ TraceEvent(w)
    PROVE  TypeOK'
<1>0. TypeOK
  BY DEF Inv
<1>1. th' \in [Threads -> ThreadType]
  BY TracerGentle, EndLetting DEF Gentle, Letting
<1>2. tool' \in [{"bg", "fg"} -> ToolType]
  BY <1>0, RunTool, DisarmTool, FreezeTool, FreezeWaitTool, TraceStepTool, DetachTool, TraceEventTool
<1>3. UNCHANGED <<page, pages, patched, Tools>>
  BY DEF RunToStart, Disarm, Freeze, FreezeWait, TraceStep, DetachAll, TraceEvent, kernel
<1>4. signals' \in Nat
  <2>1. CASE TraceStep
    BY <1>0, <2>1, StepSignals DEF TraceStep, TypeOK
  <2>2. CASE ~TraceStep
    BY <1>0, <2>2 DEF RunToStart, Disarm, Freeze, FreezeWait, DetachAll, TraceEvent, kernel, TypeOK
  <2> QED BY <2>1, <2>2
<1>5. cause' \in {"guard", cause}
  <2>1. CASE TraceEvent(w)
    BY <1>0, <2>1, ForwardedSame DEF TraceEvent, Inv, CleanInv
  <2>2. CASE ~TraceEvent(w)
    BY <2>2 DEF RunToStart, Disarm, Freeze, FreezeWait, DetachAll, TraceStep, kernel
  <2> QED BY <2>1, <2>2
<1> QED BY <1>0, <1>1, <1>2, <1>3, <1>4, <1>5 DEF TypeOK, Tools

LEMMA InjectorType ==
    ASSUME Inv, \/ ThreadAllocated \/ Hijack \/ MapPath \/ CallDlopen \/ UnmapPath \/ RunThread \/ TryJoin \/ ReleaseAll
    PROVE  TypeOK'
<1>0. TypeOK /\ CallerInv /\ \A t \in Threads : th[t] \in ThreadType
  BY ThreadFacts
<1>1. th' \in [Threads -> ThreadType]
  <2>1. CASE ReleaseAll
    BY <1>0, <2>1, FreedType DEF ReleaseAll
  <2> QED BY <2>1, InjectGentle, RunThreadBirth DEF Gentle
<1>2. tool' \in [{"bg", "fg"} -> ToolType]
  <2>1. CASE Hijack
    <3>1. fg.kind \in {"inject", "thread"}
      BY <1>0, <2>1 DEF Hijack, CallerInv, Early
    <3> QED BY <1>0, <2>1, <3>1, HijackTool
  <2> QED BY <1>0, <2>1, AllocatedTool, InjectTool, ThreadTool, ReleaseAllTool
<1>3. UNCHANGED <<page, patched, cause, Tools>>
  BY DEF ThreadAllocated, Hijack, MapPath, CallDlopen, UnmapPath, RunThread, TryJoin, ReleaseAll, kernel
<1>4. signals' \in Nat /\ pages' \subseteq {"bg", "fg", "path", "library"}
  <2>1. CASE MapPath
    BY <1>0, <2>1, StepSignals DEF MapPath, SyscallOutcomes, TypeOK
  <2>2. CASE CallDlopen
    BY <1>0, <2>2, StepSignals DEF CallDlopen, CallOutcomes, TypeOK
  <2>3. CASE UnmapPath
    BY <1>0, <2>3, StepSignals DEF UnmapPath, SyscallOutcomes, TypeOK
  <2>4. CASE RunThread
    <3>1. PICK o \in StepOutcomes(fg.cur, "fg") : signals' = signals + o.sig
      BY <2>4 DEF RunThread, CallOutcomes
    <3>2. UNCHANGED pages
      BY <2>4 DEF RunThread
    <3> QED BY <1>0, <3>1, <3>2, StepSignals DEF TypeOK
  <2>5. CASE ThreadAllocated \/ Hijack \/ TryJoin \/ ReleaseAll
    BY <1>0, <2>5 DEF ThreadAllocated, Hijack, TryJoin, ReleaseAll, kernel, TypeOK
  <2> QED BY <2>1, <2>2, <2>3, <2>4, <2>5
<1> QED BY <1>0, <1>1, <1>2, <1>3, <1>4 DEF TypeOK, Tools

-----------------------------------------------------------------------------
(* The invariant *)

LEMMA InitInv == Init => Inv
<1> SUFFICES ASSUME Init PROVE Inv
  OBVIOUS
<1>0. Main \in Threads /\ Absent \in ThreadType /\ [Absent EXCEPT !.life = "run"] \in ThreadType
  BY ThreadsAssumption DEF Absent, ThreadType, Lives, Whys, Main
<1>1. /\ \A t \in Threads : /\ th[t] \in ThreadType /\ th[t].life \in {"run", "absent"} /\ th[t].by = "none"
                            /\ th[t].dr = "none" /\ ~th[t].unread
      /\ th \in [Threads -> ThreadType]
  BY <1>0 DEF Init, Absent
<1>2. tool \in [{"bg", "fg"} -> ToolType] /\ bg = Idle /\ fg = Idle
  BY IdleType DEF Init, bg, fg
<1>3. TypeOK
  BY <1>1, <1>2 DEF Init, TypeOK
<1>4. SaneInv
  BY <1>1 DEF SaneInv, Sane
<1>5. WorkerInv /\ CallerInv
  BY <1>2 DEF WorkerInv, CallerInv, Idle, WorkerPcs, CallerPcs, Early, Poll, SwPoll, Cleaning, Tracing, Sys, InnerSys, Hijacked
<1>6. SysInv
  BY <1>2 DEF SysInv, SysOf, PatchInv, InnerSys, Idle, Init, bg, fg
<1>7. OwnInv /\ ChildInv
  BY <1>1, <1>2 DEF OwnInv, ChildInv, Idle, Keeping, Early, Poll, SwPoll, Sys, InnerSys
<1>8. ArmedInv /\ HeldInv
  BY <1>1, <1>2 DEF ArmedInv, HeldInv, Idle
<1> QED BY <1>3, <1>4, <1>5, <1>6, <1>7, <1>8 DEF Inv, CleanInv

LEMMA TypeKept == ASSUME Inv, Next PROVE TypeOK'
<1>0. TypeOK /\ Main \in Threads
  BY ThreadFacts
<1>1. CASE Target
  BY <1>0, <1>1, TargetType
<1>2. CASE User \/ Joined \/ End
  BY <1>0, <1>2, UserType
<1>3. CASE Finder /\ ~End
  BY <1>0, <1>3, FinderType, LoopType, ProtectsType DEF Finder
<1>4. CASE Tracer
  BY <1>0, <1>4, TracerType DEF Tracer
<1>5. CASE Injector /\ ~Joined
  BY <1>0, <1>5, InjectorType DEF Injector
<1>6. ASSUME NEW x \in {"bg", "fg"}, RemoteSyscall(x) \/ Seize(x) \/ Interrupt(x) \/ HoldThread(x) PROVE TypeOK'
  BY <1>0, <1>6, SyscallType, SeizingType
<1> QED BY <1>1, <1>2, <1>3, <1>4, <1>5, <1>6 DEF Next

LEMMA CleanStep == ASSUME Inv, Next PROVE CleanInv'
<1>0. TypeOK /\ Main \in Threads
  BY ThreadFacts
<1>1. CASE Target
  BY <1>0, <1>1, TargetKept, CloneKept DEF Target
<1>2. CASE User
  BY <1>2, UserKept
<1>3. CASE Finder
  <2>1. CASE \E w \in Threads : WatchHit(w) \/ PassOn(w) \/ PassFault(w) \/ CloneEvent(w) \/ Exited(w) \/ Fault(w)
    BY <2>1, LoopKept, CloneEventKept, ExitedKept, FaultKept
  <2>2. CASE SeizedAll \/ ArmThread \/ Newborn \/ LeaveLoop \/ CleanThread \/ Release \/ Cleaned \/ End
    BY <2>2, SeizedAllKept, ArmKept, NewbornKept, LeaveKept, CleanKept, ReleaseKept, CleanedKept, EndKept
  <2>3. CASE ListPass \/ PassDone \/ GuardPage \/ Unprotect \/ StepStore \/ Reguard
    BY <2>3, ListKept, PassKept, GuardKept, UnprotectKept, StepStoreKept, ReguardKept
  <2> QED BY <1>3, <2>1, <2>2, <2>3 DEF Finder
<1>4. CASE Tracer
  BY <1>4, RunToStartKept, TraceEventKept, DisarmKept, FreezeKept, FreezeWaitKept, TraceStepKept, DetachKept DEF Tracer
<1>5. CASE Injector
  BY <1>5, UserKept, InjectKept, RunThreadKept, ReleaseAllKept DEF Injector
<1>6. ASSUME NEW x \in {"bg", "fg"}, RemoteSyscall(x) PROVE CleanInv'
  <2>1. CASE SysSeize(x)
    BY <2>1, SysSeizeKept
  <2>2. CASE SysRestore(x)
    BY <2>2, SysRestoreKept
  <2>3. CASE SysInterrupt(x) \/ SysWait(x) \/ SysStep(x)
    BY <2>3, CallerSysKept, WorkerSysKept
  <2> QED BY <1>6, <2>1, <2>2, <2>3 DEF RemoteSyscall
<1>7. ASSUME NEW x \in {"bg", "fg"}, Seize(x) \/ Interrupt(x) \/ HoldThread(x) PROVE CleanInv'
  BY <1>7, SeizeKept, InterruptKept, HoldKept
<1> QED BY <1>1, <1>2, <1>3, <1>4, <1>5, <1>6, <1>7 DEF Next

LEMMA InvStep == Inv /\ [Next]_vars => Inv'
<1>1. CASE Inv /\ Next
  BY <1>1, TypeKept, CleanStep DEF Inv
<1>2. CASE Inv /\ UNCHANGED vars
  <2>1. TypeOK'
    BY <1>2 DEF Inv, TypeOK, vars
  <2>2. CleanInv'
    BY <1>2 DEF Inv, CleanInv, SaneInv, WorkerInv, CallerInv, SysInv, SysOf, PatchInv, OwnInv, ChildInv, ArmedInv,
       HeldInv, vars, bg, fg
  <2> QED BY <2>1, <2>2 DEF Inv
<1> QED BY <1>1, <1>2

LEMMA Throughout == Spec => []Inv
BY InitInv, InvStep, PTL DEF Spec

\* Every variable keeps its type, whatever ptrace calls of the finders (code_finder.cpp),
\* of the tracer (tracer.cpp) and of the GUI thread's remote calls (linux_process.cpp,
\* injector.cpp) follow one another.
THEOREM TypeCorrect == Spec => []TypeOK
<1>1. Inv => TypeOK
  BY DEF Inv
<1> QED BY <1>1, Throughout, PTL

\* When the worker has returned and the GUI thread is back from its call, no instruction
\* of the target is left overwritten, no thread stopped or traced, and no watchpoint of a
\* finder armed: the cleanup of CodeFinder, remoteSyscall's restore and the injector's
\* guard let go of all that was seized, whatever failed, exited or was created meanwhile.
THEOREM ToolsLeaveClean == Spec => []LeftClean
<1>1. Inv => LeftClean
  <2> SUFFICES ASSUME Inv, bg.pc = "idle", fg.pc = "idle"
               PROVE  ~patched /\ \A t \in Listed : th[t].life = "run" /\ th[t].by = "none" /\ th[t].dr # "hw"
    BY DEF LeftClean
  <2>1. ~patched
    BY DEF Inv, CleanInv, SysInv, PatchInv
  <2>2. ASSUME NEW t \in Listed PROVE th[t].life = "run" /\ th[t].by = "none" /\ th[t].dr # "hw"
    <3>1. t \in Threads /\ Live(th[t]) /\ th[t] \in ThreadType /\ Sane(th[t])
      BY ThreadFacts DEF Listed, Live
    <3>2. th[t].by # "bg"
      BY <3>1 DEF Inv, CleanInv, OwnInv
    <3>3. th[t].by # "fg"
      BY <3>1 DEF Inv, CleanInv, HeldInv, InnerSys, Early, Hijacked
    <3>4. th[t].by = "none"
      BY <3>1, <3>2, <3>3 DEF ThreadType
    <3> QED BY <3>1, <3>4 DEF Inv, CleanInv, ArmedInv, Sane, Live
  <2> QED BY <2>1, <2>2
<1> QED BY <1>1, Throughout, PTL

-----------------------------------------------------------------------------
(* Hits *)

\* The worker's kind changes only when it is started and when it ends.
LEMMA KindKept == ASSUME Inv, Next, \A k \in Finders : ~Start(k) PROVE bg'.kind \in {bg.kind, "none"}
<1>0. TypeOK /\ Main \in Threads /\ WorkerInv /\ CallerInv
  BY ThreadFacts
<1>1. CASE Target
  BY <1>1 DEF Target, ProcessExit, Touch, ReachStart, Clone, Signal, ThreadExit, bg
<1>2. CASE User \/ Joined
  BY <1>0, <1>2 DEF User, Stop, Call, Joined, TypeOK, bg
<1>3. CASE End
  BY <1>0, <1>3 DEF End, TypeOK, bg, Idle
<1>4. CASE Finder /\ ~End
  <2>1. ASSUME NEW w \in Threads, WatchHit(w) \/ PassOn(w) \/ PassFault(w) PROVE bg' = bg
    BY <2>1 DEF WatchHit, PassOn, PassFault, bg
  <2> QED BY <1>0, <1>4, <2>1, SeizedAllTool, ArmTool, CloneEventTool, NewbornTool, ExitedTool, LeaveTool,
     CleanTool, ReleaseTool, CleanedTool, ListTool, PassTool, GuardTool, FaultTool, UnprotectTool, StepStoreTool,
     ReguardTool DEF Finder
<1>5. CASE Tracer
  BY <1>0, <1>5, RunTool, TraceEventTool, DisarmTool, FreezeTool, FreezeWaitTool, TraceStepTool, DetachTool DEF Tracer
<1>6. CASE Injector /\ ~Joined
  <2>1. Hijack => fg.kind \in {"inject", "thread"}
    BY <1>0 DEF Hijack, CallerInv, Early
  <2> QED BY <1>0, <1>6, <2>1, AllocatedTool, HijackTool, InjectTool, ThreadTool, ReleaseAllTool DEF Injector
<1>7. ASSUME NEW x \in {"bg", "fg"}, RemoteSyscall(x) PROVE bg'.kind \in {bg.kind, "none"}
  <2>1. tool[x] \in ToolType
    BY <1>0, Threads1
  <2>2. ASSUME NEW ok \in BOOLEAN, Return(x, ok) PROVE bg'.kind \in {bg.kind, "none"}
    <3>1. /\ tool'[x] = IF tool[x].ret = "idle" THEN Idle ELSE [tool[x] EXCEPT !.pc = tool[x].ret, !.ok = ok]
          /\ \A y \in {"bg", "fg"} \ {x} : tool'[y] = tool[y]
      BY <1>0, <2>2, ReturnType
    <3>2. tool'[x].kind \in {tool[x].kind, "none"}
      BY <2>1, <3>1 DEF Idle, ToolType
    <3> QED BY <3>1, <3>2 DEF bg
  <2>3. CASE SysSeize(x)
    <3>1. ASSUME Goto(x, "sys_interrupt") PROVE bg'.kind = bg.kind
      BY <1>0, <3>1 DEF Goto, TypeOK, ToolType, bg
    <3> QED BY <2>2, <2>3, <3>1 DEF SysSeize
  <2>4. CASE SysRestore(x)
    BY <2>1, <2>2, <2>4 DEF SysRestore, ToolType
  <2>5. CASE SysInterrupt(x) \/ SysWait(x) \/ SysStep(x)
    BY <2>2, <2>5, SysTool DEF bg
  <2> QED BY <1>7, <2>3, <2>4, <2>5 DEF RemoteSyscall
<1>8. ASSUME NEW x \in {"bg", "fg"}, Seize(x) \/ Interrupt(x) \/ HoldThread(x) PROVE bg'.kind = bg.kind
  <2>1. tool'[x].kind = tool[x].kind /\ \A y \in {"bg", "fg"} \ {x} : tool'[y] = tool[y]
    BY <1>0, <1>8, SeizeTool, InterruptTool, HoldTool
  <2> QED BY <2>1 DEF bg
<1> QED BY <1>1, <1>2, <1>3, <1>4, <1>5, <1>6, <1>7, <1>8 DEF Next, User

LEMMA SilentPending == ASSUME Silent PROVE Pending' \subseteq Pending
BY DEF Silent, Quiet, Pending

\* A step reports an access, or it does not.
LEMMA PendingShrinks ==
    ASSUME Inv, Next
    PROVE  \/ Pending' \subseteq Pending
           \/ \E t \in Threads : touches' = touches + 1 /\ Pending' \subseteq Pending \cup {t} /\ UNCHANGED <<hits, tool>>
<1>0. /\ TypeOK /\ SaneInv /\ Main \in Threads /\ bg.cur \in Threads
      /\ \A t \in Threads : th[t] \in ThreadType /\ Sane(th[t])
  BY ThreadFacts
<1>1. ASSUME NEW t \in Threads,
             ProcessExit \/ Touch(t, FALSE) \/ Touch(t, TRUE) \/ ReachStart(t) \/ Signal(t) \/ ThreadExit(t), ~Silent
      PROVE  touches' = touches + 1 /\ Pending' \subseteq Pending \cup {t} /\ UNCHANGED <<hits, tool>>
  <2>1. touches' = touches + 1 /\ th' = [th EXCEPT ![t] = StoppedFor(th[t], "hit")]
    BY <1>1, TargetGentle
  <2>2. \A u \in Threads \ {t} : th'[u] = th[u]
    BY <1>0, <2>1 DEF TypeOK
  <2>3. UNCHANGED <<hits, tool>>
    BY <1>1 DEF ProcessExit, Touch, ReachStart, Signal, ThreadExit
  <2> QED BY <2>1, <2>2, <2>3 DEF Pending
<1>2. ASSUME NEW t \in Threads, Clone(t) PROVE Pending' \subseteq Pending
  <2>1. PICK c \in Threads :
          /\ th[c].life = "absent"
          /\ th' = IF Follows(t)
                   THEN [th EXCEPT ![t] = [StoppedFor(@, "clone") EXCEPT !.child = c],
                                   ![c] = [StoppedFor(@, "born") EXCEPT !.by = th[t].by]]
                   ELSE [th EXCEPT ![c].life = "run"]
    BY <1>2 DEF Clone
  <2>2. CASE Follows(t)
    <3>1. Followed(t, c)
      BY <1>2, <2>1, <2>2 DEF Clone, Followed
    <3> QED BY <3>1, FollowedFacts DEF Pending
  <2>3. CASE ~Follows(t)
    <3>1. \A u \in Threads \ {c} : th'[u] = th[u]
      BY <1>0, <2>1, <2>3 DEF TypeOK
    <3>2. th'[c].life = "run"
      BY <1>0, <2>1, <2>3 DEF TypeOK, ThreadType
    <3> QED BY <3>1, <3>2 DEF Pending
  <2> QED BY <2>2, <2>3
<1>3. ASSUME \/ ThreadAllocated \/ Hijack \/ TryJoin \/ Joined \/ User \/ MapPath \/ CallDlopen \/ UnmapPath
      PROVE  Pending' \subseteq Pending
  BY <1>3, InjectGentle, SilentPending
<1>4. ASSUME NEW w \in Threads,
             \/ SeizedAll \/ WatchHit(w) \/ PassOn(w) \/ PassFault(w) \/ CloneEvent(w) \/ Exited(w) \/ LeaveLoop
             \/ CleanThread \/ Cleaned \/ ListPass \/ PassDone \/ GuardPage \/ Fault(w)
             \/ Unprotect \/ StepStore \/ Reguard
      PROVE  Pending' \subseteq Pending
  BY <1>4, FinderGentle, SilentPending
<1>5. CASE ArmThread \/ Newborn
  BY <1>5, ArmAlike, NewbornAlike, SilentPending
<1>6. ASSUME NEW w \in Threads, RunToStart \/ TraceEvent(w) \/ Disarm \/ Freeze \/ FreezeWait \/ TraceStep
      PROVE  Pending' \subseteq Pending
  BY <1>6, TracerGentle, SilentPending
<1>7. CASE Release
  <2> DEFINE t == bg.cur
             r == IF bg.kind = "sw" THEN th[t] ELSE [th[t] EXCEPT !.dr = "none"]
             s == IF th[t].life = "stop" THEN Freed(r) ELSE Reaped(th[t])
  <2>1. th' = [th EXCEPT ![t] = s]
    BY <1>0, <1>7 DEF Release, TypeOK
  <2>2. r \in ThreadType
    BY <1>0 DEF ThreadType
  <2>3. s.life # "stop"
    <3> HIDE DEF r
    <3> QED BY <1>0, <2>2, FreedType, ReapedType
  <2> HIDE DEF s
  <2>4. th'[t] = s /\ \A u \in Threads \ {t} : th'[u] = th[u]
    BY <1>0, <2>1 DEF TypeOK
  <2> QED BY <2>3, <2>4 DEF Pending
<1>8. CASE End \/ DetachAll \/ ReleaseAll
  <2>1. \A t \in Threads : th'[t] = th[t] \/ th'[t] = Freed(th[t])
    BY <1>8 DEF End, DetachAll, ReleaseAll
  <2> QED BY <1>0, <2>1, FreedType DEF Pending
<1>9. ASSUME NEW x \in {"bg", "fg"}, SysInterrupt(x) \/ SysWait(x) \/ SysStep(x) \/ Interrupt(x) \/ HoldThread(x)
      PROVE  Pending' \subseteq Pending
  BY <1>9, CallGentle, SilentPending
<1>10. ASSUME NEW x \in {"bg", "fg"}, SysSeize(x) PROVE Pending' \subseteq Pending
  <2>1. Taken(Main, x) \/ UNCHANGED th
    BY <1>10 DEF SysSeize, Taken
  <2> QED BY <1>0, <2>1, TakenFacts DEF Pending
<1>11. ASSUME NEW x \in {"bg", "fg"}, SysRestore(x) PROVE Pending' \subseteq Pending
  <2>1. \A t \in Threads : th'[t] = th[t] \/ th'[t] = Freed(th[t])
    BY <1>0, <1>11 DEF SysRestore, TypeOK
  <2> QED BY <1>0, <2>1, FreedType DEF Pending
<1>12. ASSUME NEW x \in {"bg", "fg"}, Seize(x) PROVE Pending' \subseteq Pending
  <2>1. Taken(Min(tool[x].todo), x) \/ UNCHANGED th
    BY <1>12 DEF Seize, Taken
  <2>2. Min(tool[x].todo) \in Threads
    BY <1>0, <1>12, SeizeTool, Threads1 DEF ToolType
  <2> QED BY <2>1, <2>2, TakenFacts DEF Pending
<1>13. CASE RunThread
  <2>1. CASE Gentle /\ Silent
    BY <2>1, SilentPending
  <2>2. ASSUME NEW c \in Threads, Birth(c), th' = [th EXCEPT ![fg.cur] = Stepped(@), ![c].life = "run"]
        PROVE  Pending' \subseteq Pending
    <3>1. /\ th'[c].life = "run" /\ Stepped(th[fg.cur]) \in ThreadType
          /\ Stepped(th[fg.cur]).life = th[fg.cur].life /\ Stepped(th[fg.cur]).why = th[fg.cur].why
      BY <1>0, <2>2, BirthFacts, SteppedType, Threads1
    <3>2. \A u \in Threads \ {c} : th'[u] = th[u] \/ (u = fg.cur /\ th'[u] = Stepped(th[u]))
      BY <1>0, <2>2 DEF TypeOK
    <3> QED BY <3>1, <3>2 DEF Pending
  <2> QED BY <1>13, <2>1, <2>2, RunThreadBirth
<1>14. CASE Target
  BY <1>0, <1>1, <1>2, <1>14, SilentPending DEF Target
<1>15. CASE Finder
  BY <1>0, <1>4, <1>5, <1>7, <1>8, <1>15 DEF Finder
<1>16. CASE Tracer
  BY <1>0, <1>6, <1>8, <1>16 DEF Tracer
<1>17. CASE Injector
  BY <1>3, <1>8, <1>13, <1>17 DEF Injector
<1>18. ASSUME NEW x \in {"bg", "fg"}, RemoteSyscall(x) \/ Seize(x) \/ Interrupt(x) \/ HoldThread(x)
       PROVE  Pending' \subseteq Pending
  BY <1>9, <1>10, <1>11, <1>12, <1>18 DEF RemoteSyscall
<1> QED BY <1>3, <1>14, <1>15, <1>16, <1>17, <1>18 DEF Next

LEMMA Counters ==
    ASSUME Inv, Next, \A k \in Finders : ~Start(k), \A w \in Threads : ~WatchHit(w), bg.kind \in {"hw", "st"}
    PROVE  hits' = hits /\ touches' \in Nat /\ touches' >= touches
<1>0. TypeOK /\ WorkerInv
  BY ThreadFacts
<1>1. CASE Target
  <2>1. UNCHANGED hits
    BY <1>1 DEF Target, ProcessExit, Touch, ReachStart, Clone, Signal, ThreadExit
  <2>2. touches' \in {touches, touches + 0, touches + 1}
    BY <1>1 DEF Target, ProcessExit, Touch, ReachStart, Clone, Signal, ThreadExit
  <2> QED BY <1>0, <2>1, <2>2 DEF TypeOK
<1>2. CASE ~Target
  <2>1. UNCHANGED <<hits, touches>>
    <3>1. CASE User \/ Joined
      BY <3>1 DEF User, Stop, Call, Joined, Tools
    <3>2. CASE Finder
      <4>1. ~(bg.kind = "sw") /\ bg.pc \notin SwPoll
        BY <1>0 DEF WorkerInv
      <4>2. ~StepStore /\ \A w \in Threads : ~Fault(w)
        BY <4>1 DEF StepStore, Fault, SwPoll
      <4> QED BY <3>2, <4>2 DEF Finder, SeizedAll, ArmThread, CloneEvent, Newborn, Exited, LeaveLoop, CleanThread,
         Release, Cleaned, End, PassOn, PassFault, ListPass, PassDone, GuardPage, Unprotect, Reguard, Tools
    <3>3. CASE Tracer
      BY <3>3 DEF Tracer, RunToStart, TraceEvent, Disarm, Freeze, FreezeWait, TraceStep, DetachAll, Tools
    <3>4. CASE Injector /\ ~Joined
      BY <3>4 DEF Injector, ThreadAllocated, Hijack, MapPath, CallDlopen, UnmapPath, RunThread, TryJoin, ReleaseAll, Tools
    <3>5. ASSUME NEW x \in {"bg", "fg"}, RemoteSyscall(x) \/ Seize(x) \/ Interrupt(x) \/ HoldThread(x)
          PROVE  UNCHANGED <<hits, touches>>
      BY <3>5 DEF RemoteSyscall, SysSeize, SysInterrupt, SysWait, SysStep, SysRestore, Seize, Interrupt, HoldThread, Tools
    <3> QED BY <1>2, <3>1, <3>2, <3>3, <3>4, <3>5 DEF Next
  <2> QED BY <1>0, <2>1 DEF TypeOK
<1> QED BY <1>1, <1>2

LEMMA CountStep == ASSUME Inv, CountInv, Next PROVE CountInv'
<1>0. /\ TypeOK /\ SaneInv /\ OwnInv /\ hits \in Nat /\ touches \in Nat
      /\ \A t \in Threads : th[t] \in ThreadType /\ Sane(th[t])
  BY ThreadFacts DEF Inv, CleanInv, TypeOK
<1>1. CASE \E k \in Finders : Start(k)
  <2>1. bg = Idle /\ hits' = 0 /\ touches' = 0 /\ UNCHANGED th
    BY <1>1 DEF Start
  <2>2. Pending = {}
    BY <1>0, <2>1 DEF Pending, Sane, OwnInv, Idle
  <2>3. Pending' = {}
    BY <2>1, <2>2 DEF Pending
  <2> QED BY <2>1, <2>3, FS_EmptySet DEF CountInv
<1>2. CASE \E w \in Threads : WatchHit(w)
  <2>1. PICK w \in Threads : WatchHit(w)
    BY <1>2
  <2>2. /\ w \in Pending /\ hits' = hits + 1 /\ UNCHANGED <<tool, touches>> /\ Stopped(w, "bg")
        /\ th' = [th EXCEPT ![w] = Resumed(Reaped(th[w]))]
    BY <1>0, <2>1 DEF WatchHit, RecordHit, Continue, Pending, Stopped, Sane
  <2>3. Pending' \subseteq Pending \ {w}
    <3>1. Reaped(th[w]) \in ThreadType
      BY <1>0, ReapedType
    <3>2. Resumed(Reaped(th[w])).why \in {"none", "intr"}
      BY <3>1, ResumedType
    <3>3. th'[w] = Resumed(Reaped(th[w])) /\ \A u \in Threads \ {w} : th'[u] = th[u]
      BY <1>0, <2>2 DEF TypeOK
    <3> QED BY <3>2, <3>3 DEF Pending
  <2> SUFFICES ASSUME bg.kind \in {"hw", "st"}
               PROVE  IsFiniteSet(Pending') /\ hits' + Cardinality(Pending') <= touches'
    BY <2>2 DEF CountInv, bg
  <2>4. IsFiniteSet(Pending) /\ hits + Cardinality(Pending) <= touches
    BY DEF CountInv
  <2>5. IsFiniteSet(Pending \ {w}) /\ Cardinality(Pending \ {w}) = Cardinality(Pending) - 1
    BY <2>2, <2>4, FS_RemoveElement
  <2>6. IsFiniteSet(Pending') /\ Cardinality(Pending') <= Cardinality(Pending \ {w})
    BY <2>3, <2>5, FS_Subset
  <2>7. Cardinality(Pending) \in Nat /\ Cardinality(Pending') \in Nat
    BY <2>4, <2>6, FS_CardinalityType
  <2> QED BY <1>0, <2>2, <2>4, <2>5, <2>6, <2>7
<1>3. CASE ~(\E k \in Finders : Start(k)) /\ ~(\E w \in Threads : WatchHit(w))
  <2> SUFFICES ASSUME bg'.kind \in {"hw", "st"}
               PROVE  IsFiniteSet(Pending') /\ hits' + Cardinality(Pending') <= touches'
    BY DEF CountInv
  <2>1. bg.kind \in {"hw", "st"}
    BY <1>3, KindKept
  <2>2. hits' = hits /\ touches' \in Nat /\ touches' >= touches
    BY <1>3, <2>1, Counters
  <2>3. IsFiniteSet(Pending) /\ hits + Cardinality(Pending) <= touches /\ Cardinality(Pending) \in Nat
    BY <2>1, FS_CardinalityType DEF CountInv
  <2>4. CASE Pending' \subseteq Pending
    <3>1. IsFiniteSet(Pending') /\ Cardinality(Pending') <= Cardinality(Pending)
      BY <2>3, <2>4, FS_Subset
    <3>2. Cardinality(Pending') \in Nat
      BY <3>1, FS_CardinalityType
    <3> QED BY <1>0, <2>2, <2>3, <3>1, <3>2
  <2>5. ASSUME NEW t \in Threads, touches' = touches + 1, Pending' \subseteq Pending \cup {t}
        PROVE  IsFiniteSet(Pending') /\ hits' + Cardinality(Pending') <= touches'
    <3>1. IsFiniteSet(Pending \cup {t}) /\ Cardinality(Pending \cup {t}) <= Cardinality(Pending) + 1
      <4>1. /\ IsFiniteSet(Pending \cup {t})
            /\ Cardinality(Pending \cup {t}) = Cardinality(Pending) \/ Cardinality(Pending \cup {t}) = Cardinality(Pending) + 1
        BY <2>3, FS_AddElement
      <4> QED BY <2>3, <4>1
    <3>2. IsFiniteSet(Pending') /\ Cardinality(Pending') <= Cardinality(Pending \cup {t})
      BY <2>5, <3>1, FS_Subset
    <3>3. Cardinality(Pending') \in Nat /\ Cardinality(Pending \cup {t}) \in Nat
      BY <3>1, <3>2, FS_CardinalityType
    <3> QED BY <1>0, <2>2, <2>3, <2>5, <3>1, <3>2, <3>3
  <2> QED BY <2>4, <2>5, PendingShrinks
<1> QED BY <1>1, <1>2, <1>3

\* A hardware finder (monitorLoop) records no more hits than the watched bytes had
\* accesses: every recorded hit is a trap of its own watchpoint, reported once, whatever
\* traps, births, interrupts and signals waitpid returns in between.
THEOREM HitsCounted == Spec => []HitsAreAccesses
<1>1. Init => CountInv
  BY DEF Init, CountInv, Idle, bg
<1>2. Inv /\ Inv' /\ CountInv /\ [Next]_vars => CountInv'
  <2>1. CASE Inv /\ CountInv /\ Next
    BY <2>1, CountStep
  <2>2. CASE CountInv /\ UNCHANGED vars
    BY <2>2 DEF CountInv, Pending, vars, bg
  <2> QED BY <2>1, <2>2
<1>3. Inv /\ CountInv => HitsAreAccesses
  <2> SUFFICES ASSUME Inv, CountInv, bg.kind \in {"hw", "st"} PROVE hits <= touches
    BY DEF HitsAreAccesses
  <2>1. hits \in Nat /\ touches \in Nat
    BY DEF Inv, TypeOK
  <2>2. IsFiniteSet(Pending) /\ hits + Cardinality(Pending) <= touches
    BY DEF CountInv
  <2>3. Cardinality(Pending) \in Nat
    BY <2>2, FS_CardinalityType
  <2> QED BY <2>1, <2>2, <2>3
<1> QED BY <1>1, <1>2, <1>3, Throughout, PTL DEF Spec

-----------------------------------------------------------------------------
(* The passes of the software finder *)

\* Where the invariant of the passes says something.
Passing == {"sw_list", "seize", "await"} \cup Watching

LEMMA PassElsewhere == ASSUME bg'.kind # "sw" \/ bg'.pc \notin Passing PROVE PassInv'
BY DEF PassInv, Passing

\* The worker does nothing, and no thread escapes it.
LEMMA PassFrame ==
    ASSUME Inv, PassInv, bg' = bg, bg.kind = "sw" /\ bg.pc \in Passing /\ Covered => Covered',
           \A u \in Threads : th[u].by # "bg" /\ th[u].life # "absent" => th'[u].by # "bg" /\ th'[u].life # "absent"
    PROVE  PassInv'
<1>0. bg.todo \subseteq Threads
  BY ThreadFacts, Threads1
<1> SUFFICES ASSUME bg.kind = "sw"
             PROVE  /\ bg.pc = "sw_list" => IsFiniteSet(bg.held) /\ Cardinality(bg.held) >= bg.n
                    /\ bg.pc = "seize" => /\ IsFiniteSet(bg.held) /\ bg.n >= 1 /\ Cardinality(bg.held) >= bg.n - 1
                                          /\ bg.ok => Cardinality(bg.held) >= bg.n
                                          /\ ~bg.ok /\ ~bg.failed =>
                                               Covered' \/ \E t \in bg.todo : th'[t].by # "bg" /\ th'[t].life # "absent"
                    /\ bg.pc \in Watching \cup {"await"} /\ ~bg.failed => Covered'
  BY DEF PassInv
<1>1. CASE bg.pc \in Passing
  BY <1>0, <1>1 DEF PassInv, Passing
<1>2. CASE bg.pc \notin Passing
  BY <1>2 DEF Passing
<1> QED BY <1>1, <1>2

LEMMA CoveredKept ==
    ASSUME Inv, AllAlike
    PROVE  /\ Covered => Covered'
           /\ \A u \in Threads : th[u].by # "bg" /\ th[u].life # "absent" => th'[u].by # "bg" /\ th'[u].life # "absent"
BY DEF AllAlike, Alike, Covered

\* The worker goes on watching.
LEMMA PassWatch ==
    ASSUME Inv, PassInv, AllAlike, bg.kind = "sw", bg.pc \in Watching \cup {"await"},
           bg'.pc \notin {"sw_list", "seize"}, bg'.failed = bg.failed
    PROVE  PassInv'
<1>1. ~bg.failed => Covered'
  BY CoveredKept DEF PassInv
<1> QED BY <1>1 DEF PassInv

LEMMA PassTarget == ASSUME Inv, PassInv, Target PROVE PassInv'
<1>0. bg' = bg
  BY DEF Target, ProcessExit, Touch, ReachStart, Clone, Signal, ThreadExit, bg
<1>1. ASSUME NEW t \in Threads,
             ProcessExit \/ Touch(t, FALSE) \/ Touch(t, TRUE) \/ ReachStart(t) \/ Signal(t) \/ ThreadExit(t)
      PROVE  PassInv'
  BY <1>0, <1>1, TargetGentle, SaneKept, CoveredKept, PassFrame
<1>2. ASSUME NEW t \in Threads, Clone(t) PROVE PassInv'
  <2>0. TypeOK
    BY DEF Inv
  <2>1. PICK c \in Threads :
          /\ th[c].life = "absent"
          /\ th' = IF Follows(t)
                   THEN [th EXCEPT ![t] = [StoppedFor(@, "clone") EXCEPT !.child = c],
                                   ![c] = [StoppedFor(@, "born") EXCEPT !.by = th[t].by]]
                   ELSE [th EXCEPT ![c].life = "run"]
    BY <1>2 DEF Clone
  <2>2. CASE Follows(t)
    <3>1. Followed(t, c)
      BY <1>2, <2>1, <2>2 DEF Clone, Followed
    <3>2. /\ th[c].life = "absent" /\ th[t].by = "bg" /\ th'[t].by = "bg" /\ th'[c].by = "bg"
          /\ \A u \in Threads \ {t, c} : th'[u] = th[u]
      BY <3>1, FollowedFacts
    <3>3. Covered => Covered'
      BY <3>2 DEF Covered
    <3> QED BY <1>0, <3>2, <3>3, PassFrame
  <2>3. CASE ~Follows(t)
    <3>1. \A u \in Threads \ {c} : th'[u] = th[u]
      BY <2>0, <2>1, <2>3 DEF TypeOK
    <3>2. ~(bg.kind = "sw" /\ bg.pc \in Passing /\ Covered)
      <4>1. Live(th[t])
        BY <1>2 DEF Clone, Running, Live
      <4> QED BY <2>3, <4>1 DEF Covered, Follows, Passing, Watching
    <3> QED BY <1>0, <2>1, <3>1, <3>2, PassFrame
  <2> QED BY <2>2, <2>3
<1> QED BY <1>1, <1>2, ThreadFacts DEF Target

\* The steps of the GUI thread.
LEMMA PassLetting == ASSUME Inv, PassInv, Letting("fg"), bg' = bg PROVE PassInv'
<1>1. \A t \in Threads : /\ th[t].by = "bg" => Same(th[t], th'[t])
                         /\ th'[t].by \in {"none", th[t].by}
                         /\ Live(th'[t]) => Live(th[t])
                         /\ (th'[t].life = "absent") = (th[t].life = "absent")
  BY LettingFacts
<1>2. Covered => Covered'
  BY <1>1 DEF Covered, Same, Alike
<1> QED BY <1>1, <1>2, PassFrame

LEMMA PassTaken == ASSUME Inv, PassInv, NEW t \in Threads, Taken(t, "fg"), bg' = bg PROVE PassInv'
<1>1. /\ th[t].by = "none" /\ th[t].life = "run" /\ th'[t].by = "fg" /\ th'[t].life = "run"
      /\ \A u \in Threads \ {t} : th'[u] = th[u]
  BY TakenFacts
<1>2. ~Covered
  BY <1>1 DEF Covered, Live
<1> QED BY <1>1, <1>2, PassFrame

LEMMA PassInjector == ASSUME Inv, PassInv, Injector PROVE PassInv'
<1>0. /\ TypeOK /\ CallerInv /\ fg.cur \in Threads
      /\ \A t \in Threads : th[t] \in ThreadType /\ Sane(th[t])
  BY ThreadFacts
<1>1. CASE ThreadAllocated \/ Hijack \/ MapPath \/ CallDlopen \/ UnmapPath \/ TryJoin \/ Joined
  <2>1. bg' = bg
    <3>1. CASE Joined
      BY <1>0, <3>1 DEF Joined, TypeOK, bg
    <3>2. CASE Hijack
      <4>1. fg.kind \in {"inject", "thread"}
        BY <1>0, <3>2 DEF Hijack, CallerInv, Early
      <4> QED BY <1>0, <3>2, <4>1, HijackTool
    <3> QED BY <1>0, <1>1, <3>1, <3>2, AllocatedTool, InjectTool, ThreadTool
  <2> QED BY <1>1, <2>1, InjectGentle, SaneKept, CoveredKept, PassFrame
<1>2. CASE ReleaseAll
  <2>1. Letting("fg")
    <3>1. ASSUME NEW t \in Threads PROVE th'[t] \in ThreadType /\ LetGo(th[t], th'[t], "fg")
      <4>1. th'[t] = th[t] \/ (th'[t] = Freed(th[t]) /\ th[t].by = "fg")
        BY <1>2, <3>1 DEF ReleaseAll, Stopped
      <4>2. Same(th[t], th[t])
        BY <1>0, <3>1, SameItself
      <4> QED BY <1>0, <3>1, <4>1, <4>2, FreedLetGo, FreedType DEF LetGo
    <3>2. th' \in [Threads -> ThreadType]
      BY <1>2, <3>1 DEF ReleaseAll
    <3> QED BY <3>1, <3>2 DEF Letting
  <2>2. bg' = bg
    BY <1>0, <1>2, ReleaseAllTool
  <2> QED BY <2>1, <2>2, PassLetting
<1>3. CASE RunThread
  <2>1. bg' = bg
    BY <1>0, <1>3, ThreadTool
  <2>2. PICK o \in StepOutcomes(fg.cur, "fg"), c \in Threads :
          th' = IF o.exec /\ th[c].life = "absent" THEN [th EXCEPT ![fg.cur] = Stepped(@), ![c].life = "run"]
                                                   ELSE [th EXCEPT ![fg.cur] = Stepped(@)]
    BY <1>3 DEF RunThread, CallOutcomes
  <2>3. Stepped(th[fg.cur]).by = th[fg.cur].by /\ Stepped(th[fg.cur]).life = th[fg.cur].life
    BY <1>0, SteppedType
  <2>4. CASE o.exec /\ th[c].life = "absent"
    <3>1. th[fg.cur].life = "stop" /\ th[fg.cur].by = "fg" /\ c # fg.cur
      BY <2>2, <2>4 DEF StepOutcomes, Stopped
    <3>2. ~Covered
      BY <1>0, <3>1 DEF Covered, Live
    <3>3. th'[fg.cur] = Stepped(th[fg.cur]) /\ \A u \in Threads \ {c, fg.cur} : th'[u] = th[u]
      BY <1>0, <2>2, <2>4, <3>1 DEF TypeOK
    <3> QED BY <2>1, <2>3, <2>4, <3>1, <3>2, <3>3, PassFrame
  <2>5. CASE ~(o.exec /\ th[c].life = "absent")
    <3>1. th'[fg.cur] = Stepped(th[fg.cur]) /\ \A u \in Threads \ {fg.cur} : th'[u] = th[u]
      BY <1>0, <2>2, <2>5 DEF TypeOK
    <3>2. Covered => Covered'
      BY <2>3, <3>1 DEF Covered, Live
    <3> QED BY <2>1, <2>3, <3>1, <3>2, PassFrame
  <2> QED BY <2>4, <2>5
<1> QED BY <1>1, <1>2, <1>3 DEF Injector

LEMMA PassCaller ==
    ASSUME Inv, PassInv, RemoteSyscall("fg") \/ Seize("fg") \/ Interrupt("fg") \/ HoldThread("fg")
    PROVE  PassInv'
<1>0. TypeOK /\ Main \in Threads /\ SaneInv /\ fg \in ToolType
  BY ThreadFacts, Threads1
<1>1. bg' = bg
  <2>1. CASE Seize("fg") \/ Interrupt("fg") \/ HoldThread("fg")
    BY <1>0, <2>1, SeizeTool, InterruptTool, HoldTool DEF bg
  <2>2. CASE SysInterrupt("fg") \/ SysWait("fg") \/ SysStep("fg")
    BY <1>0, <2>2, SysTool, ReturnType DEF bg
  <2>3. CASE SysSeize("fg") \/ SysRestore("fg")
    <3>1. fg.ok \in BOOLEAN
      BY <1>0 DEF ToolType
    <3>2. Goto("fg", "sys_interrupt") \/ Return("fg", FALSE) \/ Return("fg", fg.ok)
      BY <2>3 DEF SysSeize, SysRestore, fg
    <3> QED BY <1>0, <3>1, <3>2, ReturnType DEF Goto, TypeOK, bg
  <2> QED BY <2>1, <2>2, <2>3 DEF RemoteSyscall
<1>2. CASE SysInterrupt("fg") \/ SysWait("fg") \/ SysStep("fg") \/ Interrupt("fg") \/ HoldThread("fg")
  BY <1>1, <1>2, CallGentle, SaneKept, CoveredKept, PassFrame
<1>3. CASE UNCHANGED th
  BY <1>0, <1>1, <1>3, PassFrame DEF Covered
<1>4. ASSUME SysSeize("fg") \/ Seize("fg") PROVE PassInv'
  <2>1. (\E t \in Threads : Taken(t, "fg")) \/ UNCHANGED th
    <3>1. CASE SysSeize("fg")
      BY <1>0, <3>1 DEF SysSeize, Taken
    <3>2. CASE Seize("fg")
      <4>1. Min(fg.todo) \in Threads
        BY <1>0, <3>2, SeizeTool DEF ToolType, fg
      <4> QED BY <3>2, <4>1 DEF Seize, Taken, fg
    <3> QED BY <1>4, <3>1, <3>2
  <2> QED BY <1>1, <1>3, <2>1, PassTaken
<1>5. CASE SysRestore("fg")
  <2>1. \A t \in Threads : th'[t] = th[t] \/ (th'[t] = Freed(th[t]) /\ th[t].by = "fg")
    BY <1>0, <1>5 DEF SysRestore, Stopped, TypeOK
  <2>2. \A t \in Threads : /\ th[t] \in ThreadType /\ Freed(th[t]).by = "none"
                           /\ (Freed(th[t]).life = "absent") = (th[t].life = "absent")
                           /\ Live(Freed(th[t])) => Live(th[t])
    BY ThreadFacts, FreedType DEF Live
  <2>3. Covered => Covered'
    BY <2>1, <2>2 DEF Covered
  <2> QED BY <1>1, <2>1, <2>2, <2>3, PassFrame
<1> QED BY <1>2, <1>4, <1>5 DEF RemoteSyscall

\* A pass over the thread list begins.
LEMMA PassList == ASSUME Inv, PassInv, ListPass PROVE PassInv'
<1>0. TypeOK /\ OwnInv /\ bg \in ToolType /\ WorkerInv
  BY Threads1 DEF Inv, CleanInv
<1>1. bg.pc = "sw_list" /\ bg.kind = "sw" /\ UNCHANGED th
  BY <1>0 DEF ListPass, WorkerInv
<1>2. CASE bg.n = 0 /\ ~bg.ok
  BY <1>0, <1>2, ListTool, PassElsewhere DEF Passing, Watching
<1>3. CASE ~(bg.n = 0 /\ ~bg.ok)
  <2>1. /\ bg'.pc = "seize" /\ bg'.held = bg.held /\ bg'.n = bg.n + 1 /\ ~bg'.ok
        /\ bg'.todo = Listed \ bg.held /\ bg.n \in Nat
    BY <1>0, <1>3, ListTool DEF ToolType
  <2>2. IsFiniteSet(bg.held) /\ Cardinality(bg.held) >= bg.n /\ Cardinality(bg.held) \in Nat
    BY <1>1, FS_CardinalityType DEF PassInv
  <2>3. Covered' \/ \E t \in bg'.todo : th'[t].by # "bg" /\ th'[t].life # "absent"
    <3> SUFFICES ASSUME NEW t \in Threads, Live(th[t]), th[t].by # "bg"
                 PROVE  t \in Listed \ bg.held /\ th[t].life # "absent"
      BY <1>1, <2>1 DEF Covered
    <3>1. t \notin bg.held
      BY <1>0, <1>1 DEF OwnInv, Keeping
    <3> QED BY <3>1 DEF Live, Listed
  <2>4. /\ IsFiniteSet(bg'.held) /\ bg'.n >= 1 /\ Cardinality(bg'.held) >= bg'.n - 1
    BY <2>1, <2>2
  <2> QED BY <2>1, <2>3, <2>4 DEF PassInv, Watching
<1> QED BY <1>2, <1>3

\* A thread is seized in the pass, or passed over.
LEMMA PassSeize == ASSUME Inv, PassInv, Seize("bg") PROVE PassInv'
<1> DEFINE t == Min(bg.todo)
<1>0. TypeOK /\ OwnInv /\ bg \in ToolType /\ bg.n \in Nat /\ bg.todo \subseteq Threads
  BY Threads1 DEF Inv, CleanInv, ToolType
<1>1. bg.pc = "seize" /\ t \in Threads
  BY <1>0, SeizeTool DEF Seize, bg
<1>2. CASE bg.kind # "sw"
  <2>1. bg'.kind = bg.kind
    BY <1>0, SeizeTool DEF bg
  <2> QED BY <1>2, <2>1, PassElsewhere
<1>3. CASE bg.kind = "sw" /\ th[t].by = "none" /\ t \in Listed
  <2>1. bg'.pc = "seize" /\ bg'.held = bg.held \cup {t} /\ bg'.n = bg.n /\ bg'.ok
    BY <1>0, <1>3, SeizeTool DEF bg
  <2>2. t \notin bg.held
    BY <1>0, <1>1, <1>3 DEF OwnInv, Keeping, Early, Listed, Live
  <2>3. /\ IsFiniteSet(bg.held) /\ bg.n >= 1 /\ Cardinality(bg.held) >= bg.n - 1 /\ Cardinality(bg.held) \in Nat
    BY <1>1, <1>3, FS_CardinalityType DEF PassInv
  <2>4. IsFiniteSet(bg'.held) /\ Cardinality(bg'.held) = Cardinality(bg.held) + 1
    <3> HIDE DEF t
    <3>1. IsFiniteSet(bg.held \cup {t}) /\ Cardinality(bg.held \cup {t}) = Cardinality(bg.held) + 1
      BY <2>2, <2>3, FS_AddElement
    <3>2. bg'.held = bg.held \cup {t}
      BY <2>1
    <3> QED BY <3>1, <3>2
  <2>5. bg'.n >= 1 /\ Cardinality(bg'.held) >= bg'.n /\ Cardinality(bg'.held) >= bg'.n - 1
    BY <1>0, <2>1, <2>3, <2>4
  <2> QED BY <2>1, <2>4, <2>5 DEF PassInv, Watching
<1>4. CASE bg.kind = "sw" /\ ~(th[t].by = "none" /\ t \in Listed)
  <2>1. /\ bg'.pc = "seize" /\ bg'.held = bg.held /\ bg'.n = bg.n /\ bg'.ok = bg.ok
        /\ bg'.failed = (bg.failed \/ th[t].by # "bg") /\ bg'.todo = bg.todo \ {t} /\ UNCHANGED th
    BY <1>0, <1>4, SeizeTool DEF bg, Seize
  <2>2. ASSUME ~bg'.ok, ~bg'.failed
        PROVE  Covered' \/ \E u \in bg'.todo : th'[u].by # "bg" /\ th'[u].life # "absent"
    <3>1. Covered \/ \E u \in bg.todo : th[u].by # "bg" /\ th[u].life # "absent"
      BY <1>1, <1>4, <2>1, <2>2 DEF PassInv
    <3>2. Covered => Covered'
      BY <2>1 DEF Covered
    <3> HIDE DEF t
    <3> QED BY <2>1, <2>2, <3>1, <3>2
  <2>3. /\ IsFiniteSet(bg.held) /\ bg.n >= 1 /\ Cardinality(bg.held) >= bg.n - 1
        /\ bg.ok => Cardinality(bg.held) >= bg.n
    BY <1>1, <1>4 DEF PassInv
  <2> QED BY <2>1, <2>2, <2>3 DEF PassInv, Watching
<1> QED BY <1>2, <1>3, <1>4

\* The last pass is over: it has seized no thread, for it could not be the last otherwise.
LEMMA PassOver ==
    ASSUME IsFiniteSet(Threads), Cardinality(Threads) < Passes, Inv, PassInv, PassDone
    PROVE  PassInv'
<1>0. TypeOK /\ bg \in ToolType /\ bg.n \in Nat /\ bg.held \subseteq Threads /\ Main \in Threads
  BY ThreadFacts, Threads1 DEF ToolType
<1>1. bg.pc = "seize" /\ bg.kind = "sw" /\ bg.todo = {}
  BY DEF PassDone
<1>2. /\ IsFiniteSet(bg.held) /\ Cardinality(bg.held) \in Nat /\ (bg.ok => Cardinality(bg.held) >= bg.n)
      /\ ~bg.ok /\ ~bg.failed => Covered
  BY <1>1, FS_CardinalityType DEF PassInv
<1>3. CASE PassNeeded
  <2>1. bg'.pc = "sw_list" /\ bg'.held = bg.held /\ bg'.n = bg.n
    BY <1>0, <1>3, PassTool
  <2> QED BY <1>2, <1>3, <2>1 DEF PassInv, Watching, PassNeeded
<1>4. CASE ~PassNeeded /\ bg.held = {}
  <2>1. bg'.pc = "sys_seize"
    BY <1>0, <1>4, PassTool
  <2> QED BY <2>1, PassElsewhere DEF Passing, Watching
<1>5. CASE ~PassNeeded /\ bg.held # {}
  <2>1. bg'.pc \in {"await", "loop"} /\ bg'.failed = bg.failed
    BY <1>0, <1>5, PassTool
  <2>2. ~bg.ok
    <3>1. Cardinality(bg.held) <= Cardinality(Threads) /\ Cardinality(Threads) \in Nat
      BY <1>0, FS_Subset, FS_CardinalityType
    <3> QED BY <1>0, <1>2, <1>5, <3>1, PassesAssumption DEF PassNeeded
  <2>3. Covered => Covered'
    BY FinderGentle, SaneKept, CoveredKept, <1>0
  <2> QED BY <1>2, <2>1, <2>2, <2>3 DEF PassInv, Watching
<1> QED BY <1>3, <1>4, <1>5

LEMMA PassFinder ==
    ASSUME IsFiniteSet(Threads), Cardinality(Threads) < Passes, Inv, PassInv, Finder
    PROVE  PassInv'
<1>0. TypeOK /\ Main \in Threads /\ WorkerInv
  BY ThreadFacts
<1>1. CASE ListPass \/ PassDone
  BY <1>1, PassList, PassOver
<1>2. ASSUME NEW w \in Threads, PassOn(w) \/ WatchHit(w) \/ PassFault(w) PROVE PassInv'
  <2>1. bg' = bg
    BY <1>2 DEF PassOn, WatchHit, PassFault, bg
  <2> QED BY <1>2, <2>1, FinderGentle, SaneKept, CoveredKept, PassFrame
<1>3. ASSUME NEW w \in Threads,
             GuardPage \/ Fault(w) \/ Unprotect \/ StepStore \/ Reguard \/ CloneEvent(w) \/ Exited(w) \/ Newborn
      PROVE  PassInv'
  <2>1. /\ bg'.kind = bg.kind /\ bg'.failed = bg.failed /\ bg'.pc \notin {"sw_list", "seize"}
        /\ bg.pc \in Watching \cup {"await"}
    BY <1>0, <1>3, GuardTool, FaultTool, UnprotectTool, StepStoreTool, ReguardTool, CloneEventTool, ExitedTool, NewbornTool
       DEF GuardPage, Fault, Unprotect, StepStore, Reguard, CloneEvent, Exited, Newborn, Watching, Polling
  <2>2. AllAlike
    BY <1>3, FinderGentle, SaneKept, NewbornAlike
  <2> QED BY <2>1, <2>2, PassWatch, PassElsewhere
<1>4. CASE SeizedAll \/ ArmThread
  <2>1. bg'.kind = bg.kind /\ bg.kind # "sw"
    BY <1>0, <1>4, SeizedAllTool, ArmTool DEF SeizedAll, ArmThread
  <2> QED BY <2>1, PassElsewhere
<1>5. CASE LeaveLoop \/ CleanThread \/ Release \/ Cleaned \/ End
  <2>1. bg'.pc \in {"clean", "clean_wait", "sys_seize", "end", "idle"}
    <3>1. CASE LeaveLoop \/ Release \/ Cleaned
      BY <1>0, <3>1, LeaveTool, ReleaseTool, CleanedTool
    <3>2. CASE CleanThread
      BY <1>0, <3>2, CleanTool DEF CleanThread
    <3>3. CASE End
      BY <1>0, <3>3 DEF End, TypeOK, bg, Idle
    <3> QED BY <1>5, <3>1, <3>2, <3>3
  <2> QED BY <2>1, PassElsewhere DEF Passing, Watching
<1> QED BY <1>0, <1>1, <1>2, <1>3, <1>4, <1>5 DEF Finder

LEMMA PassWorker ==
    ASSUME Inv, PassInv, RemoteSyscall("bg") \/ Seize("bg") \/ Interrupt("bg") \/ HoldThread("bg")
    PROVE  PassInv'
<1>0. TypeOK /\ WorkerInv /\ bg \in ToolType
  BY ThreadFacts, Threads1
<1>1. CASE Interrupt("bg") \/ HoldThread("bg")
  <2>1. bg.kind # "sw" /\ bg'.kind = bg.kind
    BY <1>0, <1>1, InterruptTool, HoldTool DEF WorkerInv, Interrupt, HoldThread, bg
  <2> QED BY <2>1, PassElsewhere
<1>2. ASSUME RemoteSyscall("bg") PROVE PassInv'
  <2>1. bg.pc \in Sys
    BY <1>2 DEF RemoteSyscall, SysSeize, SysInterrupt, SysWait, SysStep, SysRestore, Sys, InnerSys, bg
  <2>2. ASSUME NEW ok \in BOOLEAN, Return("bg", ok) PROVE PassInv'
    <3>1. /\ bg'.pc \in {"sw_list", "end"} /\ bg'.pc = bg.ret /\ bg'.held = bg.held /\ bg'.n = bg.n
          /\ bg.ret = "sw_list" => bg.held = {} /\ bg.n = 0
      BY <1>0, <2>1, <2>2, WorkerReturn DEF WorkerInv
    <3>2. CASE bg'.pc = "sw_list"
      <4>1. IsFiniteSet(bg'.held) /\ Cardinality(bg'.held) >= bg'.n
        BY <3>1, <3>2, FS_EmptySet
      <4> QED BY <3>2, <4>1 DEF PassInv, Watching
    <3>3. CASE bg'.pc = "end"
      BY <3>3, PassElsewhere DEF Passing, Watching
    <3> QED BY <3>1, <3>2, <3>3
  <2>3. CASE SysInterrupt("bg") \/ SysWait("bg") \/ SysStep("bg")
    <3>1. bg'.pc \in {"sys_wait", "sys_step", "sys_restore"} \/ Return("bg", FALSE)
      BY <2>3, SysTool DEF bg
    <3> QED BY <2>2, <3>1, PassElsewhere DEF Passing, Watching
  <2>4. CASE SysSeize("bg")
    <3>1. Goto("bg", "sys_interrupt") \/ Return("bg", FALSE)
      BY <2>4 DEF SysSeize
    <3>2. Goto("bg", "sys_interrupt") => bg'.pc = "sys_interrupt"
      BY <1>0 DEF Goto, TypeOK, ToolType, bg
    <3> QED BY <2>2, <3>1, <3>2, PassElsewhere DEF Passing, Watching
  <2>5. CASE SysRestore("bg")
    BY <1>0, <2>2, <2>5 DEF SysRestore, bg, ToolType
  <2> QED BY <1>2, <2>3, <2>4, <2>5 DEF RemoteSyscall
<1> QED BY <1>1, <1>2, PassSeize

LEMMA PassStep ==
    ASSUME IsFiniteSet(Threads), Cardinality(Threads) < Passes, Inv, PassInv, Next
    PROVE  PassInv'
<1>0. TypeOK /\ WorkerInv
  BY ThreadFacts
<1>1. CASE Tracer
  <2>1. bg.kind = "trace"
    BY <1>0, <1>1 DEF Tracer, RunToStart, TraceEvent, Disarm, Freeze, FreezeWait, TraceStep, DetachAll, WorkerInv, Tracing
  <2>2. \A k \in Finders : ~Start(k)
    BY <2>1 DEF Start, Idle
  <2>3. bg'.kind # "sw"
    BY <1>1, <2>1, <2>2, KindKept DEF Next
  <2> QED BY <2>3, PassElsewhere
<1>2. CASE User
  <2>1. ASSUME NEW k \in Finders, Start(k) PROVE PassInv'
    <3>1. CASE k = "sw"
      <4>1. bg'.pc = "sys_seize"
        BY <1>0, <2>1, <3>1 DEF Start, TypeOK, bg, Idle
      <4> QED BY <4>1, PassElsewhere DEF Passing, Watching
    <3>2. CASE k # "sw"
      <4>1. PICK todo : bg' = [Idle EXCEPT !.kind = k, !.pc = "seize", !.todo = todo]
        BY <1>0, <2>1, <3>2 DEF Start, TypeOK, bg
      <4>2. bg'.kind # "sw"
        BY <3>2, <4>1 DEF Idle
      <4> QED BY <4>2, PassElsewhere
    <3> QED BY <3>1, <3>2
  <2>2. ASSUME bg' = bg, UNCHANGED th PROVE PassInv'
    BY <2>2, PassFrame DEF Covered
  <2>3. CASE Stop
    BY <1>0, <2>2, <2>3 DEF Stop, TypeOK, bg
  <2>4. ASSUME NEW k \in Calls, Call(k) PROVE PassInv'
    BY <1>0, <2>2, <2>4 DEF Call, TypeOK, bg
  <2> QED BY <1>2, <2>1, <2>3, <2>4 DEF User
<1>3. ASSUME NEW x \in {"bg", "fg"}, RemoteSyscall(x) \/ Seize(x) \/ Interrupt(x) \/ HoldThread(x) PROVE PassInv'
  BY <1>3, PassCaller, PassWorker
<1> QED BY <1>1, <1>2, <1>3, PassTarget, PassFinder, PassInjector DEF Next

\* What a finder can kill the target with.
LEMMA CauseStep ==
    ASSUME Inv, Next, cause' # cause
    PROVE  \/ cause' \in {"exit", "start"}
           \/ cause' = "guard" /\ bg.kind # "sw"
           \/ \E t \in Threads : /\ th[t].life = "run" /\ th[t].by = "none"
                                 /\ cause' \in {"guard", "watchpoint"} /\ (cause' = "watchpoint" => th[t].dr = "hw")
<1>0. TypeOK /\ SaneInv /\ WorkerInv
  BY ThreadFacts
<1>1. CASE Target
  BY <1>1 DEF Target, ProcessExit, Touch, ReachStart, Clone, Signal, ThreadExit, Running
<1>2. CASE User \/ Injector
  BY <1>2 DEF User, Start, Stop, Call, Injector, Joined, ThreadAllocated, Hijack, MapPath, CallDlopen, UnmapPath,
     RunThread, TryJoin, ReleaseAll, kernel
<1>3. CASE Finder
  <2>1. ASSUME NEW w \in Threads, PassFault(w) PROVE cause' = "guard" /\ bg.kind # "sw"
    BY <1>0, <2>1, ForwardedSame DEF PassFault
  <2> QED BY <1>3, <2>1 DEF Finder, SeizedAll, ArmThread, CloneEvent, Newborn, Exited, LeaveLoop, CleanThread,
     Release, Cleaned, End, WatchHit, PassOn, Fault, ListPass, PassDone, GuardPage, Unprotect, StepStore, Reguard, kernel
<1>4. CASE Tracer
  <2>1. ASSUME NEW w \in Threads, TraceEvent(w) PROVE cause' \in {"guard", cause} /\ bg.kind # "sw"
    BY <1>0, <2>1, ForwardedSame DEF TraceEvent, WorkerInv, Tracing
  <2> QED BY <1>4, <2>1 DEF Tracer, RunToStart, Disarm, Freeze, FreezeWait, TraceStep, DetachAll, kernel
<1>5. ASSUME NEW x \in {"bg", "fg"}, RemoteSyscall(x) \/ Seize(x) \/ Interrupt(x) \/ HoldThread(x)
      PROVE  UNCHANGED cause
  BY <1>5 DEF RemoteSyscall, SysSeize, SysInterrupt, SysWait, SysStep, SysRestore, Seize, Interrupt, HoldThread, kernel
<1> QED BY <1>1, <1>2, <1>3, <1>4, <1>5 DEF Next

\* No trap of a finder's hardware watchpoint kills the target; and while the software
\* finder watches, none of its own guarded page either, whatever threads are created
\* during and after its seize passes (runSoftware lists /proc/<pid>/task again until a pass
\* finds nothing new, six times at most), in a target that never has as many threads as
\* there are passes.
THEOREM NoDeathWatched ==
    ASSUME IsFiniteSet(Threads), Cardinality(Threads) < Passes
    PROVE  Spec => FindersHarmless
<1>1. Init => PassInv
  BY DEF Init, PassInv, Idle, bg
<1>2. Inv /\ PassInv /\ [Next]_vars => PassInv'
  <2>1. CASE Inv /\ PassInv /\ Next
    BY <2>1, PassStep
  <2>2. CASE PassInv /\ UNCHANGED vars
    BY <2>2 DEF PassInv, Covered, vars, bg
  <2> QED BY <2>1, <2>2
<1>3. Inv /\ PassInv /\ [Next]_vars =>
        [cause = "none" => /\ cause' # "watchpoint"
                           /\ cause' = "guard" => bg.kind # "sw" \/ bg.pc \notin Watching \/ bg.failed]_vars
  <2> SUFFICES ASSUME Inv, PassInv, Next, cause = "none"
               PROVE  /\ cause' # "watchpoint"
                      /\ cause' = "guard" => bg.kind # "sw" \/ bg.pc \notin Watching \/ bg.failed
    OBVIOUS
  <2>1. ASSUME NEW t \in Threads, th[t].life = "run", th[t].by = "none", th[t].dr = "hw" PROVE FALSE
    BY <2>1 DEF Inv, CleanInv, ArmedInv, Live
  <2>2. ASSUME NEW t \in Threads, th[t].life = "run", th[t].by = "none"
        PROVE  bg.kind # "sw" \/ bg.pc \notin Watching \/ bg.failed
    BY <2>2 DEF PassInv, Covered, Live
  <2>3. CASE cause' = cause
    BY <2>3
  <2>4. CASE cause' # cause
    BY <2>1, <2>2, <2>4, CauseStep
  <2> QED BY <2>3, <2>4
<1> QED BY <1>1, <1>2, <1>3, Throughout, PTL DEF Spec, FindersHarmless
=============================================================================
