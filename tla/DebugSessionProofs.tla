------------------------- MODULE DebugSessionProofs -------------------------
(***************************************************************************)
(* Proofs about DebugSession, for any number of threads, any program and   *)
(* any set of debug registers.  With every disturbance (clones, signals,   *)
(* exits, breakpoint changes while the target runs): the state is well     *)
(* typed, the traced threads are frozen while a stop is reported, and the  *)
(* registers shown are those of the active thread.  Without the moves and  *)
(* the instructions the code is known to mishandle: the program is never   *)
(* moved from where it is, and no trap is left in it.                      *)
(***************************************************************************)
EXTENDS DebugSession, TLAPS

Halted(t)  == st[t] \in {"stop", "gone"}
Settled(t) == st[t] \in {"stop", "gone", "free"}

\* The threads the session has a hold on.
Held == traced \cup stoppedTids

\* The address of a run-to step is known while it runs.
GoalInv == tp = "runWait" => goal \in Code

\* A status waits only for a thread that has stopped or ended.
EventInv == \A t \in Threads : ev[t] # "none" => Halted(t)

\* The leader and the traced threads exist.
PresentInv == st[Main] # "absent" /\ \A t \in traced : st[t] # "absent"

\* What the tracer's position says about the session.
ControlInv ==
    /\ tp = "off" => Held = {}
    /\ tp \in {"stepWait", "runWait"} => cur = active
    /\ tp = "cloneWait" => ~stopped
    /\ tp \in {"loop", "cloneWait"} /\ ~stopped => stoppedTids = {}

\* Before the loop starts the leader runs only while it is being seized.
LeaderInv ==
    /\ tp \in {"off", "seize"} => Settled(Main)
    /\ tp = "seizeWait" => cur = Main \/ Settled(Main)

\* Who is frozen: everyone at a stop, everyone but the stepped thread in a step,
\* everyone already visited while the others are being stopped.
FrozenInv ==
    /\ tp \in {"seize", "seizeWait", "resume"} \/ (tp = "loop" /\ stopped) =>
        \A t \in Held : Halted(t)
    /\ tp \in {"overWait", "stepWait", "runWait"} => \A t \in Held : Halted(t) \/ t = cur
    /\ tp \in {"stop", "stopWait"} =>
        /\ \A t \in stoppedTids : Halted(t)
        /\ \A t \in traced : Halted(t) \/ t \in todo

\* The active thread does not run from the moment it is chosen until it is resumed.
ActiveInv == tp \in {"stop", "stopWait"} \/ (tp = "loop" /\ stopped) => Settled(active)

\* How stops are organised; ContextCurrent is one of its parts.
StopInv ==
    /\ EventInv /\ PresentInv /\ ControlInv /\ LeaderInv /\ FrozenInv /\ ActiveInv
    /\ ContextCurrent

SessionInv == TypeOK /\ GoalInv /\ StopInv
-----------------------------------------------------------------------------
(* Type correctness *)

\* An address one past an armed breakpoint: the breakpoint is an instruction, and its
\* saved byte is a byte.
LEMMA ArmedFacts ==
    ASSUME TypeOK, NEW a, Armed(a)
    PROVE  a \in Code /\ a \in Addrs /\ a # NoAddr /\ soft[a] \in Bytes
BY ConstantsAssumption DEF TypeOK, Armed, Addrs, NoAddr

\* A poke leaves a text.
LEMMA PokedType ==
    ASSUME NEW mem \in [Code -> Bytes], NEW a \in Code \cup {NoAddr}, NEW b \in Bytes
    PROVE  Poked(mem, a, b) \in [Code -> Bytes]
BY ConstantsAssumption DEF Poked, NoAddr

\* Resuming threads keeps the kernel's variables in their types.
LEMMA ResumeType ==
    ASSUME TypeOK, NEW ts, NEW how \in {"run", "step"},
           NEW status \in [Threads -> Traps \cup {"none", "sig", "exit"}],
           Resume(ts, how, status)
    PROVE  /\ st' \in [Threads -> Alive \cup {"absent", "gone"}]
           /\ ev' \in [Threads -> Traps \cup {"none", "sig", "exit"}]
           /\ intr' \in [Threads -> BOOLEAN]
BY DEF TypeOK, Resume, Alive, Traps

\* Steps of the target keep the types.
LEMMA ThreadTypes == ASSUME TypeOK, NEW t \in Threads, ThreadStep(t) PROVE TypeOK'
<1> USE ConstantsAssumption
    DEF TypeOK, Undisturbed, flow, kernel, tables, scratch, session, Addrs, Alive, Traps
<1>1. CASE RunIntoInt3(t)
  BY <1>1 DEF RunIntoInt3
<1>2. CASE Execute(t)
  <2>1. rip' \in [Threads -> Addrs] /\ due' \in [Threads -> Code]
    BY <1>2 DEF Execute
  <2>2. /\ st' \in [Threads -> Alive \cup {"absent", "gone"}]
        /\ ev' \in [Threads -> Traps \cup {"none", "sig", "exit"}]
    BY <1>2 DEF Execute
  <2> QED
    BY <1>2, <2>1, <2>2 DEF Execute
<1>3. CASE TakeInterrupt(t)
  BY <1>3 DEF TakeInterrupt
<1>4. CASE Signal(t)
  BY <1>4 DEF Signal
<1>5. ASSUME NEW new \in Threads, Clone(t, new) PROVE TypeOK'
  <2>1. rip' \in [Threads -> Addrs] /\ due' \in [Threads -> Code]
    BY <1>5 DEF Clone
  <2>2. /\ st' \in [Threads -> Alive \cup {"absent", "gone"}]
        /\ ev' \in [Threads -> Traps \cup {"none", "sig", "exit"}]
    BY <1>5 DEF Clone
  <2>3. intr' \in [Threads -> BOOLEAN] /\ child' \in [Threads -> Threads]
    BY <1>5 DEF Clone
  <2> QED
    BY <1>5, <2>1, <2>2, <2>3 DEF Clone
<1> QED
  BY <1>1, <1>2, <1>3, <1>4, <1>5 DEF ThreadStep

\* The end of the process keeps the types.
LEMMA ExitTypes == ASSUME TypeOK, Exit PROVE TypeOK'
BY DEF TypeOK, Exit, Undisturbed, flow, kernel, tables, scratch, session, Alive, Traps

\* Seizing, polling and cleaning up keep the types.
LEMMA LoopTypes ==
    ASSUME TypeOK,
           \/ StartTracer \/ SeizeWait \/ SeizeDone \/ PollNothingLeft \/ StopDone
           \/ StartCleanup \/ CleanWait
           \/ \E t \in Threads : SeizeOne(t) \/ HandleExit(t) \/ HandleClone(t)
    PROVE  TypeOK'
<1> USE ConstantsAssumption
    DEF TypeOK, flow, kernel, tables, scratch, session, TracerStates, Alive, Traps, Reap,
        CaptureRegs
<1>1. CASE StartTracer
  BY <1>1 DEF StartTracer
<1>2. CASE SeizeWait
  BY <1>2 DEF SeizeWait
<1>3. CASE SeizeDone
  <2>1. ctx' \in Addrs /\ active' \in Threads
    BY <1>3 DEF SeizeDone
  <2>2. attached' \in BOOLEAN /\ stopped' \in BOOLEAN /\ tp' \in TracerStates
    BY <1>3 DEF SeizeDone
  <2> QED
    BY <1>3, <2>1, <2>2 DEF SeizeDone
<1>4. CASE PollNothingLeft
  BY <1>4 DEF PollNothingLeft
<1>5. CASE StopDone
  BY <1>5 DEF StopDone
<1>6. CASE StartCleanup
  BY <1>6 DEF StartCleanup
<1>7. CASE CleanWait
  BY <1>7 DEF CleanWait
<1>8. ASSUME NEW t \in Threads, SeizeOne(t) PROVE TypeOK'
  <2>1. st' \in [Threads -> Alive \cup {"absent", "gone"}] /\ intr' \in [Threads -> BOOLEAN]
    BY <1>8 DEF SeizeOne
  <2>2. cur' \in Threads /\ todo' \subseteq Threads /\ tp' \in TracerStates
    BY <1>8 DEF SeizeOne
  <2> QED
    BY <1>8, <2>1, <2>2 DEF SeizeOne
<1>9. ASSUME NEW t \in Threads, HandleExit(t) PROVE TypeOK'
  BY <1>9 DEF HandleExit
<1>10. ASSUME NEW t \in Threads, HandleClone(t) PROVE TypeOK'
  BY <1>10 DEF HandleClone
<1> QED
  BY <1>1, <1>2, <1>3, <1>4, <1>5, <1>6, <1>7, <1>8, <1>9, <1>10

\* Stopping the others, handling a stop and resuming keep the types.
LEMMA StopTypes ==
    ASSUME TypeOK,
           \/ CloneWait \/ StopWait \/ ResumeDone
           \/ \E t \in Threads :
                \/ StopOne(t) \/ CleanOne(t) \/ HandleWatchHit(t) \/ HandleBreakpointHit(t)
                \/ HandleException(t) \/ HandleOther(t)
    PROVE  TypeOK'
<1> USE DEF TypeOK, flow, kernel, tables, scratch, session
<1>1. CASE CloneWait
  <2>1. [ev EXCEPT ![child[cur]] = "none"] \in [Threads -> Traps \cup {"none", "sig", "exit"}]
    BY DEF Traps
  <2>2. /\ st' \in [Threads -> Alive \cup {"absent", "gone"}]
        /\ ev' \in [Threads -> Traps \cup {"none", "sig", "exit"}]
        /\ intr' \in [Threads -> BOOLEAN]
    BY <1>1, <2>1, ResumeType DEF CloneWait
  <2> QED
    BY <1>1, <2>2 DEF CloneWait, TracerStates
<1>2. CASE StopWait
  <2>1. rip' \in [Threads -> Addrs]
    BY <1>2, ArmedFacts DEF StopWait, Rewound
  <2> QED
    BY <1>2, <2>1 DEF StopWait, Reap, TracerStates
<1>3. CASE ResumeDone
  <2>1. /\ st' \in [Threads -> Alive \cup {"absent", "gone"}]
        /\ ev' \in [Threads -> Traps \cup {"none", "sig", "exit"}]
        /\ intr' \in [Threads -> BOOLEAN]
    BY <1>3, ResumeType DEF ResumeDone
  <2> QED
    BY <1>3, <2>1 DEF ResumeDone, TracerStates
<1>4. ASSUME NEW t \in Threads, StopOne(t) PROVE TypeOK'
  <2>1. intr' \in [Threads -> BOOLEAN] /\ UNCHANGED <<st, ev>>
    BY <1>4 DEF StopOne, Interrupt
  <2>2. cur' \in Threads /\ todo' \subseteq Threads /\ tp' \in TracerStates
    BY <1>4 DEF StopOne, TracerStates
  <2> QED
    BY <1>4, <2>1, <2>2 DEF StopOne
<1>5. ASSUME NEW t \in Threads, CleanOne(t) PROVE TypeOK'
  <2>1. intr' \in [Threads -> BOOLEAN] /\ UNCHANGED <<st, ev>>
    BY <1>5 DEF CleanOne, Interrupt
  <2>2. cur' \in Threads /\ todo' \subseteq Threads /\ tp' \in TracerStates
    BY <1>5 DEF CleanOne, TracerStates
  <2> QED
    BY <1>5, <2>1, <2>2 DEF CleanOne
<1>6. ASSUME NEW t \in Threads, StopTheWorld(t), rip' \in [Threads -> Addrs] PROVE TypeOK'
  BY <1>6 DEF StopTheWorld, Reap, Others, TracerStates
<1>7. ASSUME NEW t \in Threads, HandleWatchHit(t) PROVE TypeOK'
  BY <1>6, <1>7 DEF HandleWatchHit
<1>8. ASSUME NEW t \in Threads, HandleBreakpointHit(t) PROVE TypeOK'
  <2>1. rip' \in [Threads -> Addrs]
    BY <1>8, ArmedFacts DEF HandleBreakpointHit
  <2> QED
    BY <1>6, <1>8, <2>1 DEF HandleBreakpointHit
<1>9. ASSUME NEW t \in Threads, HandleException(t) PROVE TypeOK'
  BY <1>6, <1>9 DEF HandleException
<1>10. ASSUME NEW t \in Threads, HandleOther(t) PROVE TypeOK'
  <2>1. /\ st' \in [Threads -> Alive \cup {"absent", "gone"}]
        /\ ev' \in [Threads -> Traps \cup {"none", "sig", "exit"}]
        /\ intr' \in [Threads -> BOOLEAN]
    BY <1>10, ResumeType DEF HandleOther
  <2> QED
    BY <1>10, <2>1 DEF HandleOther
<1> QED
  BY <1>1, <1>2, <1>3, <1>4, <1>5, <1>7, <1>8, <1>9, <1>10

\* Lifting a byte for a step, and putting it back, keep the types.
LEMMA StepOverType ==
    ASSUME TypeOK, NEW t \in Threads, NEW next, OnBreakpoint(t), StepOverBp(t, next)
    PROVE  /\ st' \in [Threads -> Alive \cup {"absent", "gone"}]
           /\ ev' \in [Threads -> Traps \cup {"none", "sig", "exit"}]
           /\ intr' \in [Threads -> BOOLEAN]
           /\ text' \in [Code -> Bytes] /\ lift' \in Code /\ cur' \in Threads
<1>1. rip[t] \in Code /\ soft[rip[t]] \in Bytes
  BY ArmedFacts DEF OnBreakpoint
<1>2. text' \in [Code -> Bytes]
  BY <1>1, PokedType DEF StepOverBp, TypeOK
<1> QED
  BY <1>1, <1>2, ResumeType DEF StepOverBp, TypeOK

\* Putting back a lifted byte leaves a text.
LEMMA RearmedType ==
    ASSUME TypeOK, NEW mem \in [Code -> Bytes]
    PROVE  Rearmed(mem) \in [Code -> Bytes]
<1>1. "int3" \in Bytes
  BY DEF Bytes
<1> QED
  BY <1>1, PokedType DEF TypeOK, Rearmed

\* Steps keep the types; a run-to step knows its address.
LEMMA StepTypes ==
    ASSUME TypeOK, GoalInv,
           \/ OverWait \/ StepWait \/ RunWait \/ StepInto
           \/ \E t \in Threads : ResumeOne(t)
           \/ \E a \in Code : RunTo(a)
    PROVE  TypeOK'
<1> USE DEF TypeOK, flow, kernel, tables, scratch, session
<1>1. CASE OverWait
  BY <1>1, RearmedType DEF OverWait, Reap, TracerStates
<1>2. CASE StepWait
  BY <1>2, RearmedType DEF StepWait, Reap, CaptureRegs, TracerStates
<1>3. CASE RunWait
  <2>1. goal \in Code /\ goal \in Addrs
    BY <1>3 DEF RunWait, GoalInv, Addrs
  <2>2. rip' \in [Threads -> Addrs]
    BY <1>3, <2>1 DEF RunWait
  <2>3. ClearTemp(text) \in [Code -> Bytes]
    BY PokedType DEF ClearTemp
  <2>4. text' \in [Code -> Bytes]
    BY <1>3, <2>3, RearmedType DEF RunWait
  <2>5. ctx' \in Addrs
    BY <1>3, <2>2 DEF RunWait, CaptureRegs
  <2> QED
    BY <1>3, <2>2, <2>4, <2>5 DEF RunWait, Reap, TracerStates, NoAddr
<1>4. CASE StepInto
  <2>1. CASE OnBreakpoint(active) /\ StepOverBp(active, "stepWait")
    <3>1. tp' = "stepWait"
      BY <2>1 DEF StepOverBp
    <3> QED
      BY <1>4, <2>1, <3>1, StepOverType DEF StepInto, TracerStates
  <2>2. CASE ~OnBreakpoint(active)
    <3>1. Resume({active}, "step", ev) /\ cur' = active /\ tp' = "stepWait"
          /\ UNCHANGED <<text, lift>>
      BY <1>4, <2>2 DEF StepInto
    <3> QED
      BY <1>4, <3>1, ResumeType DEF StepInto, TracerStates
  <2> QED
    BY <1>4, <2>1, <2>2 DEF StepInto
<1>5. ASSUME NEW t \in Threads, ResumeOne(t) PROVE TypeOK'
  <2>1. CASE OnBreakpoint(t) /\ StepOverBp(t, "overWait") /\ UNCHANGED todo
    <3>1. tp' = "overWait"
      BY <2>1 DEF StepOverBp
    <3> QED
      BY <1>5, <2>1, <3>1, StepOverType DEF ResumeOne, TracerStates
  <2>2. CASE /\ ~OnBreakpoint(t) /\ todo' = todo \ {t}
             /\ UNCHANGED <<kernel, text, cur, lift, tp>>
    BY <1>5, <2>2 DEF ResumeOne
  <2> QED
    BY <1>5, <2>1, <2>2 DEF ResumeOne
<1>6. ASSUME NEW a \in Code, RunTo(a) PROVE TypeOK'
  <2> DEFINE here   == IF Armed(rip[active]) THEN rip[active] ELSE NoAddr
             lifted == IF here = NoAddr THEN text ELSE Poked(text, here, soft[here])
  <2>1. here \in Code \cup {NoAddr} /\ (here # NoAddr => soft[here] \in Bytes)
    BY ArmedFacts
  <2>2. lifted \in [Code -> Bytes]
    BY <2>1, PokedType
  <2>3. "int3" \in Bytes /\ lifted[a] \in Bytes
    BY <2>2 DEF Bytes
  <2>4. Poked(lifted, a, "int3") \in [Code -> Bytes]
    BY <2>2, <2>3, PokedType
  <2>5. /\ lift' = here
        /\ temp' = IF ~Armed(a) /\ CanPoke THEN lifted[a] ELSE "none"
        /\ text' = IF ~Armed(a) /\ CanPoke THEN Poked(lifted, a, "int3") ELSE lifted
    BY <1>6 DEF RunTo
  <2> HIDE DEF here, lifted
  <2>6. lift' \in Code \cup {NoAddr} /\ temp' \in Bytes \cup {"none"} /\ text' \in [Code -> Bytes]
    BY <2>1, <2>2, <2>3, <2>4, <2>5
  <2>7. /\ st' \in [Threads -> Alive \cup {"absent", "gone"}]
        /\ ev' \in [Threads -> Traps \cup {"none", "sig", "exit"}]
        /\ intr' \in [Threads -> BOOLEAN]
    BY <1>6, ResumeType DEF RunTo
  <2> QED
    BY <1>6, <2>6, <2>7 DEF RunTo, TracerStates
<1> QED
  BY <1>1, <1>2, <1>3, <1>4, <1>5, <1>6

\* The other commands and the end of cleanup keep the types.
LEMMA CommandTypes ==
    ASSUME TypeOK,
           \/ Continue \/ ToggleExceptionBreakpoint \/ Detach \/ CleanDone
           \/ \E a \in Code : SetSoftBp(a) \/ RemoveSoftBp(a) \/ SetRegs(a)
           \/ \E r \in DebugRegs : SetHwBp(r) \/ RemoveHwBp(r)
           \/ \E t \in Threads : SelectThread(t)
    PROVE  TypeOK'
<1> USE DEF TypeOK, flow, kernel, tables, scratch, session
<1>1. CASE Continue
  BY <1>1 DEF Continue, TracerStates
<1>2. CASE ToggleExceptionBreakpoint
  BY <1>2 DEF ToggleExceptionBreakpoint
<1>3. CASE Detach
  BY <1>3 DEF Detach
<1>4. CASE CleanDone
  <2>1. text' \in [Code -> Bytes]
    BY <1>4, ArmedFacts DEF CleanDone, Restored
  <2>2. dr' \in [Threads -> SUBSET DebugRegs]
    BY <1>4 DEF CleanDone, Disarmed
  <2>3. /\ st' \in [Threads -> Alive \cup {"absent", "gone"}]
        /\ ev' \in [Threads -> Traps \cup {"none", "sig", "exit"}]
        /\ intr' \in [Threads -> BOOLEAN]
    BY <1>4 DEF CleanDone, Alive
  <2> QED
    BY <1>4, <2>1, <2>2, <2>3 DEF CleanDone, TracerStates
<1>5. ASSUME NEW a \in Code, SetSoftBp(a) PROVE TypeOK'
  <2>1. text' \in [Code -> Bytes]
    BY <1>5, PokedType DEF SetSoftBp, Bytes
  <2> QED
    BY <1>5, <2>1 DEF SetSoftBp
<1>6. ASSUME NEW a \in Code, RemoveSoftBp(a) PROVE TypeOK'
  <2>1. text' \in [Code -> Bytes]
    BY <1>6, PokedType, ArmedFacts DEF RemoveSoftBp
  <2> QED
    BY <1>6, <2>1 DEF RemoveSoftBp
<1>7. ASSUME NEW a \in Code, SetRegs(a) PROVE TypeOK'
  <2>1. rip' \in [Threads -> Addrs] /\ due' \in [Threads -> Code]
    BY <1>7 DEF SetRegs, Addrs
  <2>2. ctx' \in Addrs
    BY <1>7, <2>1 DEF SetRegs, CaptureRegs
  <2> QED
    BY <1>7, <2>1, <2>2 DEF SetRegs
<1>8. ASSUME NEW r \in DebugRegs, SetHwBp(r) PROVE TypeOK'
  BY <1>8 DEF SetHwBp
<1>9. ASSUME NEW r \in DebugRegs, RemoveHwBp(r) PROVE TypeOK'
  BY <1>9 DEF RemoveHwBp, Disarmed
<1>10. ASSUME NEW t \in Threads, SelectThread(t) PROVE TypeOK'
  BY <1>10 DEF SelectThread, CaptureRegs
<1> QED
  BY <1>1, <1>2, <1>3, <1>4, <1>5, <1>6, <1>7, <1>8, <1>9, <1>10

\* Only a run-to step enters "runWait", with its address.
LEMMA GoalKept == ASSUME TypeOK, GoalInv, [Next]_vars PROVE GoalInv'
<1> USE DEF GoalInv, scratch, session
<1>1. CASE TracerStep
  <2>1. CASE StartTracer \/ SeizeWait \/ SeizeDone \/ PollNothingLeft \/ CloneWait
    BY <2>1 DEF StartTracer, SeizeWait, SeizeDone, PollNothingLeft, CloneWait, Polling
  <2>2. CASE StopWait \/ StopDone \/ OverWait \/ ResumeDone \/ StepWait \/ RunWait
    BY <2>2 DEF StopWait, StopDone, OverWait, ResumeDone, StepWait, RunWait
  <2>3. CASE StartCleanup \/ CleanWait \/ CleanDone
    BY <2>3 DEF StartCleanup, CleanWait, CleanDone
  <2>4. ASSUME NEW t \in Threads, SeizeOne(t) \/ StopOne(t) \/ ResumeOne(t) \/ CleanOne(t)
        PROVE  GoalInv'
    BY <2>4 DEF SeizeOne, StopOne, ResumeOne, CleanOne, StepOverBp
  <2>5. ASSUME NEW t \in Threads,
               \/ HandleExit(t) \/ HandleClone(t) \/ HandleWatchHit(t)
               \/ HandleBreakpointHit(t) \/ HandleException(t) \/ HandleOther(t)
        PROVE  GoalInv'
    BY <2>5 DEF HandleExit, HandleClone, HandleWatchHit, HandleBreakpointHit,
                HandleException, HandleOther, StopTheWorld, Polling
  <2> QED
    BY <1>1, <2>1, <2>2, <2>3, <2>4, <2>5 DEF TracerStep
<1>2. CASE Command
  <2>1. CASE Continue \/ StepInto \/ ToggleExceptionBreakpoint \/ Detach
    BY <2>1 DEF Continue, StepInto, StepOverBp, ToggleExceptionBreakpoint, Detach
  <2>2. ASSUME NEW a \in Code, RunTo(a) \/ SetSoftBp(a) \/ RemoveSoftBp(a) \/ SetRegs(a)
        PROVE  GoalInv'
    BY <2>2 DEF RunTo, SetSoftBp, RemoveSoftBp, SetRegs
  <2>3. ASSUME NEW r \in DebugRegs, SetHwBp(r) \/ RemoveHwBp(r) PROVE GoalInv'
    BY <2>3 DEF SetHwBp, RemoveHwBp
  <2>4. ASSUME NEW t \in Threads, SelectThread(t) PROVE GoalInv'
    BY <2>4 DEF SelectThread
  <2> QED
    BY <1>2, <2>1, <2>2, <2>3, <2>4 DEF Command
<1>3. CASE Exit \/ \E t \in Threads : ThreadStep(t)
  BY <1>3 DEF Exit, ThreadStep, RunIntoInt3, Execute, TakeInterrupt, Signal, Clone, Undisturbed
<1>4. CASE UNCHANGED vars
  BY <1>4 DEF vars
<1> QED
  BY <1>1, <1>2, <1>3, <1>4 DEF Next

\* Every step keeps the types.
LEMMA TypeKept == ASSUME TypeOK, GoalInv, [Next]_vars PROVE TypeOK'
<1>1. CASE TracerStep
  BY <1>1, LoopTypes, StopTypes, StepTypes, CommandTypes DEF TracerStep
<1>2. CASE Command
  BY <1>2, StepTypes, CommandTypes DEF Command
<1>3. CASE Exit \/ \E t \in Threads : ThreadStep(t)
  BY <1>3, ThreadTypes, ExitTypes
<1>4. CASE UNCHANGED vars
  BY <1>4 DEF vars, TypeOK, flow, kernel, tables, scratch, session
<1> QED
  BY <1>1, <1>2, <1>3, <1>4 DEF Next

\* The state the session starts in is well typed.
LEMMA InitTypes == Init => TypeOK /\ GoalInv
<1> SUFFICES ASSUME Init PROVE TypeOK /\ GoalInv
  OBVIOUS
<1> USE ConstantsAssumption DEF Init
<1>1. /\ rip \in [Threads -> Addrs] /\ due \in [Threads -> Code] /\ ctx \in Addrs
      /\ child \in [Threads -> Threads]
  BY DEF Addrs
<1>2. /\ st \in [Threads -> Alive \cup {"absent", "gone"}]
      /\ ev \in [Threads -> Traps \cup {"none", "sig", "exit"}]
      /\ intr \in [Threads -> BOOLEAN]
  BY DEF Alive
<1>3. /\ text \in [Code -> Bytes] /\ soft \in [Code -> Bytes \cup {"none"}]
      /\ dr \in [Threads -> SUBSET DebugRegs] /\ hw \subseteq DebugRegs
  BY DEF Bytes
<1>4. /\ tp \in TracerStates /\ cur \in Threads /\ todo \subseteq Threads
      /\ goal \in Code \cup {NoAddr} /\ lift \in Code \cup {NoAddr}
      /\ temp \in Bytes \cup {"none"} /\ GoalInv
  BY DEF TracerStates, GoalInv
<1>5. /\ attached \in BOOLEAN /\ stopped \in BOOLEAN /\ active \in Threads
      /\ traced \subseteq Threads /\ stoppedTids \subseteq Threads /\ excBreak \in BOOLEAN
  OBVIOUS
<1> QED
  BY <1>1, <1>2, <1>3, <1>4, <1>5 DEF TypeOK

\* The variables keep their types through every step of target, tracer and clients.
THEOREM TypeCorrect == Spec => []TypeOK
<1>1. TypeOK /\ GoalInv /\ [Next]_vars => (TypeOK /\ GoalInv)'
  BY TypeKept, GoalKept
<1> QED
  BY <1>1, InitTypes, PTL DEF Spec
-----------------------------------------------------------------------------
(* Frozen threads and the reported context *)

\* What a step of the target can do to a thread: one that is frozen stays where it
\* is, one that exists does not vanish, and a status comes with a stop or an end.
TargetEffect ==
    /\ UNCHANGED <<tp, scratch, session, ctx>>
    /\ EventInv'
    /\ \A u \in Threads :
        /\ Halted(u) => Halted(u)'
        /\ Settled(u) => Settled(u)'
        /\ st[u] # "absent" => st'[u] # "absent"
        /\ Settled(u) /\ st'[u] = "stop" => st[u] = "stop" /\ rip'[u] = rip[u]

\* Every step of the target has that effect.
LEMMA TargetFrame ==
    ASSUME TypeOK, EventInv, Exit \/ \E t \in Threads : ThreadStep(t)
    PROVE  TargetEffect
<1> USE DEF TypeOK, EventInv, Halted, Settled, Alive, Undisturbed, flow, TargetEffect
<1>1. CASE Exit
  BY <1>1 DEF Exit
<1>2. ASSUME NEW t \in Threads, RunIntoInt3(t) \/ TakeInterrupt(t) \/ Signal(t)
      PROVE  TargetEffect
  BY <1>2 DEF RunIntoInt3, TakeInterrupt, Signal
<1>3. ASSUME NEW t \in Threads, Execute(t) PROVE TargetEffect
  BY <1>3 DEF Execute
<1>4. ASSUME NEW t \in Threads, NEW new \in Threads, Clone(t, new) PROVE TargetEffect
  BY <1>4 DEF Clone
<1> QED
  BY <1>1, <1>2, <1>3, <1>4 DEF ThreadStep

\* The target's own steps.
LEMMA TargetStops ==
    ASSUME SessionInv, Exit \/ \E t \in Threads : ThreadStep(t)
    PROVE  StopInv'
<1> USE ConstantsAssumption
    DEF SessionInv, StopInv, TargetEffect, scratch, session
<1>1. TargetEffect
  BY TargetFrame
<1>2. PresentInv' /\ ControlInv'
  BY <1>1 DEF PresentInv, ControlInv, Held, TypeOK
<1>3. LeaderInv' /\ ActiveInv'
  BY <1>1 DEF LeaderInv, ActiveInv, TypeOK
<1>4. FrozenInv'
  BY <1>1 DEF FrozenInv, Held, TypeOK
<1>5. ContextCurrent'
  BY <1>1 DEF ContextCurrent, ActiveInv, TypeOK
<1> QED
  BY <1>1, <1>2, <1>3, <1>4, <1>5

\* Seizing the target.
LEMMA SeizeStops ==
    ASSUME SessionInv,
           StartTracer \/ SeizeWait \/ SeizeDone \/ \E t \in Threads : SeizeOne(t)
    PROVE  StopInv'
<1> USE ConstantsAssumption
    DEF SessionInv, StopInv, TypeOK, flow, kernel, tables, scratch, session,
        EventInv, PresentInv, ControlInv, LeaderInv, FrozenInv, ActiveInv, ContextCurrent,
        Held, Halted, Settled
<1>1. CASE StartTracer
  BY <1>1 DEF StartTracer
<1>2. CASE SeizeWait
  BY <1>2 DEF SeizeWait, WaitReturns, Reportable, Reap
<1>3. CASE SeizeDone
  BY <1>3 DEF SeizeDone, CaptureRegs
<1>4. ASSUME NEW t \in Threads, SeizeOne(t) PROVE StopInv'
  BY <1>4 DEF SeizeOne
<1> QED
  BY <1>1, <1>2, <1>3, <1>4

\* Polling: what the loop does with a status while the target runs.
LEMMA PollStops ==
    ASSUME SessionInv,
           \/ PollNothingLeft \/ CloneWait
           \/ \E t \in Threads :
                \/ HandleExit(t) \/ HandleClone(t) \/ HandleWatchHit(t)
                \/ HandleBreakpointHit(t) \/ HandleException(t) \/ HandleOther(t)
    PROVE  StopInv'
<1> USE ConstantsAssumption
    DEF SessionInv, StopInv, TypeOK, flow, kernel, tables, scratch, session,
        EventInv, PresentInv, ControlInv, LeaderInv, FrozenInv, ActiveInv, ContextCurrent,
        Held, Halted, Settled, Polling, Reap
<1>1. CASE PollNothingLeft
  BY <1>1 DEF PollNothingLeft
<1>2. CASE CloneWait
  <2>1. /\ EventInv'
        /\ \A u \in Threads :
             /\ u \notin {cur, child[cur]} => st'[u] = st[u]
             /\ st[u] # "stop" => st'[u] = st[u]
             /\ st'[u] # "absent" \/ st[u] = "absent"
    <3>1. \A u \in Threads : [ev EXCEPT ![child[cur]] = "none"][u] # "none" => Halted(u)
      OBVIOUS
    <3>2. Resume({cur, child[cur]}, "run", [ev EXCEPT ![child[cur]] = "none"])
      BY <1>2 DEF CloneWait
    <3> QED
      BY <3>1, <3>2, <1>2 DEF Resume
  <2>2. Halted(child[cur]) /\ child[cur] \in Threads
    BY <1>2 DEF CloneWait, WaitReturns, Reportable
  <2> QED
    BY <1>2, <2>1, <2>2 DEF CloneWait
<1>3. ASSUME NEW t \in Threads, HandleExit(t) PROVE StopInv'
  BY <1>3 DEF HandleExit
<1>4. ASSUME NEW t \in Threads, HandleClone(t) PROVE StopInv'
  BY <1>4 DEF HandleClone
<1>5. ASSUME NEW t \in Threads,
             HandleWatchHit(t) \/ HandleBreakpointHit(t) \/ HandleException(t)
      PROVE  StopInv'
  BY <1>5 DEF HandleWatchHit, IsWatchHit, HandleBreakpointHit, HandleException,
              StopTheWorld, Others
<1>6. ASSUME NEW t \in Threads, HandleOther(t) PROVE StopInv'
  <2>1. /\ EventInv'
        /\ \A u \in Threads :
             /\ u \notin {t} => st'[u] = st[u]
             /\ st[u] # "stop" => st'[u] = st[u]
             /\ st'[u] # "absent" \/ st[u] = "absent"
    BY <1>6 DEF HandleOther, Resume
  <2> QED
    BY <1>6, <2>1 DEF HandleOther
<1> QED
  BY <1>1, <1>2, <1>3, <1>4, <1>5, <1>6

\* Stopping the other threads.
LEMMA FreezeStops ==
    ASSUME SessionInv, StopWait \/ StopDone \/ \E t \in Threads : StopOne(t)
    PROVE  StopInv'
<1> USE ConstantsAssumption
    DEF SessionInv, StopInv, TypeOK, flow, kernel, tables, scratch, session,
        EventInv, PresentInv, ControlInv, LeaderInv, FrozenInv, ActiveInv, ContextCurrent,
        Held, Halted, Settled
<1>1. CASE StopWait
  BY <1>1 DEF StopWait, WaitReturns, Reportable, Reap
<1>2. CASE StopDone
  BY <1>2 DEF StopDone, CaptureRegs
<1>3. ASSUME NEW t \in Threads, StopOne(t) PROVE StopInv'
  BY <1>3 DEF StopOne, Interrupt, Traceable, Alive
<1> QED
  BY <1>1, <1>2, <1>3

\* Resuming everyone, and steps of the active thread.
LEMMA ResumeStops ==
    ASSUME SessionInv,
           \/ Continue \/ OverWait \/ ResumeDone \/ StepInto \/ StepWait \/ RunWait
           \/ \E t \in Threads : ResumeOne(t)
           \/ \E a \in Code : RunTo(a)
    PROVE  StopInv'
<1> USE ConstantsAssumption
    DEF SessionInv, StopInv, TypeOK, flow, kernel, tables, scratch, session,
        EventInv, PresentInv, ControlInv, LeaderInv, FrozenInv, ActiveInv, ContextCurrent,
        Held, Halted, Settled
<1>1. CASE Continue
  BY <1>1 DEF Continue, Ready
<1>2. CASE OverWait
  BY <1>2 DEF OverWait, WaitReturns, Reportable, Reap
<1>3. CASE ResumeDone
  <2>1. /\ EventInv'
        /\ \A u \in Threads :
             /\ u \notin traced => st'[u] = st[u]
             /\ st[u] # "stop" => st'[u] = st[u]
             /\ st'[u] # "absent" \/ st[u] = "absent"
    BY <1>3 DEF ResumeDone, Resume
  <2> QED
    BY <1>3, <2>1 DEF ResumeDone
<1>4. CASE StepInto
  <2>1. /\ EventInv'
        /\ \A u \in Threads :
             /\ u \notin {active} => st'[u] = st[u]
             /\ st[u] # "stop" => st'[u] = st[u]
             /\ st'[u] # "absent" \/ st[u] = "absent"
    BY <1>4 DEF StepInto, StepOverBp, Resume
  <2> QED
    BY <1>4, <2>1 DEF StepInto, StepOverBp, Ready
<1>5. CASE StepWait
  BY <1>5 DEF StepWait, WaitReturns, Reportable, Reap, CaptureRegs
<1>6. CASE RunWait
  BY <1>6 DEF RunWait, WaitReturns, Reportable, Reap, CaptureRegs
<1>7. ASSUME NEW t \in Threads, ResumeOne(t) PROVE StopInv'
  <2>1. CASE OnBreakpoint(t) /\ StepOverBp(t, "overWait") /\ UNCHANGED todo
    <3>1. /\ EventInv'
          /\ \A u \in Threads :
               /\ u \notin {t} => st'[u] = st[u]
               /\ st[u] # "stop" => st'[u] = st[u]
               /\ st'[u] # "absent" \/ st[u] = "absent"
      BY <2>1 DEF StepOverBp, Resume
    <3> QED
      BY <1>7, <2>1, <3>1 DEF ResumeOne, StepOverBp
  <2>2. CASE ~OnBreakpoint(t) /\ UNCHANGED <<kernel, text, cur, lift, tp>>
    BY <1>7, <2>2 DEF ResumeOne
  <2> QED
    BY <1>7, <2>1, <2>2 DEF ResumeOne
<1>8. ASSUME NEW a \in Code, RunTo(a) PROVE StopInv'
  <2>1. /\ EventInv'
        /\ \A u \in Threads :
             /\ u \notin {active} => st'[u] = st[u]
             /\ st[u] # "stop" => st'[u] = st[u]
             /\ st'[u] # "absent" \/ st[u] = "absent"
    BY <1>8 DEF RunTo, Resume
  <2> QED
    BY <1>8, <2>1 DEF RunTo, Ready
<1> QED
  BY <1>1, <1>2, <1>3, <1>4, <1>5, <1>6, <1>7, <1>8

\* The commands that resume nothing, and cleanup.
LEMMA OtherStops ==
    ASSUME SessionInv,
           \/ ToggleExceptionBreakpoint \/ Detach \/ StartCleanup \/ CleanWait \/ CleanDone
           \/ \E t \in Threads : CleanOne(t) \/ SelectThread(t)
           \/ \E a \in Code : SetSoftBp(a) \/ RemoveSoftBp(a) \/ SetRegs(a)
           \/ \E r \in DebugRegs : SetHwBp(r) \/ RemoveHwBp(r)
    PROVE  StopInv'
<1> USE ConstantsAssumption
    DEF SessionInv, StopInv, TypeOK, flow, kernel, tables, scratch, session,
        EventInv, PresentInv, ControlInv, LeaderInv, FrozenInv, ActiveInv, ContextCurrent,
        Held, Halted, Settled
<1>1. CASE ToggleExceptionBreakpoint \/ Detach
  BY <1>1 DEF ToggleExceptionBreakpoint, Detach
<1>2. CASE StartCleanup
  BY <1>2 DEF StartCleanup
<1>3. CASE CleanWait
  BY <1>3 DEF CleanWait, Reap
<1>4. CASE CleanDone
  BY <1>4 DEF CleanDone
<1>5. ASSUME NEW t \in Threads, CleanOne(t) PROVE StopInv'
  BY <1>5 DEF CleanOne, Interrupt
<1>6. ASSUME NEW t \in Threads, SelectThread(t) PROVE StopInv'
  BY <1>6 DEF SelectThread, Ready, CaptureRegs
<1>7. ASSUME NEW a \in Code, SetSoftBp(a) \/ RemoveSoftBp(a) PROVE StopInv'
  BY <1>7 DEF SetSoftBp, RemoveSoftBp
<1>8. ASSUME NEW a \in Code, SetRegs(a) PROVE StopInv'
  BY <1>8 DEF SetRegs, Ready, CaptureRegs
<1>9. ASSUME NEW r \in DebugRegs, SetHwBp(r) \/ RemoveHwBp(r) PROVE StopInv'
  BY <1>9 DEF SetHwBp, RemoveHwBp
<1> QED
  BY <1>1, <1>2, <1>3, <1>4, <1>5, <1>6, <1>7, <1>8, <1>9

\* Every step keeps the invariant.
LEMMA SessionKept == ASSUME SessionInv, [Next]_vars PROVE SessionInv'
<1>1. TypeOK' /\ GoalInv'
  BY TypeKept, GoalKept DEF SessionInv
<1>2. StopInv'
  <2>1. CASE TracerStep
    BY <2>1, SeizeStops, PollStops, FreezeStops, ResumeStops, OtherStops DEF TracerStep
  <2>2. CASE Command
    BY <2>2, ResumeStops, OtherStops DEF Command
  <2>3. CASE Exit \/ \E t \in Threads : ThreadStep(t)
    BY <2>3, TargetStops
  <2>4. CASE UNCHANGED vars
    BY <2>4 DEF vars, flow, kernel, scratch, session, SessionInv, StopInv, EventInv,
                PresentInv, ControlInv, LeaderInv, FrozenInv, ActiveInv, ContextCurrent,
                Held, Halted, Settled
  <2> QED
    BY <2>1, <2>2, <2>3, <2>4 DEF Next
<1> QED
  BY <1>1, <1>2 DEF SessionInv

\* The invariant holds before the session attaches.
LEMMA InitSession == Init => SessionInv
<1> SUFFICES ASSUME Init PROVE StopInv
  BY InitTypes DEF SessionInv
<1> QED
  BY ConstantsAssumption
     DEF Init, StopInv, EventInv, PresentInv, ControlInv, LeaderInv, FrozenInv, ActiveInv,
         ContextCurrent, Held, Halted, Settled

\* The inductive invariant holds throughout.
THEOREM SessionCorrect == Spec => []SessionInv
BY InitSession, SessionKept, PTL DEF Spec

\* While the session reports a stop no traced thread runs, whatever clones, signals,
\* exits, commands and detaches interleave with the freezing loop.
THEOREM FrozenWhileStopped == Spec => []TracedFrozen
<1>1. SessionInv => TracedFrozen
  BY DEF SessionInv, StopInv, FrozenInv, Held, Halted, TracedFrozen
<1> QED
  BY <1>1, SessionCorrect, PTL

\* The registers reported at a stop are those of the active thread, whichever way the
\* stop was reached and however the user selects, steps or edits.
THEOREM ContextIsCurrent == Spec => []ContextCurrent
<1>1. SessionInv => ContextCurrent
  BY DEF SessionInv, StopInv
<1> QED
  BY <1>1, SessionCorrect, PTL
-----------------------------------------------------------------------------
(* The program is not disturbed                                            *)

\* The instances the code keeps transparent: no instruction is one byte long, so that
\* the address an int3 leaves rip at starts none, the target does not clone, no step
\* crosses another breakpoint, and breakpoints change only at a stop.
LongInstructions == \A a \in Code : a + 1 \notin Code
Calm == Moves \cap {"clone", "runAcross", "mutateRunning"} = {}

\* The process has ended.
Gone == \A t \in Threads : st[t] \in {"gone", "absent"}

Stepping == tp \in {"overWait", "stepWait", "runWait"}
AtStop   == tp = "resume" \/ (tp = "loop" /\ stopped)

\* Until then each thread is running free or in the session's hands.
OwnInv ==
    /\ tp # "cloneWait"
    /\ \A t \in Threads :
        /\ st[t] # "gone" /\ ev[t] \notin {"exit", "clone"}
        /\ st[t] \in {"run", "step", "stop"} =>
            tp # "done" /\ (t \in traced \/ (tp = "seizeWait" /\ t = cur))
        /\ st[t] = "free" =>
            tp \in {"off", "done"} \/ (tp \in {"seize", "seizeWait"} /\ t \in todo)
    /\ tp = "seizeWait" => st[cur] # "free"
    /\ tp \in {"clean", "cleanWait"} => \A t \in traced : st[t] = "stop" \/ t \in todo

\* No status is left over from before a stop.
QuietInv ==
    /\ AtStop \/ tp \in {"off", "seize"} => \A t \in Threads : ev[t] = "none"
    /\ Stepping \/ tp = "seizeWait" => \A t \in Threads : ev[t] = "none" \/ t = cur
    /\ tp \in {"stop", "stopWait"} => \A t \in Threads : ev[t] = "none" \/ t \in todo

\* The text is the code with the breakpoints in the table, less the one lifted for a
\* step; while a thread runs to an address the only int3 is there.
TextInv ==
    /\ \A a \in Code : soft[a] \in {"none", "code"}
    /\ tp \in {"off", "seize", "seizeWait"} => \A a \in Code : soft[a] = "none"
    /\ ~Stepping => lift = NoAddr
    /\ tp # "runWait" => \A a \in Code : text[a] = "int3" <=> (soft[a] # "none" /\ a # lift)
    /\ lift # NoAddr => soft[lift] # "none"
    /\ tp = "runWait" =>
        /\ \A a \in Code : text[a] = "int3" <=> a = goal
        /\ goal # lift
        /\ \A a \in Code : soft[a] # "none" => a \in {goal, lift}
        /\ temp = IF soft[goal] = "none" THEN "code" ELSE "none"
    /\ tp = "done" => \A a \in Code : text[a] = "code"

\* A thread stands where its program is, or one past an int3 it has just reported.
Past(t) == st[t] = "stop" /\ ev[t] = "trap" /\ rip[t] = due[t] + 1 /\ text[due[t]] = "int3"

FlowInv ==
    /\ Transparent
    /\ tp \notin {"clean", "cleanWait", "done"} => \A t \in Threads : rip[t] = due[t] \/ Past(t)
    /\ tp \in {"overWait", "stepWait"} =>
        /\ st[cur] # "run" /\ rip[cur] = due[cur]
        /\ st[cur] = "step" => text[due[cur]] = "code"

\* A debug register is armed only for an entry, and in a traced thread.
WatchInv ==
    /\ \A t \in Threads : dr[t] \subseteq hw /\ (dr[t] # {} => t \in traced)
    /\ tp = "done" => traced = {}

Live == OwnInv /\ QuietInv /\ TextInv /\ FlowInv /\ WatchInv

\* An ended process stays ended.
LEMMA GoneKept ==
    ASSUME TypeOK, Gone, [Next]_vars
    PROVE  Gone'
<1> USE DEF Gone, TypeOK, Undisturbed, flow, kernel
<1>1. CASE TracerStep
  <2>1. CASE StartTracer \/ SeizeWait \/ SeizeDone \/ PollNothingLeft \/ CloneWait
    BY <2>1 DEF StartTracer, SeizeWait, SeizeDone, PollNothingLeft, CloneWait, Resume
  <2>2. CASE StopWait \/ StopDone \/ OverWait \/ ResumeDone \/ StepWait \/ RunWait
    BY <2>2 DEF StopWait, StopDone, OverWait, ResumeDone, StepWait, RunWait, Resume
  <2>3. CASE StartCleanup \/ CleanWait \/ CleanDone
    BY <2>3 DEF StartCleanup, CleanWait, CleanDone, Alive
  <2>4. ASSUME NEW t \in Threads, SeizeOne(t) \/ StopOne(t) \/ ResumeOne(t) \/ CleanOne(t)
        PROVE  Gone'
    BY <2>4 DEF SeizeOne, StopOne, ResumeOne, CleanOne, StepOverBp, Resume, Interrupt
  <2>5. ASSUME NEW t \in Threads,
               \/ HandleExit(t) \/ HandleClone(t) \/ HandleWatchHit(t)
               \/ HandleBreakpointHit(t) \/ HandleException(t) \/ HandleOther(t)
        PROVE  Gone'
    BY <2>5 DEF HandleExit, HandleClone, HandleWatchHit, HandleBreakpointHit,
                HandleException, HandleOther, StopTheWorld, Resume
  <2> QED
    BY <1>1, <2>1, <2>2, <2>3, <2>4, <2>5 DEF TracerStep
<1>2. CASE Command
  <2>1. CASE Continue \/ StepInto \/ ToggleExceptionBreakpoint \/ Detach
    BY <2>1 DEF Continue, StepInto, StepOverBp, ToggleExceptionBreakpoint, Detach, Resume
  <2>2. ASSUME NEW a \in Code, RunTo(a) \/ SetSoftBp(a) \/ RemoveSoftBp(a) \/ SetRegs(a)
        PROVE  Gone'
    BY <2>2 DEF RunTo, SetSoftBp, RemoveSoftBp, SetRegs, Resume
  <2>3. ASSUME NEW r \in DebugRegs, SetHwBp(r) \/ RemoveHwBp(r) PROVE Gone'
    BY <2>3 DEF SetHwBp, RemoveHwBp
  <2>4. ASSUME NEW t \in Threads, SelectThread(t) PROVE Gone'
    BY <2>4 DEF SelectThread
  <2> QED
    BY <1>2, <2>1, <2>2, <2>3, <2>4 DEF Command
<1>3. CASE Exit \/ \E t \in Threads : ThreadStep(t)
  BY <1>3 DEF Exit, ThreadStep, RunIntoInt3, Execute, TakeInterrupt, Signal, Clone
<1>4. CASE UNCHANGED vars
  BY <1>4 DEF vars
<1> QED
  BY <1>1, <1>2, <1>3, <1>4 DEF Next

\* At a stop every thread there is stands where its program is, and the text can be
\* written; in a step the same holds of the others.
LEMMA StopFacts ==
    ASSUME SessionInv, Live
    PROVE  /\ AtStop => CanPoke /\ \A t \in Threads :
                /\ st[t] \in {"stop", "absent"} /\ ev[t] = "none" /\ rip[t] = due[t]
                /\ st[t] = "stop" => t \in traced
           /\ Stepping /\ WaitReturns(cur) => CanPoke /\ st[cur] = "stop"
           /\ Stepping => \A t \in Threads \ {cur} :
                st[t] \in {"stop", "absent"} /\ ev[t] = "none" /\ rip[t] = due[t]
<1> USE DEF SessionInv, StopInv, Live, AtStop, Stepping
<1>1. \A t \in Threads : st[t] \in {"run", "step", "stop", "free", "absent"}
  BY DEF TypeOK, OwnInv, Alive
<1>2. Main \in Threads /\ st[Main] # "absent"
  BY ConstantsAssumption DEF PresentInv
<1>3. ASSUME AtStop, NEW t \in Threads
      PROVE  /\ st[t] \in {"stop", "absent"} /\ ev[t] = "none" /\ rip[t] = due[t]
             /\ st[t] = "stop" => t \in traced
  <2>1. st[t] # "free" /\ (st[t] \in {"run", "step", "stop"} => t \in traced)
    BY <1>3 DEF OwnInv
  <2>2. t \in traced => Halted(t)
    BY <1>3 DEF FrozenInv, Held
  <2>3. ev[t] = "none"
    BY <1>3 DEF QuietInv
  <2>4. rip[t] = due[t]
    BY <1>3, <2>3 DEF FlowInv, Past
  <2> QED
    BY <1>1, <2>1, <2>2, <2>3, <2>4 DEF Halted, OwnInv
<1>4. ASSUME Stepping, NEW t \in Threads \ {cur}
      PROVE  st[t] \in {"stop", "absent"} /\ ev[t] = "none" /\ rip[t] = due[t]
  <2>1. st[t] # "free" /\ (st[t] \in {"run", "step", "stop"} => t \in traced)
    BY <1>4 DEF OwnInv
  <2>2. t \in traced => Halted(t)
    BY <1>4 DEF FrozenInv, Held
  <2>3. ev[t] = "none"
    BY <1>4 DEF QuietInv
  <2>4. rip[t] = due[t]
    BY <1>4, <2>3 DEF FlowInv, Past
  <2> QED
    BY <1>1, <2>1, <2>2, <2>3, <2>4 DEF Halted, OwnInv
<1>5. ASSUME Stepping, WaitReturns(cur) PROVE st[cur] = "stop"
  <2>1. cur \in Threads
    BY DEF TypeOK
  <2> QED
    BY <1>5, <2>1, <1>1 DEF WaitReturns, Reportable, OwnInv, EventInv, Halted
<1> QED
  BY <1>2, <1>3, <1>4, <1>5 DEF CanPoke

\* What a poke leaves at each address.
LEMMA PokedAt ==
    ASSUME NEW mem \in [Code -> Bytes], NEW a \in Code, NEW b \in Bytes, CanPoke
    PROVE  \A c \in Code : Poked(mem, a, b)[c] = IF c = a THEN b ELSE mem[c]
BY ConstantsAssumption DEF Poked, NoAddr

\* A thread that is one past an armed int3 is one past the instruction it is due at.
LEMMA PastArmed ==
    ASSUME LongInstructions, SessionInv, Live, NEW t \in Threads,
           tp \notin {"clean", "cleanWait", "done"}, ~Stepping
    PROVE  /\ Armed(rip[t] - 1) => rip[t] - 1 = due[t]
           /\ ~Armed(rip[t] - 1) => rip[t] = due[t]
<1> USE ConstantsAssumption DEF SessionInv, Live, TypeOK
<1>1. due[t] \in Code /\ due[t] \in Nat /\ due[t] # NoAddr
  BY DEF NoAddr
<1>2. rip[t] = due[t] \/ (rip[t] = due[t] + 1 /\ text[due[t]] = "int3")
  BY DEF FlowInv, Past
<1>3. rip[t] = due[t] => ~Armed(rip[t] - 1)
  <2>1. SUFFICES ASSUME rip[t] = due[t], rip[t] - 1 \in Code PROVE FALSE
    BY DEF Armed
  <2>2. due[t] - 1 + 1 = due[t]
    BY <1>1
  <2> QED
    BY <1>1, <2>1, <2>2 DEF LongInstructions
<1>4. text[due[t]] = "int3" => Armed(due[t])
  BY <1>1 DEF TextInv, Stepping, Armed
<1>5. rip[t] = due[t] + 1 => rip[t] - 1 = due[t]
  BY <1>1
<1> QED
  BY <1>2, <1>3, <1>4, <1>5

\* Steps of the target: what runs is due where it is, and a thread that runs into an
\* int3 is one past it. Only an exit ends the process.
LEMMA TargetLive ==
    ASSUME Calm, SessionInv, Live, NEW t \in Threads, ThreadStep(t)
    PROVE  Live'
<1> USE ConstantsAssumption
    DEF SessionInv, StopInv, Live, TypeOK, Undisturbed, flow, kernel, tables, scratch, session,
        Alive, Stepping, AtStop
<1>1. CASE RunIntoInt3(t) \/ TakeInterrupt(t) \/ Signal(t) \/ Execute(t)
  <2>2. OwnInv'
    BY <1>1 DEF RunIntoInt3, TakeInterrupt, Signal, Execute, OwnInv
  <2>3. QuietInv'
    <3>1. /\ \A u \in Threads : u # t => ev'[u] = ev[u]
          /\ st[t] = "free" => ev'[t] = ev[t]
          /\ UNCHANGED <<tp, cur, todo, stopped>>
      BY <1>1 DEF RunIntoInt3, TakeInterrupt, Signal, Execute
    <3>2. ASSUME st[t] # "free"
          PROVE  /\ ~AtStop /\ tp \notin {"off", "seize"}
                 /\ Stepping \/ tp = "seizeWait" => t = cur
                 /\ tp \in {"stop", "stopWait"} => t \in todo
      <4>1. ~Halted(t) /\ st[t] \in {"run", "step", "stop"}
        BY <1>1, <3>2 DEF RunIntoInt3, TakeInterrupt, Signal, Execute, Halted
      <4>2. t \in Held \/ (tp = "seizeWait" /\ t = cur)
        BY <4>1 DEF OwnInv, Held
      <4> QED
        BY <4>1, <4>2 DEF FrozenInv, ControlInv, Held
    <3> QED
      BY <3>1, <3>2 DEF QuietInv
  <2>4. TextInv'
    BY <1>1 DEF RunIntoInt3, TakeInterrupt, Signal, Execute, TextInv
  <2>5. FlowInv'
    <3>1. \A u \in Threads : rip[u] = due[u] \/ Past(u) => (rip[u] = due[u] \/ Past(u))'
      BY <1>1 DEF RunIntoInt3, TakeInterrupt, Signal, Execute, FlowInv, Past, Transparent
    <3>2. Transparent'
      BY <1>1 DEF RunIntoInt3, TakeInterrupt, Signal, Execute, FlowInv, Transparent
    <3>3. tp' = tp /\ cur' = cur
      BY <1>1 DEF RunIntoInt3, TakeInterrupt, Signal, Execute
    <3>4. ASSUME tp \in {"overWait", "stepWait"}
          PROVE  /\ st'[cur] # "run" /\ rip'[cur] = due'[cur]
                 /\ st'[cur] = "step" => text'[due'[cur]] = "code"
      <4>1. st[cur] # "run" /\ rip[cur] = due[cur]
            /\ (st[cur] = "step" => text[due[cur]] = "code")
        BY <3>4 DEF FlowInv
      <4> QED
        BY <1>1, <3>4, <4>1, StopFacts DEF RunIntoInt3, TakeInterrupt, Signal, Execute
    <3> QED
      BY <3>1, <3>2, <3>3, <3>4 DEF FlowInv
  <2>6. WatchInv'
    BY <1>1 DEF RunIntoInt3, TakeInterrupt, Signal, Execute, WatchInv
  <2> QED
    BY <2>2, <2>3, <2>4, <2>5, <2>6
<1>2. ASSUME NEW new \in Threads, Clone(t, new) PROVE FALSE
  BY <1>2 DEF Clone, Calm
<1> QED
  BY <1>1, <1>2 DEF ThreadStep

\* Seizing: nothing is planted yet, and each thread stops where it is.
LEMMA SeizeLive ==
    ASSUME SessionInv, Live, TypeOK',
           StartTracer \/ SeizeWait \/ SeizeDone \/ \E t \in Threads : SeizeOne(t)
    PROVE  Live'
<1> USE ConstantsAssumption
    DEF SessionInv, StopInv, Live, TypeOK, flow, kernel, tables, scratch, session,
        Alive, Stepping, AtStop, OwnInv, QuietInv, TextInv, FlowInv, Transparent, Past, WatchInv
<1>1. CASE StartTracer
  BY <1>1 DEF StartTracer, ControlInv, Held
<1>2. CASE SeizeWait
  <2>2. st[cur] = "stop" /\ tp = "seizeWait"
    BY <1>2 DEF SeizeWait, WaitReturns, Reportable, EventInv, Halted
  <2>3. OwnInv'
    BY <1>2, <2>2 DEF SeizeWait, Reap
  <2>4. QuietInv' /\ TextInv' /\ WatchInv'
    BY <1>2, <2>2 DEF SeizeWait, Reap
  <2>5. FlowInv'
    <3>1. \A u \in Threads : rip[u] = due[u]
      <4>1. SUFFICES ASSUME NEW u \in Threads, Past(u) PROVE FALSE
        BY <2>2
      <4>2. due[u] \in Code /\ due[u] # lift
        BY <2>2 DEF NoAddr
      <4> QED
        BY <2>2, <4>1, <4>2
    <3> QED
      BY <1>2, <2>2, <3>1 DEF SeizeWait, Reap
  <2> QED
    BY <2>3, <2>4, <2>5
<1>3. CASE SeizeDone
  <2>1. Main \in Threads /\ st[Main] \in {"run", "step", "stop"}
    BY <1>3 DEF SeizeDone, PresentInv
  <2>2. traced # {}
    BY <1>3, <2>1 DEF SeizeDone
  <2> QED
    BY <1>3, <2>2 DEF SeizeDone
<1>4. ASSUME NEW t \in Threads, SeizeOne(t) PROVE Live'
  BY <1>4 DEF SeizeOne, EventInv, Halted
<1> QED
  BY <1>1, <1>2, <1>3, <1>4

\* Polling: a status tells an int3 just met from every other stop.
LEMMA PollLive ==
    ASSUME LongInstructions, SessionInv, Live, TypeOK',
           \/ PollNothingLeft \/ CloneWait
           \/ \E t \in Threads :
                \/ HandleExit(t) \/ HandleClone(t) \/ HandleWatchHit(t)
                \/ HandleBreakpointHit(t) \/ HandleException(t) \/ HandleOther(t)
    PROVE  Live'
<1> USE ConstantsAssumption
    DEF SessionInv, StopInv, Live, TypeOK, flow, kernel, tables, scratch, session,
        Alive, Stepping, AtStop, Polling
<1>1. CASE PollNothingLeft
  BY <1>1 DEF PollNothingLeft, OwnInv, QuietInv, TextInv, FlowInv, Transparent, Past, WatchInv
<1>2. CASE CloneWait
  BY <1>2 DEF CloneWait, OwnInv
<1>3. ASSUME NEW t \in Threads, HandleExit(t) \/ HandleClone(t) PROVE FALSE
  BY <1>3 DEF HandleExit, HandleClone, OwnInv
<1>4. ASSUME NEW t \in Threads, StopTheWorld(t), tp = "loop", ~stopped, ev[t] # "none",
             rip' = [rip EXCEPT ![t] = due[t]]
      PROVE  Live'
  <2> USE <1>4 DEF StopTheWorld, Others, Reap
  <2>1. stoppedTids = {}
    BY DEF ControlInv
  <2>2. OwnInv'
    BY DEF OwnInv
  <2>3. QuietInv'
    BY <2>1 DEF QuietInv, OwnInv, EventInv, Halted
  <2>4. TextInv'
    BY DEF TextInv
  <2>5. FlowInv'
    BY DEF FlowInv, Transparent, Past
  <2>6. WatchInv'
    BY DEF WatchInv
  <2> QED
    BY <2>2, <2>3, <2>4, <2>5, <2>6
<1>5. ASSUME NEW t \in Threads, HandleWatchHit(t) \/ HandleException(t) PROVE Live'
  <2>1. rip[t] = due[t] /\ rip' = rip
    BY <1>5 DEF HandleWatchHit, IsWatchHit, HandleException, FlowInv, Past
  <2>2. rip' = [rip EXCEPT ![t] = due[t]]
    BY <2>1
  <2> QED
    BY <1>4, <1>5, <2>2 DEF HandleWatchHit, IsWatchHit, HandleException
<1>6. ASSUME NEW t \in Threads, HandleBreakpointHit(t) PROVE Live'
  <2>1. rip' = [rip EXCEPT ![t] = due[t]]
    BY <1>6, PastArmed DEF HandleBreakpointHit
  <2> QED
    BY <1>4, <1>6, <2>1 DEF HandleBreakpointHit
<1>7. ASSUME NEW t \in Threads, HandleOther(t) PROVE Live'
  <2>1. rip[t] = due[t]
    BY <1>7, PastArmed DEF HandleOther, FlowInv, Past
  <2>2. Resume({t}, "run", ev)
    BY <1>7 DEF HandleOther
  <2>3. /\ \A u \in Threads \ {t} : st'[u] = st[u] /\ ev'[u] = ev[u]
        /\ st'[t] = st[t] \/ (st[t] = "stop" /\ st'[t] = "run")
        /\ ev'[t] \in {"none", "trap", ev[t]}
    BY <2>2 DEF Resume
  <2>4. OwnInv'
    BY <1>7, <2>3 DEF HandleOther, OwnInv
  <2>5. FlowInv'
    BY <1>7, <2>1, <2>3 DEF HandleOther, FlowInv, Transparent, Past
  <2> QED
    BY <1>7, <2>4, <2>5 DEF HandleOther, QuietInv, TextInv, WatchInv
<1> QED
  BY <1>1, <1>2, <1>3, <1>5, <1>6, <1>7

\* Stopping the others: each is rewound from an int3 it met on the way.
LEMMA FreezeLive ==
    ASSUME LongInstructions, SessionInv, Live, TypeOK',
           StopWait \/ StopDone \/ \E t \in Threads : StopOne(t)
    PROVE  Live'
<1> USE ConstantsAssumption
    DEF SessionInv, StopInv, Live, TypeOK, flow, kernel, tables, scratch, session,
        Alive, Stepping, AtStop, OwnInv, QuietInv, TextInv, FlowInv, Transparent, Past, WatchInv
<1>1. CASE StopWait
  <2>1. st[cur] = "stop"
    BY <1>1 DEF StopWait, WaitReturns, Reportable, EventInv, Halted
  <2>2. rip' = [rip EXCEPT ![cur] = due[cur]]
    <3>1. Armed(rip[cur] - 1) => rip[cur] - 1 = due[cur]
      BY <1>1, PastArmed DEF StopWait
    <3>2. ~Armed(rip[cur] - 1) => rip[cur] = due[cur]
      BY <1>1, PastArmed DEF StopWait
    <3>3. ev[cur] \notin Traps => rip[cur] = due[cur]
      BY <1>1 DEF StopWait, Traps
    <3>4. CASE ev[cur] \in Traps /\ Armed(rip[cur] - 1)
      BY <1>1, <3>1, <3>4 DEF StopWait, Rewound
    <3>5. CASE ~(ev[cur] \in Traps /\ Armed(rip[cur] - 1))
      <4>1. rip' = rip /\ rip[cur] = due[cur]
        BY <1>1, <3>2, <3>3, <3>5 DEF StopWait, Rewound
      <4> QED
        BY <4>1
    <3> QED
      BY <3>4, <3>5
  <2> QED
    BY <1>1, <2>1, <2>2 DEF StopWait, Reap
<1>2. CASE StopDone
  BY <1>2 DEF StopDone
<1>3. ASSUME NEW t \in Threads, StopOne(t) PROVE Live'
  BY <1>3 DEF StopOne, Interrupt, Traceable
<1> QED
  BY <1>1, <1>2, <1>3

\* Lifting an int3 to step over it: only the stepped thread may pass it.
LEMMA StepOverLive ==
    ASSUME SessionInv, Live, TypeOK', AtStop, NEW t \in Threads, OnBreakpoint(t),
           NEW next \in {"overWait", "stepWait"}, StepOverBp(t, next),
           UNCHANGED <<flow, dr, goal, temp, soft, hw, traced>>
    PROVE  Live'
<1> USE ConstantsAssumption
    DEF SessionInv, StopInv, Live, TypeOK, flow, Stepping, AtStop
<1>1. /\ CanPoke /\ \A u \in Threads : ev[u] = "none" /\ rip[u] = due[u]
      /\ \A u \in Threads : st[u] \in {"stop", "absent"} /\ (st[u] = "stop" => u \in traced)
  BY StopFacts
<1>2. rip[t] \in Code /\ soft[rip[t]] = "code" /\ st[t] = "stop"
  BY DEF OnBreakpoint, Armed, TextInv
<1>3. /\ tp' = next /\ cur' = t /\ lift' = rip[t]
      /\ text' = Poked(text, rip[t], "code")
      /\ Resume({t}, "step", ev)
  BY <1>2 DEF StepOverBp
<1>4. \A c \in Code : text'[c] = IF c = rip[t] THEN "code" ELSE text[c]
  BY <1>1, <1>2, <1>3, PokedAt DEF Bytes
<1>5. /\ \A u \in Threads \ {t} : st'[u] = st[u] /\ ev'[u] = ev[u]
      /\ st'[t] \in {"step", "stop"} /\ ev'[t] \in {"none", "trap"}
  BY <1>2, <1>3 DEF Resume
<1>6. OwnInv' /\ QuietInv'
  BY <1>1, <1>2, <1>3, <1>5 DEF OwnInv, QuietInv
<1>7. TextInv'
  <2>1. lift = NoAddr /\ \A a \in Code : text[a] = "int3" <=> soft[a] # "none"
    BY DEF TextInv, NoAddr
  <2>2. \A a \in Code : text'[a] = "int3" <=> (soft[a] # "none" /\ a # rip[t])
    BY <2>1, <1>4
  <2> QED
    BY <1>2, <1>3, <2>2 DEF TextInv
<1>8. FlowInv'
  BY <1>1, <1>2, <1>3, <1>4, <1>5 DEF FlowInv, Transparent
<1>9. WatchInv'
  BY <1>3 DEF WatchInv
<1> QED
  BY <1>6, <1>7, <1>8, <1>9

\* Resuming everyone, and single steps.
LEMMA ResumeLive ==
    ASSUME SessionInv, Live, TypeOK',
           \/ Continue \/ OverWait \/ ResumeDone \/ StepInto \/ StepWait
           \/ \E t \in Threads : ResumeOne(t)
    PROVE  Live'
<1> USE ConstantsAssumption
    DEF SessionInv, StopInv, Live, TypeOK, flow, kernel, tables, scratch, session,
        Stepping, AtStop
<1>1. CASE Continue
  <2>1. AtStop /\ AtStop' /\ ~Stepping
    BY <1>1 DEF Continue, Ready
  <2>2. OwnInv' /\ QuietInv'
    BY <1>1, <2>1 DEF Continue, OwnInv, QuietInv
  <2>3. TextInv' /\ WatchInv'
    BY <1>1, <2>1 DEF Continue, Ready, TextInv, WatchInv
  <2>4. FlowInv'
    BY <1>1, <2>1 DEF Continue, Ready, FlowInv, Transparent, Past
  <2> QED
    BY <2>2, <2>3, <2>4
<1>2. CASE OverWait \/ StepWait
  <2>1. tp \in {"overWait", "stepWait"} /\ WaitReturns(cur) /\ AtStop'
    BY <1>2 DEF OverWait, StepWait
  <2>2. /\ CanPoke /\ \A u \in Threads : rip[u] = due[u] /\ st[u] \in {"stop", "absent"}
        /\ \A u \in Threads \ {cur} : ev[u] = "none"
    BY <2>1, StopFacts DEF FlowInv
  <2>3. UNCHANGED <<st, rip, due, soft, dr, hw, traced>> /\ Reap(cur)
    BY <1>2 DEF OverWait, StepWait
  <2>4. text' = Rearmed(text) /\ lift' = NoAddr
    BY <1>2 DEF OverWait, StepWait
  <2>5. \A a \in Code : text'[a] = "int3" <=> soft[a] # "none"
    <3>1. CASE lift = NoAddr
      BY <2>1, <2>4, <3>1 DEF TextInv, Rearmed, Armed, NoAddr
    <3>2. CASE lift # NoAddr
      <4>1. lift \in Code /\ soft[lift] # "none" /\ Rearmed(text) = Poked(text, lift, "int3")
        BY <3>2 DEF TextInv, Rearmed, Armed
      <4>2. \A c \in Code : text'[c] = IF c = lift THEN "int3" ELSE text[c]
        BY <2>2, <2>4, <4>1, PokedAt DEF Bytes
      <4>3. \A a \in Code : text[a] = "int3" <=> (soft[a] # "none" /\ a # lift)
        BY <2>1 DEF TextInv
      <4> QED
        BY <4>1, <4>2, <4>3
    <3> QED
      BY <3>1, <3>2
  <2>6. OwnInv' /\ QuietInv'
    BY <2>1, <2>2, <2>3 DEF OwnInv, QuietInv, Reap
  <2>7. TextInv'
    BY <2>1, <2>3, <2>4, <2>5 DEF TextInv, NoAddr
  <2>8. FlowInv' /\ WatchInv'
    BY <2>1, <2>2, <2>3 DEF FlowInv, Transparent, WatchInv
  <2> QED
    BY <2>6, <2>7, <2>8
<1>3. CASE ResumeDone
  <2>1. \A u \in Threads : /\ st[u] \in {"stop", "absent"} /\ ev[u] = "none"
                           /\ rip[u] = due[u] /\ (st[u] = "stop" => u \in traced)
    BY <1>3, StopFacts DEF ResumeDone
  <2>2. \A u \in Threads : /\ st'[u] \in {"run", "stop", "absent"} /\ ev'[u] \in {"none", "trap"}
                           /\ (st[u] = "absent" => st'[u] = "absent")
    BY <1>3, <2>1 DEF ResumeDone, Resume
  <2>3. OwnInv' /\ QuietInv'
    BY <1>3, <2>1, <2>2 DEF ResumeDone, OwnInv, QuietInv
  <2>4. TextInv' /\ WatchInv'
    BY <1>3 DEF ResumeDone, TextInv, WatchInv
  <2>5. FlowInv'
    BY <1>3, <2>1 DEF ResumeDone, FlowInv, Transparent
  <2> QED
    BY <2>3, <2>4, <2>5
<1>4. CASE StepInto
  <2>1. AtStop
    BY <1>4 DEF StepInto, Ready
  <2>2. CASE OnBreakpoint(active) /\ StepOverBp(active, "stepWait")
    BY <1>4, <2>1, <2>2, StepOverLive DEF StepInto
  <2>3. CASE ~OnBreakpoint(active) /\ Resume({active}, "step", ev) /\ UNCHANGED <<text, lift>>
             /\ cur' = active /\ tp' = "stepWait"
    <3>1. \A u \in Threads : /\ st[u] \in {"stop", "absent"} /\ ev[u] = "none"
                             /\ rip[u] = due[u] /\ (st[u] = "stop" => u \in traced)
      BY <2>1, StopFacts
    <3>2. /\ \A u \in Threads \ {active} : st'[u] = st[u] /\ ev'[u] = ev[u]
          /\ st'[active] \in {"step", "stop", "absent"} /\ ev'[active] \in {"none", "trap"}
          /\ st[active] = "absent" => st'[active] = "absent"
      BY <2>3, <3>1 DEF Resume
    <3>3. st'[active] = "step" => text[due[active]] = "code"
      <4>1. SUFFICES ASSUME st'[active] = "step" PROVE text[due[active]] = "code"
        OBVIOUS
      <4>2. st[active] = "stop" /\ due[active] \in Code
        BY <2>3, <3>1, <4>1 DEF Resume
      <4>3. soft[due[active]] = "none"
        BY <2>3, <3>1, <4>2 DEF OnBreakpoint, Armed
      <4> QED
        BY <2>1, <4>2, <4>3 DEF TextInv, Bytes
    <3>4. OwnInv' /\ QuietInv'
      BY <1>4, <2>3, <3>1, <3>2 DEF StepInto, OwnInv, QuietInv
    <3>5. TextInv' /\ WatchInv'
      BY <1>4, <2>1, <2>3 DEF StepInto, TextInv, WatchInv
    <3>6. FlowInv'
      BY <1>4, <2>3, <3>1, <3>2, <3>3 DEF StepInto, FlowInv, Transparent
    <3> QED
      BY <3>4, <3>5, <3>6
  <2> QED
    BY <1>4, <2>2, <2>3 DEF StepInto
<1>5. ASSUME NEW t \in Threads, ResumeOne(t) PROVE Live'
  <2>1. CASE OnBreakpoint(t) /\ StepOverBp(t, "overWait")
    BY <1>5, <2>1, StepOverLive DEF ResumeOne
  <2>2. CASE todo' = todo \ {t} /\ UNCHANGED <<kernel, text, cur, lift, tp>>
    BY <1>5, <2>2 DEF ResumeOne, OwnInv, QuietInv, TextInv, FlowInv, Transparent, Past, WatchInv
  <2> QED
    BY <1>5, <2>1, <2>2 DEF ResumeOne
<1> QED
  BY <1>1, <1>2, <1>3, <1>4, <1>5

\* Running the active thread to an address: the int3 there is the only one.
LEMMA RunToLive ==
    ASSUME Calm, SessionInv, Live, TypeOK', NEW a \in Code, RunTo(a)
    PROVE  Live'
<1> USE ConstantsAssumption
    DEF SessionInv, StopInv, Live, TypeOK, flow, kernel, tables, scratch, session, Stepping, AtStop
<1>1. /\ CanPoke /\ \A u \in Threads : st[u] \in {"stop", "absent"} /\ ev[u] = "none"
      /\ \A u \in Threads : rip[u] = due[u] /\ (st[u] = "stop" => u \in traced)
  BY StopFacts DEF RunTo, Ready
<1>2. /\ tp = "loop" /\ active \in Threads /\ st[active] = "stop" /\ a # rip[active]
      /\ \A b \in Code \ {a, rip[active]} : soft[b] = "none"
  BY DEF RunTo, Ready, Calm
<1>3. lift = NoAddr /\ \A b \in Code : text[b] = "int3" <=> soft[b] # "none"
  BY <1>2 DEF TextInv, NoAddr
<1> DEFINE here   == IF Armed(rip[active]) THEN rip[active] ELSE NoAddr
           lifted == IF here = NoAddr THEN text ELSE Poked(text, here, soft[here])
<1>4. /\ lift' = here
      /\ temp' = IF ~Armed(a) THEN lifted[a] ELSE "none"
      /\ text' = IF ~Armed(a) THEN Poked(lifted, a, "int3") ELSE lifted
  BY <1>1 DEF RunTo
<1>5. /\ lifted \in [Code -> Bytes]
      /\ \A c \in Code : lifted[c] = "int3" <=> (soft[c] # "none" /\ c # here)
  <2>1. CASE Armed(rip[active])
    <3>1. here = rip[active] /\ here \in Code /\ here # NoAddr /\ soft[here] = "code"
      BY <2>1 DEF Armed, NoAddr, TextInv
    <3>2. lifted = Poked(text, rip[active], "code")
      BY <3>1
    <3>3. \A c \in Code : lifted[c] = IF c = rip[active] THEN "code" ELSE text[c]
      <4>1. text \in [Code -> Bytes] /\ rip[active] \in Code /\ "code" \in Bytes /\ CanPoke
        BY <1>1, <3>1 DEF Bytes
      <4>2. \A c \in Code :
              Poked(text, rip[active], "code")[c] = IF c = rip[active] THEN "code" ELSE text[c]
        BY ONLY <4>1, PokedAt
      <4> QED
        BY ONLY <3>2, <4>2
    <3>4. lifted \in [Code -> Bytes]
      BY <3>1, <3>2, PokedType DEF Bytes
    <3> QED
      BY <1>3, <3>1, <3>3, <3>4
  <2>2. CASE ~Armed(rip[active])
    <3>1. here = NoAddr /\ lifted = text /\ NoAddr \notin Code
      BY <2>2 DEF NoAddr
    <3> QED
      BY <1>3, <3>1
  <2> QED
    BY <2>1, <2>2
<1>6. here # a /\ here \in Code \cup {NoAddr} /\ (here # NoAddr => here = rip[active] /\ Armed(here))
  BY <1>2 DEF Armed, NoAddr
<1> HIDE DEF here, lifted
<1>7. \A c \in Code : text'[c] = IF c = a /\ ~Armed(a) THEN "int3" ELSE lifted[c]
  <2>1. "int3" \in Bytes
    BY DEF Bytes
  <2>2. \A c \in Code : Poked(lifted, a, "int3")[c] = IF c = a THEN "int3" ELSE lifted[c]
    BY <1>1, <1>5, <2>1, PokedAt
  <2> QED
    BY <1>4, <2>2
<1>8. \A c \in Code : soft[c] # "none" => c \in {a, here}
  <2>1. Armed(rip[active]) => here = rip[active]
    BY DEF here
  <2> QED
    BY <1>2, <2>1 DEF Armed
<1>9. /\ tp' = "runWait" /\ cur' = active /\ goal' = a /\ Resume({active}, "run", ev)
      /\ UNCHANGED <<rip, due, soft, dr, hw, traced>>
  BY DEF RunTo
<1>10. /\ \A u \in Threads \ {active} : st'[u] = st[u] /\ ev'[u] = ev[u]
       /\ st'[active] \in {"run", "stop"} /\ ev'[active] \in {"none", "trap"}
  BY <1>1, <1>2, <1>9 DEF Resume
<1>11. OwnInv' /\ QuietInv'
  BY <1>1, <1>2, <1>9, <1>10 DEF OwnInv, QuietInv
<1>12. TextInv'
  <2>1. \A c \in Code : text'[c] = "int3" <=> c = a
    BY <1>5, <1>6, <1>7, <1>8 DEF Armed
  <2>2. temp' = IF soft[a] = "none" THEN "code" ELSE "none"
    BY <1>4, <1>5 DEF Armed, Bytes
  <2>3. here # NoAddr => soft[here] # "none"
    BY <1>6 DEF Armed
  <2> QED
    BY <1>4, <1>6, <1>8, <1>9, <2>1, <2>2, <2>3 DEF TextInv
<1>13. FlowInv' /\ WatchInv'
  BY <1>1, <1>9 DEF FlowInv, Transparent, WatchInv
<1> QED
  BY <1>11, <1>12, <1>13

\* The run has ended, at the address or elsewhere: the thread stands where its program
\* is, and the text is as before.
LEMMA RunWaitLive ==
    ASSUME LongInstructions, SessionInv, Live, TypeOK', RunWait
    PROVE  Live'
<1> USE ConstantsAssumption
    DEF SessionInv, StopInv, Live, TypeOK, flow, Stepping, AtStop
<1>1. /\ tp = "runWait" /\ tp' = "loop" /\ stopped' = TRUE /\ lift' = NoAddr
      /\ text' = Rearmed(ClearTemp(text)) /\ Reap(cur)
      /\ UNCHANGED <<st, due, soft, dr, hw, traced>>
  BY DEF RunWait, kernel, tables, scratch, session
<1>2. /\ CanPoke /\ \A u \in Threads : st[u] \in {"stop", "absent"}
      /\ \A u \in Threads \ {cur} : ev[u] = "none" /\ rip[u] = due[u]
      /\ st[cur] = "stop"
  BY StopFacts DEF RunWait
<1>3. goal \in Code /\ goal # lift /\ (temp = IF soft[goal] = "none" THEN "code" ELSE "none")
      /\ (\A a \in Code : text[a] = "int3" <=> a = goal)
      /\ \A a \in Code : soft[a] # "none" => a \in {goal, lift}
  BY <1>1 DEF TextInv, GoalInv
<1>4. rip' = [rip EXCEPT ![cur] = due[cur]]
  <2>1. CASE rip[cur] = goal + 1
    <3>1. rip[cur] # due[cur]
      BY <1>3, <2>1 DEF LongInstructions
    <3>2. text[due[cur]] = "int3"
      BY <1>1, <3>1 DEF FlowInv, Past
    <3>3. due[cur] = goal
      BY <1>3, <3>2
    <3>4. rip' = [rip EXCEPT ![cur] = goal]
      BY <1>2, <2>1 DEF RunWait
    <3> QED
      BY ONLY <3>3, <3>4
  <2>2. CASE rip[cur] # goal + 1
    <3>1. due[cur] \in Code /\ (text[due[cur]] = "int3" => due[cur] = goal)
      BY <1>3
    <3>2. rip[cur] = due[cur]
      BY <1>1, <2>2, <3>1 DEF FlowInv, Past
    <3>3. rip' = rip
      BY <2>2 DEF RunWait
    <3> QED
      BY <3>2, <3>3
  <2> QED
    BY <2>1, <2>2
<1> DEFINE cleared == ClearTemp(text)
<1>5. /\ cleared \in [Code -> Bytes]
      /\ \A c \in Code : cleared[c] = "int3" <=> (c = goal /\ soft[goal] # "none")
  <2>1. CASE soft[goal] = "none"
    <3>1. temp = "code" /\ cleared = Poked(text, goal, "code")
      BY <1>3, <2>1 DEF ClearTemp
    <3>2. \A c \in Code : cleared[c] = IF c = goal THEN "code" ELSE text[c]
      BY <1>2, <1>3, <3>1, PokedAt DEF Bytes
    <3>3. cleared \in [Code -> Bytes]
      BY <1>3, <3>1, PokedType DEF Bytes
    <3> QED
      BY <1>3, <2>1, <3>2, <3>3
  <2>2. CASE soft[goal] # "none"
    BY <1>3, <2>2 DEF ClearTemp
  <2> QED
    BY <2>1, <2>2
<1> HIDE DEF cleared
<1>6. \A c \in Code : text'[c] = "int3" <=> soft[c] # "none"
  <2>0. text' = Rearmed(cleared)
    BY <1>1 DEF cleared
  <2>1. CASE lift = NoAddr
    BY <2>0, <1>3, <1>5, <2>1 DEF Rearmed, Armed, NoAddr
  <2>2. CASE lift # NoAddr
    <3>1. lift \in Code /\ soft[lift] # "none" /\ text' = Poked(cleared, lift, "int3")
      BY <2>0, <2>2 DEF TextInv, Rearmed, Armed
    <3>2. \A c \in Code : text'[c] = IF c = lift THEN "int3" ELSE cleared[c]
      BY <1>2, <1>5, <3>1, PokedAt DEF Bytes
    <3> QED
      BY <1>3, <1>5, <3>1, <3>2
  <2> QED
    BY <2>1, <2>2
<1>7. OwnInv' /\ QuietInv'
  BY <1>1, <1>2 DEF OwnInv, QuietInv, Reap
<1>8. TextInv'
  BY <1>1, <1>6 DEF TextInv, NoAddr
<1>9. FlowInv' /\ WatchInv'
  BY <1>1, <1>2, <1>4 DEF FlowInv, Transparent, WatchInv
<1> QED
  BY <1>7, <1>8, <1>9

\* The commands that resume nothing.
LEMMA CommandLive ==
    ASSUME Calm, SessionInv, Live, TypeOK',
           \/ ToggleExceptionBreakpoint \/ Detach
           \/ \E t \in Threads : SelectThread(t)
           \/ \E a \in Code : SetSoftBp(a) \/ RemoveSoftBp(a) \/ SetRegs(a)
           \/ \E r \in DebugRegs : SetHwBp(r) \/ RemoveHwBp(r)
    PROVE  Live'
<1> USE ConstantsAssumption
    DEF SessionInv, StopInv, Live, TypeOK, flow, kernel, tables, scratch, session,
        Stepping, AtStop
<1>1. CASE \/ ToggleExceptionBreakpoint \/ Detach
           \/ \E t \in Threads : SelectThread(t)
  BY <1>1 DEF ToggleExceptionBreakpoint, Detach, SelectThread, OwnInv, QuietInv, TextInv, FlowInv,
     Transparent, Past, WatchInv
<1>2. ASSUME AtStop
      PROVE  /\ CanPoke /\ \A u \in Threads : st[u] \in {"stop", "absent"} /\ rip[u] = due[u]
             /\ \A u \in Threads : st[u] = "stop" => u \in traced
  BY <1>2, StopFacts
<1>3. ASSUME NEW a \in Code, SetSoftBp(a) \/ RemoveSoftBp(a) PROVE Live'
  <2>1. AtStop /\ tp = "loop" /\ UNCHANGED <<flow, kernel, dr, tp, scratch, session, hw>>
    BY <1>3, <1>2 DEF SetSoftBp, RemoveSoftBp, Mutating, Ready, Calm
  <2>2. CanPoke /\ lift = NoAddr /\ \A c \in Code : text[c] = "int3" <=> soft[c] # "none"
    BY <1>2, <2>1 DEF TextInv, NoAddr
  <2>3. /\ \A c \in Code : soft'[c] \in {"none", "code"}
        /\ \A c \in Code : text'[c] = "int3" <=> soft'[c] # "none"
    <3>1. CASE SetSoftBp(a)
      <4>1. soft[a] = "none" /\ text[a] = "code"
        BY <2>2, <3>1 DEF SetSoftBp, Armed, Bytes
      <4>2. soft' = [soft EXCEPT ![a] = "code"] /\ text' = Poked(text, a, "int3")
        BY <3>1, <4>1 DEF SetSoftBp
      <4>3. \A c \in Code : text'[c] = IF c = a THEN "int3" ELSE text[c]
        BY <2>2, <4>2, PokedAt DEF Bytes
      <4> QED
        BY <2>2, <4>2, <4>3 DEF TextInv
    <3>2. CASE RemoveSoftBp(a)
      <4>1. soft[a] = "code"
        BY <3>2 DEF RemoveSoftBp, Armed, TextInv
      <4>2. soft' = [soft EXCEPT ![a] = "none"] /\ text' = Poked(text, a, "code")
        BY <3>2, <4>1 DEF RemoveSoftBp
      <4>3. \A c \in Code : text'[c] = IF c = a THEN "code" ELSE text[c]
        BY <2>2, <4>2, PokedAt DEF Bytes
      <4> QED
        BY <2>2, <4>2, <4>3 DEF TextInv
    <3> QED
      BY <1>3, <3>1, <3>2
  <2>4. TextInv'
    BY <2>1, <2>2, <2>3 DEF TextInv, NoAddr
  <2>5. OwnInv' /\ QuietInv' /\ WatchInv'
    BY <2>1 DEF OwnInv, QuietInv, WatchInv
  <2>6. FlowInv'
    BY <1>2, <2>1 DEF FlowInv, Transparent
  <2> QED
    BY <2>4, <2>5, <2>6
<1>4. ASSUME NEW a \in Code, SetRegs(a) PROVE Live'
  <2>1. AtStop /\ tp = "loop"
    BY <1>4 DEF SetRegs, Ready
  <2>2. FlowInv'
    BY <1>2, <1>4, <2>1 DEF SetRegs, FlowInv, Transparent
  <2> QED
    BY <1>4, <2>1, <2>2 DEF SetRegs, OwnInv, QuietInv, TextInv, WatchInv
<1>5. ASSUME NEW r \in DebugRegs, SetHwBp(r) \/ RemoveHwBp(r) PROVE Live'
  <2>1. AtStop /\ tp = "loop"
        /\ UNCHANGED <<flow, kernel, text, tp, scratch, session, soft>>
    BY <1>5 DEF SetHwBp, RemoveHwBp, Mutating, Ready, Calm
  <2>2. \A u \in Threads : dr'[u] \subseteq hw' /\ (dr'[u] # {} => u \in traced)
    <3>1. CASE SetHwBp(r)
      BY <3>1 DEF SetHwBp, WatchInv, StoppedTraced
    <3>2. CASE RemoveHwBp(r)
      <4>1. \A u \in Threads : dr'[u] = IF u \in StoppedTraced THEN dr[u] \ {r} ELSE dr[u]
        BY <3>2 DEF RemoveHwBp, Disarmed
      <4>2. \A u \in Threads : u \in traced => st[u] = "stop"
        BY <1>2, <2>1 DEF PresentInv
      <4>3. hw' = hw \ {r}
        BY <3>2 DEF RemoveHwBp
      <4>4. ASSUME NEW u \in Threads PROVE dr'[u] \subseteq hw' /\ (dr'[u] # {} => u \in traced)
        <5>1. CASE u \in traced
          BY <4>1, <4>2, <4>3, <5>1 DEF WatchInv, StoppedTraced
        <5>2. CASE u \notin traced
          BY <4>1, <5>2 DEF WatchInv, StoppedTraced
        <5> QED
          BY <5>1, <5>2
      <4> QED
        BY <4>4
    <3> QED
      BY <1>5, <3>1, <3>2
  <2>3. WatchInv'
    BY <2>1, <2>2 DEF WatchInv
  <2> QED
    BY <2>1, <2>3 DEF OwnInv, QuietInv, TextInv, FlowInv, Transparent, Past
<1> QED
  BY <1>1, <1>3, <1>4, <1>5

\* Cleaning up: when every thread has been stopped nothing is left planted or armed.
LEMMA CleanLive ==
    ASSUME SessionInv, Live, TypeOK',
           StartCleanup \/ CleanWait \/ CleanDone \/ \E t \in Threads : CleanOne(t)
    PROVE  Live'
<1> USE ConstantsAssumption
    DEF SessionInv, StopInv, Live, TypeOK, flow, kernel, tables, scratch, session,
        Stepping, AtStop
<1>1. CASE StartCleanup
  <2>1. \A t \in traced : st[t] = "stop" \/ t \in traced \ stoppedTids
    BY <1>1 DEF StartCleanup, FrozenInv, ControlInv, Held, Halted, OwnInv
  <2>2. OwnInv'
    BY <1>1, <2>1 DEF StartCleanup, OwnInv
  <2> QED
    BY <1>1, <2>2 DEF StartCleanup, QuietInv, TextInv, FlowInv, Transparent, WatchInv
<1>2. CASE CleanWait
  <2>1. st[cur] = "stop"
    BY <1>2 DEF CleanWait, WaitReturns, Reportable, EventInv, Halted, OwnInv
  <2>2. OwnInv'
    BY <1>2, <2>1 DEF CleanWait, Reap, OwnInv
  <2> QED
    BY <1>2, <2>2 DEF CleanWait, QuietInv, TextInv, FlowInv, Transparent, WatchInv
<1>3. ASSUME NEW t \in Threads, CleanOne(t) PROVE Live'
  <2>1. st[t] \in Alive \/ st[t] = "absent"
    BY DEF OwnInv, Alive
  <2>2. UNCHANGED <<st, ev, flow, text, dr, soft, hw, lift, traced>>
        /\ tp = "clean" /\ tp' \in {"clean", "cleanWait"}
    BY <1>3 DEF CleanOne, Interrupt
  <2>3. OwnInv'
    BY <1>3, <2>1, <2>2 DEF CleanOne, Traceable, OwnInv, PresentInv
  <2> QED
    BY <2>2, <2>3 DEF QuietInv, TextInv, FlowInv, Transparent, WatchInv
<1>4. CASE CleanDone
  <2>1. /\ Main \in Threads /\ \A t \in Threads : st[t] \in {"stop", "absent"}
        /\ \A t \in Threads : st[t] = "stop" <=> t \in traced
    BY <1>4 DEF CleanDone, OwnInv, PresentInv, Alive
  <2>2. CanPoke
    BY <2>1 DEF CanPoke, PresentInv
  <2>3. \A a \in Code : text'[a] = "code"
    <3>1. \A a \in Code : text[a] = "int3" => Armed(a) /\ soft[a] = "code"
      BY <1>4 DEF CleanDone, TextInv, Armed
    <3>2. \A a \in Code : Armed(a) => soft[a] = "code"
      BY DEF TextInv, Armed
    <3> QED
      BY <1>4, <2>2, <3>1, <3>2 DEF CleanDone, Restored, Bytes
  <2>4. \A t \in Threads : dr'[t] = {}
    <3>1. dr' = Disarmed(hw)
      BY <1>4 DEF CleanDone
    <3>2. ASSUME NEW t \in Threads PROVE dr'[t] = {}
      <4>1. dr'[t] = IF t \in StoppedTraced THEN dr[t] \ hw ELSE dr[t]
        BY <3>1 DEF Disarmed
      <4>2. CASE t \in traced
        BY <2>1, <4>1, <4>2 DEF StoppedTraced, WatchInv
      <4>3. CASE t \notin traced
        BY <4>1, <4>3 DEF StoppedTraced, WatchInv
      <4> QED
        BY <4>2, <4>3
    <3> QED
      BY <3>2
  <2>5. \A t \in Threads : st'[t] \in {"free", "absent"} /\ ev'[t] = "none"
    BY <1>4, <2>1 DEF CleanDone, Alive
  <2>6. OwnInv' /\ QuietInv'
    BY <1>4, <2>5 DEF CleanDone, OwnInv, QuietInv
  <2>7. TextInv'
    BY <1>4, <2>3 DEF CleanDone, TextInv
  <2>8. FlowInv' /\ WatchInv'
    BY <1>4, <2>4, <2>5 DEF CleanDone, FlowInv, Transparent, WatchInv
  <2> QED
    BY <2>6, <2>7, <2>8
<1> QED
  BY <1>1, <1>2, <1>3, <1>4

\* Every step keeps the program undisturbed until the process ends.
LEMMA LiveKept ==
    ASSUME Calm, LongInstructions, SessionInv, Gone \/ Live, [Next]_vars
    PROVE  (Gone \/ Live)'
<1>1. TypeOK /\ TypeOK'
  BY SessionKept DEF SessionInv
<1>2. SUFFICES ASSUME Live PROVE (Gone \/ Live)'
  BY <1>1, GoneKept
<1>3. CASE TracerStep
  BY <1>1, <1>2, <1>3, SeizeLive, PollLive, FreezeLive, ResumeLive, RunWaitLive, CleanLive
     DEF TracerStep
<1>4. CASE Command
  BY <1>1, <1>2, <1>4, ResumeLive, RunToLive, CommandLive DEF Command
<1>5. CASE \E t \in Threads : ThreadStep(t)
  BY <1>2, <1>5, TargetLive
<1>6. CASE Exit
  BY <1>1, <1>6 DEF Exit, Gone, TypeOK
<1>7. CASE UNCHANGED vars
  BY <1>2, <1>7
     DEF vars, flow, kernel, tables, scratch, session, Live, OwnInv, QuietInv, TextInv, FlowInv,
         Transparent, Past, WatchInv, AtStop, Stepping
<1> QED
  BY <1>3, <1>4, <1>5, <1>6, <1>7 DEF Next

\* Before the session nothing is planted or armed.
LEMMA InitLive == Init => Live
BY ConstantsAssumption
   DEF Init, Live, OwnInv, QuietInv, TextInv, FlowInv, Transparent, Past, WatchInv, AtStop,
       Stepping

\* For any number of threads and any program of longer instructions: signals, steps, runs
\* to an address, register edits and an exit leave every thread that is traced and runs where
\* its program is (handleStop, stopOtherThreads and doStep rewind each int3 they meet). Of a
\* thread that a detach has let go it says nothing: cleanup takes a trap without rewinding.
THEOREM ProgramKept ==
    ASSUME Calm, LongInstructions
    PROVE  Spec => []Transparent
<1>1. Init => SessionInv /\ (Gone \/ Live)
  BY InitSession, InitLive
<1>2. SessionInv /\ (Gone \/ Live) /\ [Next]_vars => (SessionInv /\ (Gone \/ Live))'
  BY SessionKept, LiveKept
<1>3. Gone \/ Live => Transparent
  BY DEF Gone, Live, FlowInv, Transparent
<1> QED
  BY <1>1, <1>2, <1>3, PTL DEF Spec

\* Between operations the text holds exactly the breakpoints of the table, and a target
\* that outlives the session keeps no int3 and no armed debug register (step over, run
\* to, tracerCleanup).
THEOREM NothingStray ==
    ASSUME Calm, LongInstructions
    PROVE  Spec => []NoStrayTraps
<1>1. Init => SessionInv /\ (Gone \/ Live)
  BY InitSession, InitLive
<1>2. SessionInv /\ (Gone \/ Live) /\ [Next]_vars => (SessionInv /\ (Gone \/ Live))'
  BY SessionKept, LiveKept
<1>3. SessionInv /\ (Gone \/ Live) => NoStrayTraps
  <2>1. CASE Gone
    BY <2>1, ConstantsAssumption DEF Gone, NoStrayTraps, CanPoke
  <2>2. CASE SessionInv /\ Live
    <3>1. tp = "loop" => \A a \in Code : text[a] = "int3" <=> soft[a] # "none"
      BY <2>2, ConstantsAssumption DEF Live, TextInv, Stepping, NoAddr
    <3>2. tp = "done" => \A a \in Code : text[a] = "code"
      BY <2>2 DEF Live, TextInv
    <3>3. tp = "done" => \A t \in Threads : dr[t] = {}
      BY <2>2 DEF Live, WatchInv
    <3> QED
      BY <3>1, <3>2, <3>3 DEF NoStrayTraps
  <2> QED
    BY <2>1, <2>2
<1> QED
  BY <1>1, <1>2, <1>3, PTL DEF Spec
=============================================================================
