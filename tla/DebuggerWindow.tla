-------------------------- MODULE DebuggerWindow --------------------------
(***************************************************************************)
(* The debugger window (gui/debuggerwindow.cpp) over its debug session.    *)
(* The session is seen from outside, as DebugSession.tla describes it: a   *)
(* table of software breakpoints, a list of armed debug registers, a       *)
(* target that is stopped or runs, and a tracer thread that calls the      *)
(* event callback.  The callback only stores the address of the event and  *)
(* queues onDebugEvent on the GUI thread: between a stop and its handler   *)
(* the user may already have driven the session on from a memory viewer,   *)
(* whose keys look at the session and not at the window's buttons.         *)
(***************************************************************************)
EXTENDS Naturals, FiniteSets, Sequences, SequencesExt, TLC

CONSTANTS Addrs,        \* code addresses
          Conditions,   \* breakpoint conditions: "" is none, "false" never holds
          DebugRegs,    \* debug registers of the processor (4)
          MaxRows, MaxIds, MaxWatches, MaxEvents   \* bounds: list rows, ids handed out, queued events

ASSUME ConditionsAssumption == "" \in Conditions
ASSUME BoundsAssumption == DebugRegs \in Nat /\ MaxRows \in Nat /\ MaxIds \in Nat /\ MaxWatches \in Nat /\ MaxEvents \in Nat \ {0}

VARIABLES sess,    \* [at, stop]: attached_, stopped_
          rip,     \* stopContext_: where the active thread stopped last
          code,    \* the target's text: "int3", or an instruction (its own or NOPs)
          table,   \* softBreakpoints_: address -> [id, saved]
          hw,      \* hwBreakpoints_: set of [id, addr, armed]
          next,    \* [soft, hw]: the next ids
          bps,     \* bps_ and its list widget
          rtc,     \* [id, addr]: pendingRtcId_, pendingRtcAddr_
          events,  \* queued onDebugEvent calls: "bp", "exited", "other" (step, signal)
          evAddr,  \* lastEvtAddr_
          ui,      \* what setRunningUi last showed
          shown,   \* [regs, code]: where the register and the disassembly pane say the target is
          modal,   \* the data breakpoint dialog is open
          resume,  \* the handler has decided to resume and not yet done so
          temps    \* history: ids planted by run-to-cursor

vars == <<sess, rip, code, table, hw, next, bps, rtc, events, evAddr, ui, shown, modal, resume, temps>>
target == <<sess, rip, code, table, hw, next>>
window == <<bps, rtc, ui, shown, modal, resume, temps>>

NoAddr == "none"
NoRtc == [id |-> 0, addr |-> NoAddr]

\* The constructor: attach() leaves every thread stopped, and the window shows it.
Init ==
    \E r \in Addrs :
        /\ sess = [at |-> TRUE, stop |-> TRUE] /\ rip = r
        /\ code = [a \in Addrs |-> "insn"] /\ table = << >> /\ hw = {} /\ next = [soft |-> 1, hw |-> 1]
        /\ bps = << >> /\ rtc = NoRtc /\ events = << >> /\ evAddr = NoAddr
        /\ ui = "stopped" /\ shown = [regs |-> r, code |-> r]
        /\ modal = FALSE /\ resume = FALSE /\ temps = {}

Planted == DOMAIN table
Attached == sess.at
IsStopped == sess.at /\ sess.stop

-----------------------------------------------------------------------------
(* The session's commands, run by the tracer thread while the caller waits. *)

\* doSetSoftBp: the id of the breakpoint already there, or a new int3; ptrace
\* cannot write into a running target (0 stands for the -1 it returns).
SetId(a) == IF ~Attached THEN 0
            ELSE IF a \in Planted THEN table[a].id
            ELSE IF IsStopped THEN next.soft ELSE 0
DoSetSoftBp(a) ==
    IF Attached /\ IsStopped /\ a \notin Planted
    THEN /\ next.soft <= MaxIds
         /\ table' = [x \in Planted \cup {a} |-> IF x = a THEN [id |-> next.soft, saved |-> code[a]] ELSE table[x]]
         /\ code' = [code EXCEPT ![a] = "int3"] /\ next' = [next EXCEPT !.soft = @ + 1]
    ELSE UNCHANGED <<table, code, next>>

\* doRemoveSoftBp: the entry goes; the byte goes back only if the target is stopped.
DoRemoveSoftBp(id) ==
    LET gone == {a \in Planted : table[a].id = id}
    IN IF ~Attached THEN UNCHANGED <<table, code>>
       ELSE /\ table' = [a \in Planted \ gone |-> table[a]]
            /\ code' = [a \in Addrs |-> IF a \in gone /\ IsStopped THEN table[a].saved ELSE code[a]]

\* doSetHwBp: arming ignores that a running thread refuses it.
FreeRegister == Cardinality(hw) < DebugRegs
DoSetHwBp(a) == /\ next.hw <= MaxWatches
                /\ hw' = hw \cup {[id |-> next.hw, addr |-> a, armed |-> IsStopped]}
                /\ next' = [next EXCEPT !.hw = @ + 1]
DoRemoveHwBp(id) == hw' = {b \in hw : b.id # id \/ ~Attached}

DoContinue == sess' = [sess EXCEPT !.stop = FALSE]

-----------------------------------------------------------------------------
(* The tracer thread: a stop is published before the callback runs. *)

\* setEventCallback
Publish(type, a) == /\ Len(events) < MaxEvents
                    /\ events' = Append(events, type) /\ evAddr' = a

Stops(r, type, a) ==
    /\ Attached /\ ~sess.stop
    /\ sess' = [sess EXCEPT !.stop = TRUE] /\ rip' = r
    /\ Publish(type, a) /\ UNCHANGED <<code, table, hw, next>> /\ UNCHANGED window

HitsBreakpoint(a) == a \in Planted /\ code[a] = "int3" /\ Stops(a, "bp", a)

\* A data breakpoint reports the watched address; rip is past the access.
HitsWatch(b, r) == b \in hw /\ b.armed /\ Stops(r, "bp", b.addr)

\* A signal of the exception menu, whichever boxes the user has checked there.
TakesSignal(r) == Stops(r, "other", r)

TargetExits ==
    /\ Attached /\ ~sess.stop
    /\ sess' = [sess EXCEPT !.at = FALSE, !.stop = FALSE] /\ Publish("exited", NoAddr)
    /\ UNCHANGED <<rip, code, table, hw, next>> /\ UNCHANGED window

-----------------------------------------------------------------------------
(* What the window shows. *)

UpdateRegisters(s, r) == [s EXCEPT !.regs = r]
UpdateDisassembly(s, r) == [s EXCEPT !.code = r]

RefreshStopped == IF Attached THEN ui' = "stopped" /\ shown' = UpdateDisassembly(UpdateRegisters(shown, rip'), rip')
                              ELSE UNCHANGED <<ui, shown>>

\* What every change of the breakpoint list ends with.
RenderIfStopped == shown' = IF IsStopped THEN UpdateDisassembly(shown, rip) ELSE shown

Idle == ~modal /\ ~resume

\* The rows a breakpoint at a occupies; the first one is the one the code acts on.
RowsAt(a) == {i \in DOMAIN bps : bps[i].addr = a}
RowAt(a) == CHOOSE i \in RowsAt(a) : \A j \in RowsAt(a) : i <= j

NewRow(id, a, hard, cond) == [id |-> id, addr |-> a, hw |-> hard, on |-> TRUE, cond |-> cond]

-----------------------------------------------------------------------------
(* Breakpoint list. *)

AddBreakpointAt(a, cond) ==
    IF ~IsStopped THEN UNCHANGED <<table, code, next, bps, shown>>
    ELSE IF RowsAt(a) # {} THEN /\ bps' = [bps EXCEPT ![RowAt(a)].cond = cond]
                                /\ UNCHANGED <<table, code, next, shown>>
    ELSE /\ Len(bps) < MaxRows
         /\ DoSetSoftBp(a)
         /\ bps' = IF SetId(a) > 0 THEN Append(bps, NewRow(SetId(a), a, FALSE, cond)) ELSE bps
         /\ RenderIfStopped

\* "Add" (the input is enabled with the step buttons) and "Set breakpoint here".
OnAddBreakpoint(a) ==
    /\ Idle
    /\ AddBreakpointAt(a, "")
    /\ UNCHANGED <<sess, rip, hw, rtc, events, evAddr, ui, modal, resume, temps>>

\* removeSoftwareBreakpoint or removeHardwareBreakpoint of the session, then the row.
Unplant(b) == IF b.hw THEN DoRemoveHwBp(b.id) /\ UNCHANGED <<table, code>>
                      ELSE DoRemoveSoftBp(b.id) /\ UNCHANGED hw

EraseRow(i) == Unplant(bps[i]) /\ bps' = RemoveAt(bps, i) /\ UNCHANGED next /\ RenderIfStopped

OnRemoveBreakpoint(i) ==
    /\ Idle /\ i \in DOMAIN bps
    /\ EraseRow(i)
    /\ UNCHANGED <<sess, rip, rtc, events, evAddr, ui, modal, resume, temps>>

\* F5
ToggleBreakpointAtCursor(a) ==
    /\ Idle
    /\ IF RowsAt(a) # {} THEN EraseRow(RowAt(a)) ELSE AddBreakpointAt(a, "") /\ UNCHANGED hw
    /\ UNCHANGED <<sess, rip, rtc, events, evAddr, ui, modal, resume, temps>>

DisableKeepsMark(i) == Unplant(bps[i]) /\ UNCHANGED <<bps, next>> /\ RenderIfStopped

Disable(i) == Unplant(bps[i]) /\ bps' = [bps EXCEPT ![i].on = FALSE] /\ UNCHANGED next /\ RenderIfStopped

Enable(i) ==
    IF bps[i].hw
    THEN IF ~FreeRegister THEN UNCHANGED <<table, code, hw, next, bps, shown>>
         ELSE /\ DoSetHwBp(bps[i].addr) /\ UNCHANGED <<table, code>> /\ RenderIfStopped
              /\ bps' = [bps EXCEPT ![i].id = next.hw, ![i].on = TRUE]
    ELSE /\ DoSetSoftBp(bps[i].addr) /\ UNCHANGED hw /\ RenderIfStopped
         /\ bps' = [bps EXCEPT ![i].id = SetId(bps[i].addr), ![i].on = TRUE]

\* The row's check box; while the target runs the box flips back.
ItemChanged(i) ==
    /\ Idle /\ i \in DOMAIN bps /\ IsStopped
    /\ IF bps[i].on THEN Disable(i) ELSE Enable(i)
    /\ UNCHANGED <<sess, rip, rtc, events, evAddr, ui, modal, resume, temps>>

\* setConditionalBreakpointAtCursor and editBreakpointCondition: what their dialogs
\* return is used as if it had been typed at once, the stop is asked for afterwards.
SetConditionalBreakpoint(a, cond) ==
    /\ Idle /\ AddBreakpointAt(a, cond)
    /\ UNCHANGED <<sess, rip, hw, rtc, events, evAddr, ui, modal, resume, temps>>

EditBreakpointCondition(i, cond) ==
    /\ Idle /\ cond # bps[i].cond /\ bps' = [bps EXCEPT ![i].cond = cond]
    /\ UNCHANGED target
    /\ UNCHANGED <<rtc, events, evAddr, ui, shown, modal, resume, temps>>

\* onAddDataBreakpoint asks whether the target is stopped, then opens three dialogs
\* whose event loop drains the queue, and does not ask again.
OpenDataBreakpoint ==
    /\ Idle /\ IsStopped /\ modal' = TRUE
    /\ UNCHANGED target
    /\ UNCHANGED <<bps, rtc, events, evAddr, ui, shown, resume, temps>>

AddDataBreakpoint(a) ==
    /\ modal /\ ~resume /\ modal' = FALSE
    /\ IF \/ \E i \in RowsAt(a) : bps[i].hw
          \/ ~Attached
          \/ ~FreeRegister
       THEN UNCHANGED <<hw, next, bps>>
       ELSE /\ Len(bps) < MaxRows
            /\ DoSetHwBp(a) /\ bps' = Append(bps, NewRow(next.hw, a, TRUE, ""))
    /\ UNCHANGED <<sess, rip, code, table, rtc, events, evAddr, ui, shown, resume, temps>>

CancelDataBreakpoint ==
    /\ modal /\ ~resume /\ modal' = FALSE
    /\ UNCHANGED target
    /\ UNCHANGED <<bps, rtc, events, evAddr, ui, shown, resume, temps>>

-----------------------------------------------------------------------------
(* Running the target.  The window's buttons are enabled by setRunningUi;   *)
(* the keys of a memory viewer ask debugStopped().                          *)

Pressable == Idle /\ (ui = "stopped" \/ IsStopped)

OnContinue ==
    /\ Pressable /\ Attached
    /\ ui' = "running" /\ DoContinue
    /\ UNCHANGED <<rip, code, table, hw, next, bps, rtc, events, evAddr, shown, modal, resume, temps>>

\* onStepInto, onStepOver, onStepOut: the active thread alone moves, the step's own
\* event is queued, and the window is refreshed without waiting for it.
OnStep ==
    /\ Pressable /\ IsStopped
    /\ \E r \in Addrs : rip' = r /\ Publish("other", r)
    /\ UNCHANGED <<sess, code, table, hw, next>>
    /\ RefreshStopped
    /\ UNCHANGED <<bps, rtc, modal, resume, temps>>

\* runToAddress, from the cursor of this window or of a viewer (whatever the row at
\* that address is: an unchecked one too counts as a breakpoint to continue to).
RunToAddress(a) ==
    /\ Pressable /\ IsStopped
    /\ IF RowsAt(a) # {} THEN UNCHANGED <<table, code, next, rtc, temps>>
       ELSE /\ DoSetSoftBp(a)
            /\ rtc' = [id |-> SetId(a), addr |-> a]
            /\ temps' = temps \cup {SetId(a)}
    /\ ui' = "running" /\ DoContinue
    /\ UNCHANGED <<rip, hw, bps, events, evAddr, shown, modal, resume>>

\* tracerCleanup writes every saved byte back and clears the debug registers.
DetachSession == /\ sess' = [sess EXCEPT !.at = FALSE, !.stop = FALSE]
                 /\ code' = [a \in Addrs |-> IF a \in Planted THEN table[a].saved ELSE code[a]]
                 /\ table' = << >> /\ hw' = {}

OnDetach ==
    /\ Idle /\ ui # "exited"
    /\ IF Attached THEN DetachSession ELSE UNCHANGED <<sess, code, table, hw>>
    /\ ui' = "exited"
    /\ UNCHANGED <<rip, next, bps, rtc, events, evAddr, shown, modal, resume, temps>>

-----------------------------------------------------------------------------
(* Panes. *)

\* selectThread: the stop context becomes the selected thread's.
OnThreadSelected(r) ==
    /\ Idle /\ IsStopped
    /\ rip' = r /\ UNCHANGED <<sess, code, table, hw, next>>
    /\ RefreshStopped
    /\ UNCHANGED <<bps, rtc, events, evAddr, modal, resume, temps>>

\* Row 0 of the register table; the write goes to the thread that is active now.
OnRegisterEdited(r) ==
    /\ Idle /\ IsStopped
    /\ rip' = r
    /\ UNCHANGED <<sess, code, table, hw, next>>
    /\ shown' = UpdateRegisters(shown, r)
    /\ UNCHANGED <<bps, rtc, events, evAddr, ui, modal, resume, temps>>

\* nopInstruction decodes what is in memory: a planted int3 is a one-byte instruction.
NopInstructionAtCursor(a) ==
    /\ Idle /\ IsStopped
    /\ code' = [code EXCEPT ![a] = "insn"]
    /\ RenderIfStopped
    /\ UNCHANGED <<sess, rip, table, hw, next, bps, rtc, events, evAddr, ui, modal, resume, temps>>

\* rebuildDebuggerComments of the main window, when a viewer edits an annotation.
SetComments ==
    /\ Idle /\ IsStopped /\ RenderIfStopped
    /\ UNCHANGED target
    /\ UNCHANGED <<bps, rtc, events, evAddr, ui, modal, resume, temps>>

-----------------------------------------------------------------------------
(* The queued handler. *)

\* conditionMatches: no condition, and a condition that cannot be run, break.
EvaluateBreakpointCondition(cond) == cond # "false"

\* Auto-clear of the run-to-cursor breakpoint, on the last address any event stored.
ClearsRtc(type) == type = "bp" /\ rtc.id > 0 /\ evAddr = rtc.addr
AutoClear(type) == IF ClearsRtc(type) THEN DoRemoveSoftBp(rtc.id) /\ rtc' = NoRtc
                                      ELSE UNCHANGED <<table, code, rtc>>

\* The breakpoint that stopped us is looked up at the stop context of now.
Silent(type) == /\ type = "bp" /\ RowsAt(rip) # {}
                /\ ~EvaluateBreakpointCondition(bps[RowAt(rip)].cond)

ShowStopOfRows(type) == IF type = "bp" /\ RowsAt(rip) = {} THEN UNCHANGED <<ui, shown>>
                        ELSE RefreshStopped

ShowStop(type) == RefreshStopped

OnDebugEvent ==
    /\ ~resume /\ events # << >>
    /\ events' = Tail(events)
    /\ evAddr' = IF Len(events) > 1 THEN evAddr ELSE NoAddr   \* dead until the next event
    /\ UNCHANGED <<sess, rip, hw, next, bps, modal, temps>>
    /\ IF Head(events) = "exited"
       THEN ui' = "exited" /\ UNCHANGED <<code, table, rtc, shown, resume>>
       ELSE /\ AutoClear(Head(events))
            /\ IF Silent(Head(events))
               THEN ui' = "running" /\ resume' = TRUE /\ UNCHANGED shown
               ELSE ShowStop(Head(events)) /\ UNCHANGED resume

\* ... and the handler's continueExecution, which the tracer may have overtaken.
ResumeSilently ==
    /\ resume /\ resume' = FALSE
    /\ IF IsStopped THEN DoContinue ELSE UNCHANGED sess
    /\ UNCHANGED <<rip, code, table, hw, next, bps, rtc, events, evAddr, ui, shown, modal, temps>>

-----------------------------------------------------------------------------

Next ==
    \/ \E a \in Addrs : HitsBreakpoint(a)
    \/ \E b \in hw, r \in Addrs : HitsWatch(b, r)
    \/ \E r \in Addrs : TakesSignal(r)
    \/ TargetExits
    \/ \E a \in Addrs : OnAddBreakpoint(a)
    \/ \E i \in DOMAIN bps : OnRemoveBreakpoint(i)
    \/ \E a \in Addrs : ToggleBreakpointAtCursor(a)
    \/ \E i \in DOMAIN bps : ItemChanged(i)
    \/ \E a \in Addrs, c \in Conditions \ {""} : SetConditionalBreakpoint(a, c)
    \/ \E i \in DOMAIN bps, c \in Conditions : EditBreakpointCondition(i, c)
    \/ OpenDataBreakpoint
    \/ \E a \in Addrs : AddDataBreakpoint(a)
    \/ CancelDataBreakpoint
    \/ OnContinue
    \/ OnStep
    \/ \E a \in Addrs : RunToAddress(a)
    \/ OnDetach
    \/ \E r \in Addrs : OnThreadSelected(r)
    \/ \E r \in Addrs : OnRegisterEdited(r)
    \/ \E a \in Addrs : NopInstructionAtCursor(a)
    \/ SetComments
    \/ OnDebugEvent
    \/ ResumeSilently

Spec == Init /\ [][Next]_vars

\* Addresses are interchangeable.
AddrSymmetry == Permutations(Addrs)

\* A bound: a window whose session has ended is followed until it has shown that.
Live == ui # "exited" \/ events # << >>

-----------------------------------------------------------------------------

\* Every checked row of the list is a breakpoint the session has, under the row's
\* own id, whatever was run to, removed, unchecked, selected or reported in between.
\* The exception is a breakpoint added where a run-to-cursor one was still pending:
\* it takes over that one's id, and the hit that clears the temporary takes it too.
ChecksArePlanted ==
    Attached => \A i \in DOMAIN bps : bps[i].on /\ (bps[i].hw \/ bps[i].id \notin temps) =>
        IF bps[i].hw THEN \E b \in hw : b.id = bps[i].id /\ b.addr = bps[i].addr
        ELSE bps[i].addr \in Planted /\ table[bps[i].addr].id = bps[i].id

\* When the queue has drained, a stopped target is shown as stopped, with the
\* context the session has: no order of hits, silent resumes,
\* steps and keys pressed in a viewer loses a stop.
StopShown ==
    (IsStopped /\ events = << >> /\ ~resume) => ui = "stopped" /\ shown.regs = rip

=============================================================================
